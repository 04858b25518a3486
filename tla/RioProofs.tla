----------------------------- MODULE RioProofs -----------------------------
(***************************************************************************)
(* Proofs about Rio, for every stream, buffer size and sequence of calls:  *)
(* the buffer and the call in progress stay in order, and the reader       *)
(* implements ByteStream.                                                  *)
(***************************************************************************)
EXTENDS Rio, TLAPS

IInv == TypeOK /\ BufferHoldsNext /\ CallInOrder

(* What the call still asks for. *)
LEMMA LeftBounds ==
    ASSUME TypeOK
    PROVE  /\ Left \in Int
           /\ Left > 0 => op # "none"
           /\ op = "rio_readnb" => Left = n - Len(usrbuf)
           /\ op = "rio_readlineb" =>
                 /\ Left \in {0, 1}
                 /\ Left = 1 <=> (Len(usrbuf) < n - 1 /\ ~LineEnded)
BY DEF TypeOK, Left

LEMMA UnreadBounds ==
    ASSUME TypeOK
    PROVE  Unread \in 0 .. RIO_BUFSIZE /\ Unread \in Nat
BY RioAssumption DEF TypeOK, Unread

-----------------------------------------------------------------------------
LEMMA Initially == Init => IInv
BY RioAssumption DEF Init, IInv, TypeOK, BufferHoldsNext, CallInOrder, Unread

LEMMA CallStep ==
    ASSUME IInv, NEW function \in {"rio_readnb", "rio_readlineb"}, NEW count \in Counts,
           Call(function, count)
    PROVE  IInv'
<1>1. TypeOK'
  BY RioAssumption DEF IInv, TypeOK, Call, stream, rio_t
<1>2. BufferHoldsNext'
  BY DEF IInv, BufferHoldsNext, Unread, Call, stream, rio_t
<1>3. CallInOrder'
  BY RioAssumption, UnreadBounds
     DEF IInv, TypeOK, BufferHoldsNext, CallInOrder, Unread, Call, stream, rio_t
<1> QED
  BY <1>1, <1>2, <1>3 DEF IInv

LEMMA ReturnStep ==
    ASSUME IInv, Done \/ EndOfFile \/ ReadFails
    PROVE  IInv'
<1>1. /\ op' = "none" /\ reply' \in {usrbuf, Failed}
      /\ UNCHANGED <<newlines, fetched, rio_buf, rio_bufptr, n, usrbuf>>
  BY DEF Done, EndOfFile, ReadFails, Return, stream, rio_t
<1>2. rio_cnt' \in -1 .. RIO_BUFSIZE /\ Unread' = Unread
  BY RioAssumption
     DEF IInv, TypeOK, Unread, Empty, Done, EndOfFile, ReadFails, rio_t
<1>3. TypeOK'
  BY <1>1, <1>2 DEF IInv, TypeOK
<1>4. BufferHoldsNext'
  BY <1>1, <1>2 DEF IInv, BufferHoldsNext
<1>5. CallInOrder'
  BY <1>1 DEF CallInOrder
<1> QED
  BY <1>3, <1>4, <1>5 DEF IInv

LEMMA RefillStep ==
    ASSUME IInv, NEW count \in 1 .. RIO_BUFSIZE, Refill(count)
    PROVE  IInv'
<1>1. TypeOK'
  BY RioAssumption DEF IInv, TypeOK, Refill
<1>2. BufferHoldsNext'
  <2>1. /\ Unread' = count /\ fetched' = fetched + count /\ rio_bufptr' = 1
        /\ fetched \in Nat /\ count \in Nat
    BY RioAssumption DEF IInv, TypeOK, Unread, Refill
  <2>2. \A j \in 1 .. count : rio_buf'[j] = fetched + j
    BY RioAssumption DEF Refill
  <2>3. ASSUME NEW j \in 1 .. count
        PROVE  rio_buf'[1 + j - 1] = (fetched + count) - count + j
    <3>1. 1 + j - 1 = j /\ (fetched + count) - count + j = fetched + j
      BY <2>1
    <3> QED
      BY <2>2, <3>1
  <2> QED
    BY <2>1, <2>3, RioAssumption DEF BufferHoldsNext
<1>3. CallInOrder'
  <2>1. Unread = 0 /\ Unread' = count /\ fetched' = fetched + count
    BY RioAssumption DEF IInv, TypeOK, Unread, Empty, Refill
  <2>2. fetched' - Unread' = fetched - Unread
    BY <2>1 DEF IInv, TypeOK
  <2> QED
    BY <2>2 DEF IInv, CallInOrder, Refill
<1> QED
  BY <1>1, <1>2, <1>3 DEF IInv

LEMMA InterruptedStep ==
    ASSUME IInv, Interrupted
    PROVE  IInv'
<1>1. TypeOK'
  BY RioAssumption DEF IInv, TypeOK, Interrupted, stream
<1>2. Unread = 0 /\ Unread' = 0
  BY RioAssumption DEF IInv, TypeOK, Unread, Empty, Interrupted
<1>3. BufferHoldsNext' /\ CallInOrder'
  BY <1>2, RioAssumption DEF IInv, TypeOK, BufferHoldsNext, CallInOrder, Interrupted, stream
<1> QED
  BY <1>1, <1>3 DEF IInv

(* A copy moves bytes from the front of the buffer to the end of the call. *)
LEMMA CopyStep ==
    ASSUME IInv, Copy
    PROVE  IInv' /\ Len(usrbuf') = Len(usrbuf) + Copied
<1> DEFINE piece == [j \in 1 .. Copied |-> rio_buf[rio_bufptr + j - 1]]
<1>1. /\ TypeOK /\ BufferHoldsNext /\ CallInOrder /\ op # "none"
      /\ rio_cnt \in 1 .. RIO_BUFSIZE /\ Unread = rio_cnt /\ Left \in Nat \ {0}
  <2>1. TypeOK /\ BufferHoldsNext /\ CallInOrder /\ Left > 0 /\ rio_cnt > 0
    BY DEF IInv, Copy
  <2> QED
    BY <2>1, LeftBounds, RioAssumption DEF TypeOK, Unread
<1>2. Copied \in 1 .. rio_cnt /\ Copied <= Left
  BY <1>1 DEF Copied
<1>3. \A j \in 1 .. Copied :
         rio_buf[rio_bufptr + j - 1] = fetched - rio_cnt + j /\ fetched - rio_cnt + j \in 1 .. Length
  BY <1>1, <1>2, RioAssumption DEF BufferHoldsNext, TypeOK
<1>4. piece \in Seq(1 .. Length) /\ Len(piece) = Copied
  BY <1>1, <1>2, <1>3
<1>5. /\ usrbuf' \in Seq(1 .. Length)
      /\ Len(usrbuf') = Len(usrbuf) + Copied
      /\ \A j \in 1 .. Len(usrbuf) : usrbuf'[j] = usrbuf[j]
      /\ \A j \in 1 .. Copied : usrbuf'[Len(usrbuf) + j] = piece[j]
  <2>1. usrbuf' = usrbuf \o piece /\ usrbuf \in Seq(1 .. Length)
    BY <1>1 DEF Copy, TypeOK
  <2> HIDE DEF piece
  <2>2. Len(usrbuf \o piece) = Len(usrbuf) + Len(piece)
    BY <1>4, <2>1
  <2>3. usrbuf \o piece \in Seq(1 .. Length)
    BY <1>4, <2>1
  <2>4. \A j \in 1 .. Len(usrbuf) : (usrbuf \o piece)[j] = usrbuf[j]
    BY <1>4, <2>1
  <2>5. \A j \in 1 .. Len(piece) : (usrbuf \o piece)[Len(usrbuf) + j] = piece[j]
    BY <1>4, <2>1
  <2> QED
    BY <1>4, <2>1, <2>2, <2>3, <2>4, <2>5
<1>6. /\ rio_cnt' = rio_cnt - Copied /\ rio_bufptr' = rio_bufptr + Copied
      /\ UNCHANGED <<newlines, fetched, rio_buf, op, n, reply>>
      /\ Unread' = rio_cnt - Copied
  BY <1>1, <1>2 DEF Copy, stream, Unread
<1>7. TypeOK'
  BY <1>1, <1>2, <1>5, <1>6, RioAssumption DEF TypeOK, BufferHoldsNext
<1>8. BufferHoldsNext'
  <2>1. ASSUME NEW j \in 1 .. rio_cnt - Copied
        PROVE  rio_buf[rio_bufptr + Copied + j - 1] = fetched - (rio_cnt - Copied) + j
    <3>1. Copied + j \in 1 .. rio_cnt
      BY <1>1, <1>2
    <3>2. rio_buf[rio_bufptr + (Copied + j) - 1] = fetched - rio_cnt + (Copied + j)
      BY <1>1, <3>1 DEF BufferHoldsNext
    <3> QED
      BY <1>1, <1>2, <3>2 DEF TypeOK
  <2> QED
    BY <1>1, <1>2, <1>6, <2>1 DEF BufferHoldsNext, TypeOK
<1>9. CallInOrder'
  <2>1. Len(usrbuf) \in Nat /\ fetched \in Nat /\ n \in Counts /\ n \in Nat
    BY <1>1, RioAssumption DEF CallInOrder, TypeOK
  <2>2. Len(usrbuf') <= fetched - Unread'
    BY <1>1, <1>2, <1>5, <1>6, <2>1 DEF CallInOrder
  <2>3. ASSUME NEW j \in 1 .. Len(usrbuf')
        PROVE  usrbuf'[j] = fetched - Unread' - Len(usrbuf') + j
    <3>1. CASE j <= Len(usrbuf)
      <4>1. j \in DOMAIN usrbuf /\ j \in 1 .. Len(usrbuf) /\ j \in Nat
        BY <1>1, <1>5, <2>1, <3>1 DEF TypeOK
      <4>2. usrbuf'[j] = fetched - rio_cnt - Len(usrbuf) + j
        <5>1. \A m \in DOMAIN usrbuf : usrbuf[m] = fetched - Unread - Len(usrbuf) + m
          BY <1>1 DEF CallInOrder
        <5> QED
          BY <1>1, <1>5, <4>1, <5>1
      <4>3. fetched - rio_cnt - Len(usrbuf) + j
               = fetched - (rio_cnt - Copied) - (Len(usrbuf) + Copied) + j
        BY <1>1, <1>2, <2>1, <4>1
      <4> QED
        BY <1>5, <1>6, <4>2, <4>3
    <3>2. CASE j > Len(usrbuf)
      <4>1. PICK k \in 1 .. Copied : j = Len(usrbuf) + k
        <5>1. j - Len(usrbuf) \in 1 .. Copied
          BY <1>2, <1>5, <2>1, <3>2
        <5> QED
          BY <2>1, <5>1
      <4>2. usrbuf'[j] = fetched - rio_cnt + k
        BY <1>3, <1>5, <4>1
      <4>3. /\ Unread' = rio_cnt - Copied /\ Len(usrbuf') = Len(usrbuf) + Copied
            /\ rio_cnt \in Nat /\ Copied \in Nat /\ k \in Nat
        BY <1>1, <1>2, <1>5, <1>6
      <4>4. fetched - rio_cnt + k
               = fetched - (rio_cnt - Copied) - (Len(usrbuf) + Copied) + (Len(usrbuf) + k)
        BY <2>1, <4>3
      <4> QED
        BY <4>1, <4>2, <4>3, <4>4
    <3> QED
      BY <2>1, <3>1, <3>2
  <2>4. op = "rio_readnb" => Len(usrbuf') <= n
    BY <1>1, <1>2, <1>5, <2>1, LeftBounds
  <2>5. op = "rio_readlineb" =>
           /\ n >= 1 /\ Len(usrbuf') <= n - 1
           /\ \A j \in 1 .. Len(usrbuf') : usrbuf'[j] \in newlines => j = Len(usrbuf')
    <3> SUFFICES ASSUME op = "rio_readlineb"
                 PROVE  /\ n >= 1 /\ Len(usrbuf') <= n - 1
                        /\ \A j \in 1 .. Len(usrbuf') :
                              usrbuf'[j] \in newlines => j = Len(usrbuf')
      OBVIOUS
    <3>1. Copied = 1 /\ Len(usrbuf) < n - 1 /\ ~LineEnded
      BY <1>1, <1>2, LeftBounds
    <3>2. \A j \in 1 .. Len(usrbuf) : usrbuf[j] \notin newlines
      <4>1. \A j \in 1 .. Len(usrbuf) : usrbuf[j] \in newlines => j = Len(usrbuf)
        BY <1>1 DEF CallInOrder, TypeOK
      <4>2. usrbuf # <<>> => usrbuf[Len(usrbuf)] \notin newlines
        BY <3>1 DEF LineEnded
      <4>3. ASSUME NEW j \in 1 .. Len(usrbuf) PROVE usrbuf # <<>>
        BY <1>1 DEF TypeOK
      <4> QED
        BY <4>1, <4>2, <4>3
    <3> QED
      BY <1>1, <1>5, <2>1, <3>1, <3>2 DEF CallInOrder
  <2>6. DOMAIN usrbuf' = 1 .. Len(usrbuf')
    BY <1>5
  <2> QED
    BY <1>6, <2>1, <2>2, <2>3, <2>4, <2>5, <2>6 DEF CallInOrder
<1> QED
  BY <1>5, <1>7, <1>8, <1>9 DEF IInv

LEMMA Step == IInv /\ [Next]_vars => IInv'
<1> SUFFICES ASSUME IInv, [Next]_vars PROVE IInv'
  OBVIOUS
<1>1. CASE UNCHANGED vars
  BY <1>1 DEF vars, IInv, TypeOK, BufferHoldsNext, CallInOrder, Unread
<1> QED
  BY <1>1, CallStep, ReturnStep, RefillStep, InterruptedStep, CopyStep DEF Next

(* The invariant, for every stream and every sequence of calls. *)
THEOREM Invariance == Spec => []IInv
BY Initially, Step, PTL DEF Spec

(* Whatever the stream delivers, the count and the pointer of the buffer   *)
(* stay within it, and a caller gets only bytes of the stream              *)
(* (csapp.c:475-566).                                                      *)
THEOREM TypeCorrect == Spec => []TypeOK
<1>1. IInv => TypeOK
  BY DEF IInv
<1> QED
  BY Invariance, <1>1, PTL

(* The unread part of the buffer is always the next part of the stream     *)
(* (csapp.c:481-508).                                                      *)
THEOREM BufferInOrder == Spec => []BufferHoldsNext
<1>1. IInv => BufferHoldsNext
  BY DEF IInv
<1> QED
  BY Invariance, <1>1, PTL

(* A call in progress holds consecutive bytes and stops where it should    *)
(* (csapp.c:522-566).                                                      *)
THEOREM CallsInOrder == Spec => [](TypeOK /\ CallInOrder)
<1>1. IInv => TypeOK /\ CallInOrder
  BY DEF IInv
<1> QED
  BY Invariance, <1>1, PTL
-----------------------------------------------------------------------------
(* The place in the stream up to which the callers have been served. *)
Position == fetched - Unread - IF op = "none" THEN 0 ELSE Len(usrbuf)

LEMMA PositionBounds ==
    ASSUME IInv
    PROVE  /\ Position \in 0 .. Length /\ Position \in Nat
           /\ op = "none" => Position = fetched - Unread
           /\ op # "none" => /\ Len(usrbuf) \in Nat
                            /\ Position + Len(usrbuf) = fetched - Unread
                            /\ Position + Len(usrbuf) <= Length
<1>1. fetched \in Nat /\ Unread \in Nat /\ Unread <= fetched /\ fetched <= Length
      /\ Length \in Nat
  BY UnreadBounds, RioAssumption DEF IInv, TypeOK, BufferHoldsNext
<1>2. Len(usrbuf) \in Nat
  BY DEF IInv, TypeOK
<1>3. CASE op = "none"
  <2>1. Position = fetched - Unread
    BY <1>1, <1>3 DEF Position
  <2> HIDE DEF Position
  <2> QED
    BY <1>1, <1>3, <2>1
<1>4. CASE op # "none"
  <2>1. Len(usrbuf) <= fetched - Unread
    BY <1>4 DEF IInv, CallInOrder
  <2>2. Position = fetched - Unread - Len(usrbuf)
    BY <1>1, <1>2, <1>4 DEF Position
  <2> HIDE DEF Position
  <2> QED
    BY <1>1, <1>2, <1>4, <2>1, <2>2
<1> QED
  BY <1>3, <1>4

(* A return gives the caller the next bytes of the stream. *)
LEMMA ReturnGives ==
    ASSUME IInv, op # "none", op' = "none", reply' = usrbuf,
           UNCHANGED <<newlines, fetched>>, Unread' = Unread
    PROVE  Stream!Give(Len(usrbuf))
<1>1. /\ Len(usrbuf) \in Nat /\ Position \in Nat
      /\ Position + Len(usrbuf) = fetched - Unread /\ Position + Len(usrbuf) <= Length
  BY PositionBounds
<1>2. Position' = Position + Len(usrbuf)
  BY <1>1 DEF Position
<1>3. usrbuf = [j \in 1 .. Len(usrbuf) |-> Position + j]
  <2>1. \A j \in DOMAIN usrbuf : usrbuf[j] = fetched - Unread - Len(usrbuf) + j
    BY DEF IInv, CallInOrder
  <2>2. usrbuf \in Seq(1 .. Length) /\ Unread \in Nat /\ fetched \in Nat
    BY UnreadBounds, RioAssumption DEF IInv, TypeOK
  <2>3. Position = fetched - Unread - Len(usrbuf)
    BY <1>1, <2>2
  <2>4. \A j \in 1 .. Len(usrbuf) : usrbuf[j] = Position + j
    <3> HIDE DEF Position
    <3> QED
      BY <1>1, <2>1, <2>2, <2>3
  <2>5. usrbuf = [j \in 1 .. Len(usrbuf) |-> usrbuf[j]]
    BY <2>2
  <2> HIDE DEF Position
  <2> QED
    BY <2>4, <2>5
<1> QED
  BY <1>1, <1>2, <1>3 DEF Stream!Give, Stream!Piece, Position

LEMMA StreamInit == Init => Stream!Init
BY DEF Init, Stream!Init, Unread

LEMMA StreamStep ==
    ASSUME IInv, [Next]_vars
    PROVE  [Stream!Next]_(Stream!vars)
<1> DEFINE Same == UNCHANGED <<newlines, Position, reply>>
<1>1. Same => UNCHANGED Stream!vars
  BY DEF Stream!vars, Position
<1>2. ASSUME NEW function \in {"rio_readnb", "rio_readlineb"}, NEW count \in Counts,
             Call(function, count)
      PROVE  Same
  <2>1. UNCHANGED <<newlines, reply, fetched, Unread>> /\ Len(usrbuf') = 0
        /\ op = "none" /\ op' # "none"
    BY <1>2 DEF Call, stream, rio_t, Unread
  <2> QED
    BY <2>1, UnreadBounds, RioAssumption DEF Position, IInv, TypeOK
<1>3. ASSUME Done \/ EndOfFile
      PROVE  \E m \in Counts : Stream!ReadN(m) \/ Stream!ReadLine(m)
  <2>1. /\ op # "none" /\ op' = "none" /\ reply' = usrbuf
        /\ UNCHANGED <<newlines, fetched>> /\ Unread' = Unread
    <3>1. CASE Done
      BY <3>1 DEF Done, Return, stream, rio_t, Unread
    <3>2. CASE EndOfFile
      BY <3>2, LeftBounds, RioAssumption
         DEF IInv, TypeOK, EndOfFile, Empty, Return, stream, Unread
    <3> QED
      BY <1>3, <3>1, <3>2
  <2>2. Stream!Give(Len(usrbuf))
    BY <2>1, ReturnGives
  <2>3. Len(usrbuf) \in Nat /\ n \in Counts /\ n \in Nat
    BY <2>1, RioAssumption DEF IInv, TypeOK, CallInOrder
  <2>4. EndOfFile => Position + Len(usrbuf) = Length
    BY <2>1, PositionBounds, RioAssumption
       DEF EndOfFile, Empty, Unread, IInv, TypeOK
  <2>5. CASE op = "rio_readnb"
    <3>1. Len(usrbuf) \in 0 .. n
      BY <2>1, <2>3, <2>5 DEF IInv, CallInOrder
    <3>2. Len(usrbuf) = n \/ Position + Len(usrbuf) = Length
      BY <1>3, <2>3, <2>4, <2>5, LeftBounds DEF Done, IInv
    <3> QED
      BY <2>2, <2>3, <3>1, <3>2 DEF Stream!ReadN, Position
  <2>6. CASE op = "rio_readlineb"
    <3>1. Len(usrbuf) \in 0 .. n - 1
      BY <2>1, <2>3, <2>6 DEF IInv, CallInOrder
    <3>2. \A j \in DOMAIN usrbuf : usrbuf[j] = Position + j
      BY <2>1, PositionBounds, UnreadBounds, RioAssumption DEF IInv, TypeOK, CallInOrder
    <3>3. DOMAIN usrbuf = 1 .. Len(usrbuf)
      BY DEF IInv, TypeOK
    <3>4. \A j \in 1 .. Len(usrbuf) - 1 : Position + j \notin newlines
      BY <2>1, <2>3, <2>6, <3>2, <3>3 DEF IInv, CallInOrder
    <3>5. LineEnded => Len(usrbuf) > 0 /\ Position + Len(usrbuf) \in newlines
      BY <2>3, <3>2, <3>3 DEF LineEnded, IInv, TypeOK
    <3>6. Done => Len(usrbuf) = n - 1 \/ LineEnded
      BY <2>3, <2>6, <3>1, LeftBounds DEF Done, IInv
    <3>7. \/ Len(usrbuf) = n - 1
          \/ Position + Len(usrbuf) = Length
          \/ Len(usrbuf) > 0 /\ Position + Len(usrbuf) \in newlines
      BY <1>3, <2>4, <3>5, <3>6
    <3> QED
      BY <2>2, <2>3, <3>1, <3>4, <3>7 DEF Stream!ReadLine, Position
  <2> QED
    BY <2>1, <2>5, <2>6 DEF IInv, TypeOK
<1>4. ASSUME NEW count \in 1 .. RIO_BUFSIZE, Refill(count)
      PROVE  Same
  <2>1. Unread = 0 /\ Unread' = count /\ fetched' = fetched + count
    BY <1>4, RioAssumption DEF IInv, TypeOK, Unread, Empty, Refill
  <2>2. fetched' - Unread' = fetched - Unread
    BY <2>1 DEF IInv, TypeOK
  <2> QED
    BY <1>4, <2>2 DEF Position, Refill
<1>5. ASSUME Interrupted
      PROVE  Same
  <2>1. Unread = 0 /\ Unread' = 0
    BY <1>5, RioAssumption DEF IInv, TypeOK, Unread, Empty, Interrupted
  <2> QED
    BY <1>5, <2>1 DEF Position, Interrupted, stream
<1>6. ASSUME ReadFails
      PROVE  \E m \in Counts : Stream!Fail(m)
  <2>1. /\ op # "none" /\ op' = "none" /\ reply' = Failed
        /\ UNCHANGED <<newlines, fetched>> /\ Unread = 0 /\ Unread' = 0
    BY <1>6, LeftBounds, RioAssumption
       DEF IInv, TypeOK, ReadFails, Empty, Return, stream, Unread
  <2>2. /\ Len(usrbuf) \in Nat /\ Position \in Nat
        /\ Position + Len(usrbuf) = fetched /\ fetched <= Length
    BY <2>1, PositionBounds, RioAssumption DEF IInv, TypeOK
  <2>3. Position' = Position + Len(usrbuf)
    BY <2>1, <2>2, RioAssumption DEF Position, IInv, TypeOK
  <2>4. n \in Counts /\ n \in Nat /\ Len(usrbuf) \in 0 .. n
    BY <2>1, <2>2, RioAssumption DEF IInv, TypeOK, CallInOrder
  <2> QED
    BY <2>1, <2>2, <2>3, <2>4 DEF Stream!Fail, Position
<1>7. ASSUME Copy
      PROVE  Same
  <2>1. TypeOK /\ op # "none" /\ rio_cnt \in 1 .. RIO_BUFSIZE /\ Left \in Nat \ {0}
    BY <1>7, LeftBounds, RioAssumption DEF IInv, TypeOK, Copy
  <2>2. Copied \in 1 .. rio_cnt
    BY <2>1 DEF Copied
  <2>3. Unread = rio_cnt /\ Unread' = rio_cnt - Copied
    BY <1>7, <2>1, <2>2 DEF Unread, Copy
  <2>4. Len(usrbuf') = Len(usrbuf) + Copied
    BY <1>7, CopyStep
  <2>5. UNCHANGED <<newlines, fetched, op, reply>>
    BY <1>7 DEF Copy, stream
  <2> QED
    BY <2>1, <2>2, <2>3, <2>4, <2>5, RioAssumption DEF Position, TypeOK
<1>8. CASE UNCHANGED vars
  BY <1>8, <1>1 DEF vars, Position, Unread
<1> HIDE DEF Same
<1>9. CASE Next
  BY <1>1, <1>2, <1>3, <1>4, <1>5, <1>6, <1>7, <1>9 DEF Next, Stream!Next
<1> QED
  BY <1>8, <1>9

(* Each byte reaches the callers once and in order, in whole pieces,       *)
(* however it arrives (csapp.c:481-566).                                   *)
THEOREM Refinement == Spec => ImplementsByteStream
<1>1. IInv /\ [Next]_vars => [Stream!Next]_(Stream!vars)
  BY StreamStep
<1> QED
  BY Invariance, StreamInit, <1>1, PTL DEF Spec, ImplementsByteStream, Stream!Spec
=============================================================================
