------------------------------ MODULE KernelProofs ------------------------------
(***************************************************************************)
(* The two calls that are made of several calls of the system.  sendfile,  *)
(* for every set of calls, every file length, buffer size and number of    *)
(* interruptions: the types, what *len says about the bytes sent, the      *)
(* order in which they were sent, and that cleanup puts the offset back.   *)
(* ppoll, for any signals, handlers, masks, timeouts and finite set of     *)
(* descriptors: what it promises about the mask, signals and the count.    *)
(***************************************************************************)
EXTENDS Sendfile, Ppoll, FiniteSetTheorems, SequenceTheorems, TLAPS

--------------------------------------------------------------------------------
(* Sendfile.                                                               *)

Before == {"call", "seek", "alloc", "headers"}

\* Nothing has been sent before the headers, and between two steps the bytes
\* on the wire are those counted in sbytes and those of the current buffer.
Counted ==
    /\ pc \in Before => wire = << >> /\ sbytes = 0
    /\ pc # "done" => Len(wire) = sbytes + total_sent
    /\ Len(buffer) <= BufferSize
    /\ pc = "write" => total_sent < Len(buffer)
    /\ pc \notin {"write", "done"} => total_sent = 0
    /\ pc # "done" => len = 0 /\ ret = 0

\* The offset is saved before it is moved.
Saved ==
    /\ pc \in {"call", "seek"} => fpos = StartOffset
    /\ pc \notin {"call", "done"} => orig_offset = StartOffset /\ call.offset \in Nat

IInv == TypeOK /\ Counted /\ Saved /\ BytesAccountedFor

\* The pieces of the stream have the lengths their names say.
LEMMA PieceLengths ==
    ASSUME NEW k \in Nat, NEW from \in Nat
    PROVE  /\ Headers(k) \in Seq(Byte) /\ Len(Headers(k)) = k
           /\ Trailers(k) \in Seq(Byte) /\ Len(Trailers(k)) = k
           /\ File(from, k) \in Seq(Byte) /\ Len(File(from, k)) = k
BY DEF Headers, Trailers, File, Byte

\* What one write takes of the buffer.
LEMMA SentLength ==
    ASSUME buffer \in Seq(Byte), total_sent \in Nat, NEW k \in 1..(Len(buffer) - total_sent)
    PROVE  Sent(k) \in Seq(Byte) /\ Len(Sent(k)) = k
<1>1. \A i \in 1..k : total_sent + i \in 1..Len(buffer)
  OBVIOUS
<1>2. \A i \in 1..k : buffer[total_sent + i] \in Byte
  BY <1>1
<1> QED
  BY <1>2 DEF Sent

\* The read never asks for more than the buffer holds.
LEMMA ToReadBound ==
    ASSUME TypeOK, MoreToSend
    PROVE  ToRead \in Nat \ {0} /\ ToRead <= BufferSize
<1>1. /\ call.nbytes \in Int /\ sent_headers_and_file \in Nat /\ file_pos \in Int
      /\ file_size \in Nat /\ BufferSize \in Nat \ {0}
  BY CallAssumption, SizeAssumption DEF TypeOK
<1>2. CASE call.nbytes = 0
  BY <1>1, <1>2 DEF ToRead, MoreToSend, Smaller
<1>3. CASE call.nbytes # 0
  BY <1>1, <1>3 DEF ToRead, MoreToSend, Smaller
<1> QED
  BY <1>2, <1>3

\* Streams put together.
LEMMA Joined ==
    ASSUME NEW a \in Seq(Byte), NEW b \in Seq(Byte)
    PROVE  a \o b \in Seq(Byte) /\ Len(a \o b) = Len(a) + Len(b)
OBVIOUS

\* The empty stream.
LEMMA Empty == << >> \in Seq(Byte) /\ Len(<< >>) = 0
OBVIOUS

\* The invariant holds at the start of a call.
LEMMA InitHolds == Init => IInv
BY CallAssumption, SizeAssumption, Empty
   DEF Init, IInv, TypeOK, Counted, Saved, BytesAccountedFor, Before, StartOffset

\* Every step keeps the invariant.
LEMMA StepHolds == IInv /\ [Next]_vars => IInv'
<1> SUFFICES ASSUME IInv, [Next]_vars PROVE IInv'
  OBVIOUS
<1> USE DEF locals, IInv, Return, Cleanup, StartOffset
<1>0. /\ call \in [offset : Int, nbytes : Int, headers : Nat, trailers : Nat]
      /\ FileSizes \subseteq Nat /\ BufferSize \in Nat \ {0} /\ MaxSignals \in Nat
      /\ wire \in Seq(Byte) /\ buffer \in Seq(Byte) /\ Len(buffer) \in Nat /\ Len(wire) \in Nat
      /\ total_sent \in Nat /\ sbytes \in Nat
  BY CallAssumption, SizeAssumption DEF TypeOK
<1>1. CASE Refuse
  BY <1>0, <1>1, Empty DEF Refuse, TypeOK, Counted, Saved, BytesAccountedFor, Before
<1>2. CASE FromEnd
  BY <1>0, <1>2, Empty DEF FromEnd, TypeOK, Counted, Saved, BytesAccountedFor, Before
<1>3. CASE SaveOffset
  BY <1>0, <1>3, Empty DEF SaveOffset, TypeOK, Counted, Saved, BytesAccountedFor, Before
<1>4. CASE SeekToOffset
  BY <1>0, <1>4, Empty DEF SeekToOffset, TypeOK, Counted, Saved, BytesAccountedFor, Before
<1>5. CASE AllocateBuffer
  BY <1>0, <1>5, Empty DEF AllocateBuffer, TypeOK, Counted, Saved, BytesAccountedFor, Before
<1>6. CASE SendHeaders
  <2>0. pc = "headers" /\ UNCHANGED <<call, size, orig_offset, file_size, buffer, total_sent, file_pos, signals>>
    BY <1>6 DEF SendHeaders
  <2>1. CASE \/ /\ call.headers = 0 /\ pc' = "read"
                /\ UNCHANGED <<fpos, ret, len, sbytes, sent_headers_and_file, wire>>
             \/ Cleanup(-1, sbytes) /\ UNCHANGED <<sbytes, sent_headers_and_file, wire>>
    <3>1. TypeOK'
      BY <1>0, <2>0, <2>1 DEF TypeOK
    <3>2. Counted'
      BY <1>0, <2>0, <2>1 DEF TypeOK, Counted, Before
    <3>3. Saved'
      BY <1>0, <2>0, <2>1 DEF TypeOK, Saved, Before
    <3>4. BytesAccountedFor'
      BY <1>0, <2>0, <2>1 DEF TypeOK, BytesAccountedFor, Counted
    <3> QED
      BY <3>1, <3>2, <3>3, <3>4
  <2>2. ASSUME NEW k \in 1..call.headers,
               wire' = wire \o Headers(k), sbytes' = sbytes + k,
               sent_headers_and_file' = sent_headers_and_file + k,
               pc' \in {"trailers", "read"}, UNCHANGED <<fpos, ret, len>>
        PROVE  IInv'
    <3>1. k \in Nat /\ Headers(k) \in Seq(Byte) /\ Len(Headers(k)) = k
      BY <1>0, <2>2, PieceLengths
    <3>2. wire' \in Seq(Byte) /\ Len(wire') = Len(wire) + k
      BY <1>0, <2>2, <3>1, Joined
    <3>3. TypeOK'
      BY <1>0, <2>0, <2>2, <3>1, <3>2 DEF TypeOK
    <3>4. Counted'
      BY <1>0, <2>0, <2>2, <3>1, <3>2 DEF TypeOK, Counted, Before
    <3>5. Saved'
      BY <1>0, <2>0, <2>2, <3>1, <3>2 DEF TypeOK, Saved, Before
    <3>6. BytesAccountedFor'
      BY <1>0, <2>0, <2>2, <3>1, <3>2 DEF TypeOK, BytesAccountedFor, Counted
    <3> QED
      BY <3>3, <3>4, <3>5, <3>6
  <2> QED
    BY <1>6, <2>1, <2>2 DEF SendHeaders
<1>7. CASE NoMoreData
  BY <1>0, <1>7 DEF NoMoreData, TypeOK, Counted, Saved, BytesAccountedFor, Before
<1>8. CASE ReadFile
  <2>1. CASE \/ /\ pc' = "trailers"
                /\ UNCHANGED <<buffer, total_sent, fpos, len, ret>>
             \/ Cleanup(-1, sbytes) /\ UNCHANGED <<buffer, total_sent>>
    BY <1>0, <1>8, <2>1, SMTT(20), ZenonT(20) DEF ReadFile, TypeOK, Counted, Saved, BytesAccountedFor, Before
  <2>2. ASSUME NEW k \in 1..ToRead,
               buffer' = File(fpos, k), total_sent' = 0, fpos' = fpos + k,
               pc' = "write", UNCHANGED <<len, ret>>
        PROVE  IInv'
    <3>1. ToRead \in Nat /\ ToRead <= BufferSize
      BY <1>8, ToReadBound DEF ReadFile
    <3>2. k \in Nat \ {0} /\ k <= BufferSize /\ fpos \in Nat
      BY <1>0, <2>2, <3>1 DEF TypeOK
    <3>3. buffer' \in Seq(Byte) /\ Len(buffer') = k
      BY <2>2, <3>2, PieceLengths
    <3> QED
      BY <1>0, <1>8, <2>2, <3>2, <3>3 DEF ReadFile, TypeOK, Counted, Saved, BytesAccountedFor, Before
  <2> QED
    BY <1>8, <2>1, <2>2 DEF ReadFile
<1>9. CASE WriteSocket
  <2>1. PICK k \in 1..(Len(buffer) - total_sent) :
          /\ wire' = wire \o Sent(k)
          /\ IF total_sent + k < Len(buffer)
             THEN /\ total_sent' = total_sent + k
                  /\ UNCHANGED <<pc, buffer, sbytes, sent_headers_and_file, file_pos>>
             ELSE /\ buffer' = << >> /\ total_sent' = 0
                  /\ sbytes' = sbytes + Len(buffer)
                  /\ sent_headers_and_file' = sent_headers_and_file + Len(buffer)
                  /\ file_pos' = file_pos + Len(buffer)
                  /\ pc' = "read"
    BY <1>9 DEF WriteSocket
  <2>2. k \in Nat /\ k <= Len(buffer) - total_sent
    BY <1>0
  <2>3. Sent(k) \in Seq(Byte) /\ Len(Sent(k)) = k
    BY <1>0, SentLength
  <2>4. wire' \in Seq(Byte) /\ Len(wire') = Len(wire) + k
    BY <1>0, <2>1, <2>2, <2>3, Joined
  <2>0. /\ pc = "write"
        /\ UNCHANGED <<call, size, fpos, orig_offset, file_size, len, ret, signals>>
    BY <1>9 DEF WriteSocket
  <2>5. CASE total_sent + k < Len(buffer)
    <3>1. TypeOK'
      BY <1>0, <2>0, <2>1, <2>2, <2>4, <2>5 DEF TypeOK
    <3>7. Len(wire) = sbytes + total_sent
      BY <2>0 DEF Counted
    <3>8. total_sent' = total_sent + k /\ sbytes' = sbytes
      BY <2>1, <2>5
    <3>5. Len(wire') = sbytes' + total_sent'
      BY <1>0, <2>2, <2>4, <3>7, <3>8
    <3>6. UNCHANGED <<pc, buffer, len, ret>> /\ total_sent' < Len(buffer')
      BY <2>0, <2>1, <2>5
    <3>2. Counted'
      BY <2>0, <3>5, <3>6 DEF Counted, Before
    <3>3. Saved'
      BY <1>0, <2>0, <2>1, <2>2, <2>4, <2>5 DEF TypeOK, Saved, Before
    <3>4. BytesAccountedFor'
      BY <1>0, <2>0, <2>1, <2>2, <2>4, <2>5 DEF TypeOK, BytesAccountedFor, Counted
    <3> QED
      BY <3>1, <3>2, <3>3, <3>4
  <2>6. CASE ~(total_sent + k < Len(buffer))
    <3>1. TypeOK'
      BY <1>0, <2>0, <2>1, <2>2, <2>4, <2>6, Empty DEF TypeOK
    <3>2. Len(wire) = sbytes + total_sent
      BY <2>0 DEF Counted
    <3>3. total_sent + k = Len(buffer)
      BY <1>0, <2>2, <2>6
    <3>4. Len(wire') = sbytes + Len(buffer)
      BY <1>0, <2>2, <2>4, <3>2, <3>3, SMTT(20), ZenonT(20)
    <3>5. buffer' = << >>
      BY <2>1, <2>6
    <3>6. Len(wire') = sbytes + Len(buffer) /\ Len(buffer') = 0
      BY <3>4, <3>5, Empty, Zenon
    <3>7. sbytes' = sbytes + Len(buffer) /\ total_sent' = 0 /\ pc' = "read"
      BY <2>1, <2>6
    <3>8. Counted'
      BY <1>0, <2>0, <3>6, <3>7 DEF Counted, Before
    <3>9. Saved'
      BY <1>0, <2>0, <2>1, <2>2, <2>4, <2>6, Empty DEF TypeOK, Saved, Before
    <3>10. BytesAccountedFor'
      BY <1>0, <2>0, <2>1, <2>2, <2>4, <2>6, Empty DEF TypeOK, BytesAccountedFor, Counted
    <3> QED
      BY <3>1, <3>8, <3>9, <3>10
  <2> QED
    BY <2>5, <2>6
<1>10. CASE WouldBlock
  BY <1>0, <1>10 DEF WouldBlock, TypeOK, Counted, Saved, BytesAccountedFor, Before
<1>11. CASE WriteError
  BY <1>0, <1>11 DEF WriteError, TypeOK, Counted, Saved, BytesAccountedFor, Before
<1>12. CASE SendTrailers
  <2>0. /\ pc = "trailers"
        /\ UNCHANGED <<call, size, orig_offset, file_size, buffer, total_sent,
                       sent_headers_and_file, file_pos, signals>>
    BY <1>12 DEF SendTrailers
  <2>1. CASE \/ Return(0, sbytes) /\ UNCHANGED <<fpos, sbytes, wire>>
             \/ Cleanup(-1, sbytes) /\ UNCHANGED <<sbytes, wire>>
    <3>1. TypeOK'
      BY <1>0, <2>0, <2>1 DEF TypeOK
    <3>2. Counted'
      BY <1>0, <2>0, <2>1 DEF TypeOK, Counted, Before
    <3>3. Saved'
      BY <1>0, <2>0, <2>1 DEF TypeOK, Saved, Before
    <3>4. BytesAccountedFor'
      BY <1>0, <2>0, <2>1 DEF TypeOK, BytesAccountedFor, Counted
    <3> QED
      BY <3>1, <3>2, <3>3, <3>4
  <2>2. ASSUME NEW k \in 1..call.trailers,
               wire' = wire \o Trailers(k), sbytes' = sbytes + k,
               Return(0, sbytes + k), UNCHANGED fpos
        PROVE  IInv'
    <3>1. k \in Nat /\ Trailers(k) \in Seq(Byte) /\ Len(Trailers(k)) = k
      BY <1>0, <2>2, PieceLengths
    <3>2. wire' \in Seq(Byte) /\ Len(wire') = Len(wire) + k
      BY <1>0, <2>2, <3>1, Joined
    <3>3. TypeOK'
      BY <1>0, <2>0, <2>2, <3>1, <3>2 DEF TypeOK
    <3>4. Counted'
      BY <1>0, <2>0, <2>2, <3>1, <3>2 DEF TypeOK, Counted, Before
    <3>5. Saved'
      BY <1>0, <2>0, <2>2, <3>1, <3>2 DEF TypeOK, Saved, Before
    <3>6. Len(wire) = sbytes
      BY <1>0, <2>0 DEF Counted
    <3>7. BytesAccountedFor'
      BY <1>0, <2>2, <3>1, <3>2, <3>6 DEF BytesAccountedFor
    <3> QED
      BY <3>3, <3>4, <3>5, <3>7
  <2> QED
    BY <1>12, <2>1, <2>2 DEF SendTrailers
<1>13. CASE Interrupted
  BY <1>0, <1>13 DEF Interrupted, TypeOK, Counted, Saved, BytesAccountedFor, Before
<1>14. CASE Resize
  BY <1>0, <1>14 DEF Resize, TypeOK, Counted, Saved, BytesAccountedFor, Before
<1>15. CASE UNCHANGED vars
  BY <1>0, <1>15 DEF vars, TypeOK, Counted, Saved, BytesAccountedFor, Before
<1> QED
  BY <1>1, <1>2, <1>3, <1>4, <1>5, <1>6, <1>7, <1>8, <1>9, <1>10, <1>11, <1>12,
     <1>13, <1>14, <1>15 DEF Next, Progress

\* Every variable of a call in progress is what its comment says.
THEOREM TypeCorrect == Spec => []TypeOK
<1>1. IInv => TypeOK
  BY DEF IInv
<1> QED
  BY InitHolds, StepHolds, <1>1, PTL DEF Spec

\* *len reports every byte after a success, and none too many and less than a
\* buffer too few after a failure (lines 153-156, 199-240, 247).
THEOREM BytesCorrect == Spec => []BytesAccountedFor
<1>1. IInv => BytesAccountedFor
  BY DEF IInv
<1> QED
  BY InitHolds, StepHolds, <1>1, PTL DEF Spec

\* Whoever leaves through cleanup has put the file offset back (lines 253-256).
THEOREM CleanupCorrect == Spec => CleanupRestoresOffset
<1>1. IInv /\ [Next]_vars => [ThroughCleanup => fpos' = StartOffset]_vars
  <2> SUFFICES ASSUME IInv, Next, ThroughCleanup
               PROVE  fpos' = StartOffset
    OBVIOUS
  <2>1. orig_offset = StartOffset /\ StartOffset # -1
    BY DEF IInv, Saved, StartOffset, ThroughCleanup
  <2> QED
    BY <2>1 DEF ThroughCleanup, Next, Progress, Refuse, FromEnd, SaveOffset, SeekToOffset,
       AllocateBuffer, SendHeaders, NoMoreData, ReadFile, WriteSocket, WouldBlock, WriteError,
       SendTrailers, Interrupted, Resize, Return, Cleanup
<1> QED
  BY InitHolds, StepHolds, <1>1, PTL DEF Spec, CleanupRestoresOffset

--------------------------------------------------------------------------------
(* The order of the bytes.                                                 *)

Sending == {"read", "write", "trailers"}

\* With h bytes of the headers sent: the kernel's offset stands behind the
\* buffer, the buffer holds what follows the bytes of the file that are counted,
\* and the wire ends with the part of it that is sent.
Placed(h) ==
    LET from == call.offset + (sent_headers_and_file - h) IN
    /\ h <= sent_headers_and_file
    /\ fpos = from + Len(buffer)
    /\ buffer = File(from, Len(buffer))
    /\ wire = Headers(h) \o File(call.offset, (sent_headers_and_file - h) + total_sent)
    /\ pc # "write" => buffer = << >>
    /\ call.nbytes > 0 => \/ sent_headers_and_file + Len(buffer) <= call.nbytes
                          \/ sent_headers_and_file = h /\ buffer = << >>

InPlace ==
    /\ pc \in Before => wire = << >> /\ sent_headers_and_file = 0 /\ buffer = << >>
    /\ pc \in {"alloc", "headers"} => fpos = call.offset
    /\ pc \in Sending => \E h \in 0..call.headers : Placed(h)

OrderInv == IInv /\ InPlace /\ StreamInOrder

\* Three pieces may be joined in either order.
LEMMA Regrouped ==
    ASSUME NEW a \in Seq(Byte), NEW b \in Seq(Byte), NEW c \in Seq(Byte)
    PROVE  (a \o b) \o c = a \o (b \o c)
BY ConcatAssociative

\* Two adjoining parts of the file are one part.
LEMMA FileJoined ==
    ASSUME NEW from \in Nat, NEW m \in Nat, NEW k \in Nat
    PROVE  File(from, m) \o File(from + m, k) = File(from, m + k)
<1>1. /\ File(from, m) \in Seq(Byte) /\ Len(File(from, m)) = m
      /\ File(from + m, k) \in Seq(Byte) /\ Len(File(from + m, k)) = k
      /\ File(from, m + k) \in Seq(Byte) /\ Len(File(from, m + k)) = m + k
  BY PieceLengths
<1> DEFINE joined == File(from, m) \o File(from + m, k)
<1>2. joined \in Seq(Byte) /\ Len(joined) = m + k
  BY <1>1
<1>3. ASSUME NEW i \in 1..(m + k) PROVE joined[i] = File(from, m + k)[i]
  <2>0. i \in Nat
    BY <1>1
  <2>1. CASE i <= m
    BY <1>1, <2>0, <2>1 DEF File
  <2>2. CASE i > m
    BY <1>1, <2>0, <2>2 DEF File
  <2>3. i <= m \/ i > m
    BY <2>0
  <2> QED
    BY <2>1, <2>2, <2>3, Zenon
<1> QED
  BY <1>1, <1>2, <1>3, SeqEqual

\* One write takes the next part of the file out of the buffer.
LEMMA SentIsFile ==
    ASSUME NEW from \in Nat, buffer \in Seq(Byte), buffer = File(from, Len(buffer)),
           total_sent \in Nat, NEW k \in 1..(Len(buffer) - total_sent)
    PROVE  Sent(k) = File(from + total_sent, k)
<1>1. k \in Nat /\ Len(buffer) \in Nat
  OBVIOUS
<1>2. ASSUME NEW i \in 1..k
      PROVE  buffer[total_sent + i] = <<"file", (from + total_sent) + i - 1>>
  <2>1. total_sent + i \in 1..Len(buffer)
    BY <1>1
  <2>2. File(from, Len(buffer))[total_sent + i] = <<"file", from + (total_sent + i) - 1>>
    BY <2>1 DEF File
  <2>3. from + (total_sent + i) - 1 = (from + total_sent) + i - 1
    BY <1>1
  <2> QED
    BY <2>2, <2>3
<1> QED
  BY <1>2 DEF Sent, File

\* A stream that is placed is in order, and stays so with trailers behind it.
LEMMA PlacedIsInOrder ==
    ASSUME NEW h \in Nat, call.offset \in Nat, call.nbytes \in Int,
           sent_headers_and_file \in Nat, total_sent \in Nat, buffer \in Seq(Byte),
           total_sent <= Len(buffer), Placed(h), NEW t \in Nat
    PROVE  LET f == (sent_headers_and_file - h) + total_sent IN
           /\ f \in Nat /\ f <= Len(wire)
           /\ wire \o Trailers(t) = Stream(h, f, t)
           /\ call.nbytes > 0 => h + f <= call.nbytes \/ f = 0
<1> DEFINE f == (sent_headers_and_file - h) + total_sent
<1>1. f \in Nat
  BY DEF Placed
<1>2. /\ Headers(h) \in Seq(Byte) /\ Len(Headers(h)) = h
      /\ File(call.offset, f) \in Seq(Byte) /\ Len(File(call.offset, f)) = f
  BY <1>1, PieceLengths
<1>3. wire = Headers(h) \o File(call.offset, f)
  BY DEF Placed
<1>4. f <= Len(wire)
  <2>1. Len(wire) = h + f
    BY <1>2, <1>3, Joined
  <2> QED
    BY <1>1, <2>1
<1>5. wire \o Trailers(t) = Stream(h, f, t)
  BY <1>3 DEF Stream
<1>6. ASSUME call.nbytes > 0 PROVE h + f <= call.nbytes \/ f = 0
  <2>1. CASE sent_headers_and_file + Len(buffer) <= call.nbytes
    BY <2>1 DEF Placed
  <2>2. CASE sent_headers_and_file = h /\ buffer = << >>
    BY <2>2
  <2> QED
    BY <1>6, <2>1, <2>2 DEF Placed
<1> QED
  BY <1>1, <1>4, <1>5, <1>6

\* The wire of a call that is sending is in order.
LEMMA SendingInOrder == TypeOK /\ Saved /\ pc \in Sending /\ InPlace => StreamInOrder
<1> SUFFICES ASSUME TypeOK, Saved, pc \in Sending, InPlace
             PROVE  StreamInOrder
  OBVIOUS
<1>1. PICK h \in 0..call.headers : Placed(h)
  BY DEF InPlace
<1>2. /\ call.offset \in Nat /\ call.nbytes \in Int /\ call.headers \in Nat /\ call.trailers \in Nat
      /\ sent_headers_and_file \in Nat /\ total_sent \in Nat /\ buffer \in Seq(Byte)
      /\ total_sent <= Len(buffer) /\ h \in Nat /\ wire \in Seq(Byte)
  BY CallAssumption DEF TypeOK, Saved, Sending
<1> DEFINE f == (sent_headers_and_file - h) + total_sent
<1>3. /\ f \in Nat /\ f <= Len(wire)
      /\ wire \o Trailers(0) = Stream(h, f, 0)
      /\ call.nbytes > 0 => h + f <= call.nbytes \/ f = 0
  BY <1>1, <1>2, PlacedIsInOrder
<1>4. Trailers(0) = << >>
  BY DEF Trailers
<1>5. wire \o << >> = wire
  BY <1>2, ConcatEmptySeq
<1>6. f \in 0..Len(wire) /\ 0 \in 0..call.trailers
  BY <1>2, <1>3
<1> QED
  BY <1>3, <1>4, <1>5, <1>6 DEF StreamInOrder

\* A wire that is not written to, or is empty, is in order.
LEMMA KeptInOrder ==
    ASSUME StreamInOrder, UNCHANGED <<wire, call>>
    PROVE  StreamInOrder'
BY DEF StreamInOrder, Stream

LEMMA EmptyInOrder ==
    ASSUME TypeOK, wire = << >>
    PROVE  StreamInOrder
<1>1. call.headers \in Nat /\ call.trailers \in Nat
  BY CallAssumption DEF TypeOK
<1>2. Headers(0) = << >> /\ Trailers(0) = << >> /\ File(call.offset, 0) = << >>
  BY DEF Headers, Trailers, File
<1>3. wire = Stream(0, 0, 0)
  BY <1>2 DEF Stream
<1> QED
  BY <1>1, <1>3 DEF StreamInOrder

\* A step that leaves the bytes, the counters and the file's offset alone keeps
\* them in place.
LEMMA KeptPlaced ==
    ASSUME NEW h, Placed(h), pc' # "write" => pc # "write" \/ buffer = << >>,
           UNCHANGED <<call, fpos, buffer, total_sent, sent_headers_and_file, wire>>
    PROVE  Placed(h)'
BY DEF Placed

\* Headers that are sent are the whole of the wire.
LEMMA HeadersPlaced ==
    ASSUME OrderInv, SendHeaders, pc' # "done"
    PROVE  \E h \in 0..call.headers : Placed(h)'
<1>1. /\ wire = << >> /\ sent_headers_and_file = 0 /\ buffer = << >> /\ total_sent = 0
      /\ fpos = call.offset /\ call.offset \in Nat /\ call.headers \in Nat
  BY CallAssumption DEF OrderInv, IInv, InPlace, TypeOK, Counted, Saved, SendHeaders, Before
<1>2. /\ UNCHANGED <<call, fpos, buffer, total_sent>> /\ pc' # "write"
  BY DEF SendHeaders, Cleanup, Return
<1>3. File(call.offset, 0) = << >> /\ Headers(0) = << >>
  BY DEF File, Headers
<1>4. CASE UNCHANGED <<sent_headers_and_file, wire>>
  <2>1. Placed(0)'
    BY <1>1, <1>2, <1>3, <1>4 DEF Placed
  <2> QED
    BY <1>1, <2>1
<1>5. CASE \E k \in 1..call.headers : /\ wire' = wire \o Headers(k)
                                     /\ sent_headers_and_file' = sent_headers_and_file + k
  <2>1. PICK k \in 1..call.headers : /\ wire' = wire \o Headers(k)
                                     /\ sent_headers_and_file' = sent_headers_and_file + k
    BY <1>5
  <2>2. k \in Nat /\ k \in 0..call.headers
    BY <1>1
  <2>3. Headers(k) \in Seq(Byte)
    BY <2>2, <1>1, PieceLengths
  <2>4. wire' = Headers(k) \o File(call.offset, 0)
    BY <1>1, <1>3, <2>1, <2>3
  <2>5. sent_headers_and_file' = k /\ sent_headers_and_file' - k = 0
    BY <1>1, <2>1, <2>2
  <2>6. Placed(k)'
    BY <1>1, <1>2, <1>3, <2>2, <2>4, <2>5 DEF Placed
  <2> QED
    BY <2>2, <2>6
<1> QED
  BY <1>4, <1>5 DEF SendHeaders, Cleanup, Return

\* What is read follows what has been sent, and does not go beyond the limit.
LEMMA ReadPlaced ==
    ASSUME OrderInv, ReadFile, pc' # "done", NEW h \in 0..call.headers, Placed(h)
    PROVE  Placed(h)'
<1>1. /\ call.nbytes \in Int /\ sent_headers_and_file \in Nat /\ file_pos \in Int
      /\ call.offset \in Nat /\ h \in Nat /\ total_sent = 0 /\ buffer = << >>
      /\ h <= sent_headers_and_file /\ fpos = call.offset + (sent_headers_and_file - h)
  BY CallAssumption DEF OrderInv, IInv, TypeOK, Counted, Saved, ReadFile, Placed
<1>2. UNCHANGED <<call, sent_headers_and_file, wire>>
  BY DEF ReadFile
<1>3. CASE pc' = "trailers"
  <2>1. UNCHANGED <<fpos, buffer, total_sent>>
    BY <1>3 DEF ReadFile, Cleanup, Return
  <2> QED
    BY <1>1, <1>2, <2>1, KeptPlaced
<1>4. CASE pc' = "write"
  <2>1. PICK k \in 1..ToRead : /\ buffer' = File(fpos, k) /\ total_sent' = 0
                              /\ fpos' = fpos + k
    BY <1>4 DEF ReadFile, Cleanup, Return
  <2>2. MoreToSend /\ ToRead \in Nat
    BY ToReadBound DEF ReadFile, OrderInv, IInv
  <2>3. k \in Nat /\ fpos \in Nat
    BY <2>2 DEF OrderInv, IInv, TypeOK
  <2>4. Len(buffer') = k
    BY <2>1, <2>3, PieceLengths
  <2>5. call.nbytes > 0 => sent_headers_and_file + k <= call.nbytes
    <3>1. call.nbytes > 0 => ToRead <= call.nbytes - sent_headers_and_file
      <4>1. file_size \in Nat /\ BufferSize \in Nat
        BY SizeAssumption DEF OrderInv, IInv, TypeOK
      <4> QED
        BY <1>1, <2>2, <4>1 DEF ToRead, Smaller, MoreToSend
    <3> QED
      BY <1>1, <2>2, <2>3, <3>1
  <2> QED
    BY <1>1, <1>2, <1>4, <2>1, <2>3, <2>4, <2>5 DEF Placed
<1> QED
  BY <1>3, <1>4 DEF ReadFile, Cleanup, Return

\* A write puts the next part of the file on the wire.
LEMMA WritePlaced ==
    ASSUME OrderInv, WriteSocket, NEW h \in 0..call.headers, Placed(h)
    PROVE  Placed(h)'
<1> DEFINE from == call.offset + (sent_headers_and_file - h)
<1> DEFINE done == sent_headers_and_file - h
<1>0. /\ sent_headers_and_file \in Nat /\ call.offset \in Nat /\ call.headers \in Nat
      /\ total_sent \in Nat /\ buffer \in Seq(Byte) /\ Len(buffer) \in Nat
      /\ total_sent < Len(buffer) /\ call.nbytes \in Int
  BY CallAssumption, SMTT(20), ZenonT(20) DEF OrderInv, IInv, TypeOK, Counted, Saved, WriteSocket
<1>1. h \in Nat /\ h <= sent_headers_and_file /\ from \in Nat /\ done \in Nat
  BY <1>0 DEF Placed
<1>2. /\ fpos = from + Len(buffer) /\ buffer = File(from, Len(buffer))
      /\ wire = Headers(h) \o File(call.offset, done + total_sent)
      /\ call.nbytes > 0 => sent_headers_and_file + Len(buffer) <= call.nbytes
  BY <1>0, <1>1 DEF Placed
<1>3. PICK k \in 1..(Len(buffer) - total_sent) :
          /\ wire' = wire \o Sent(k)
          /\ IF total_sent + k < Len(buffer)
             THEN /\ total_sent' = total_sent + k
                  /\ UNCHANGED <<pc, buffer, sent_headers_and_file>>
             ELSE /\ buffer' = << >> /\ total_sent' = 0
                  /\ sent_headers_and_file' = sent_headers_and_file + Len(buffer)
                  /\ pc' = "read"
  BY DEF WriteSocket
<1>4. k \in Nat /\ total_sent + k <= Len(buffer) /\ UNCHANGED <<call, fpos>>
  BY <1>0, <1>1 DEF WriteSocket
<1>5. wire' = Headers(h) \o File(call.offset, (done + total_sent) + k)
  <2>1. Sent(k) = File(from + total_sent, k)
    BY <1>0, <1>1, <1>2, SentIsFile
  <2>2. from + total_sent = call.offset + (done + total_sent) /\ done + total_sent \in Nat
      /\ call.offset + (done + total_sent) \in Nat
    BY <1>0, <1>1
  <2> DEFINE sent == done + total_sent
  <2>3. /\ Headers(h) \in Seq(Byte) /\ File(call.offset, sent) \in Seq(Byte)
        /\ File(call.offset + sent, k) \in Seq(Byte)
    BY <1>0, <1>1, <1>4, <2>2, PieceLengths
  <2>4. wire' = (Headers(h) \o File(call.offset, sent)) \o File(call.offset + sent, k)
    BY <1>2, <1>3, <2>1, <2>2
  <2>5. sent \in Nat
    BY <2>2
  <2> HIDE DEF sent
  <2>6. wire' = Headers(h) \o (File(call.offset, sent) \o File(call.offset + sent, k))
    BY <2>3, <2>4, Regrouped
  <2>7. File(call.offset, sent) \o File(call.offset + sent, k) = File(call.offset, sent + k)
    BY <1>0, <1>4, <2>5, FileJoined
  <2> QED
    BY <2>6, <2>7 DEF sent
<1>6. CASE total_sent + k < Len(buffer)
  <2>1. (done + total_sent) + k = done + (total_sent + k)
    BY <1>0, <1>1, <1>4
  <2>2. pc' = "write"
    BY <1>3, <1>6 DEF WriteSocket
  <2> QED
    BY <1>0, <1>1, <1>2, <1>3, <1>4, <1>5, <1>6, <2>1, <2>2 DEF Placed
<1>7. CASE ~(total_sent + k < Len(buffer))
  <2>1. k = Len(buffer) - total_sent
    BY <1>0, <1>1, <1>4, <1>7
  <2>2. /\ buffer' = << >> /\ total_sent' = 0 /\ Len(buffer') = 0
        /\ sent_headers_and_file' = sent_headers_and_file + Len(buffer)
    BY <1>3, <1>7
  <2>3. (done + total_sent) + k = (sent_headers_and_file' - h) + total_sent'
    BY <1>0, <1>1, <2>1, <2>2
  <2>4. h <= sent_headers_and_file'
    BY <1>0, <1>1, <2>2
  <2>5. fpos' = (call.offset + (sent_headers_and_file' - h)) + 0
    BY <1>0, <1>1, <1>2, <1>4, <2>2, SMTT(20), ZenonT(20)
  <2>6. buffer' = File(call.offset + (sent_headers_and_file' - h), 0)
    BY <2>2 DEF File
  <2>7. call.nbytes > 0 => sent_headers_and_file' + 0 <= call.nbytes
    BY <1>0, <1>1, <1>2, <2>2
  <2> QED
    BY <1>4, <1>5, <2>2, <2>3, <2>4, <2>5, <2>6, <2>7 DEF Placed
<1> QED
  BY <1>6, <1>7

\* Every step keeps the bytes in their places.
LEMMA PlaceHolds ==
    ASSUME OrderInv, [Next]_vars
    PROVE  InPlace'
<1>1. CASE UNCHANGED vars
  BY <1>1 DEF OrderInv, InPlace, Placed, vars, locals
<1>2. CASE Refuse \/ FromEnd
  BY <1>2 DEF Refuse, FromEnd, Return, InPlace, Before, Sending
<1>3. CASE SaveOffset
  BY <1>3 DEF SaveOffset, Return, OrderInv, InPlace, Before, Sending
<1>4. CASE SeekToOffset
  BY <1>4 DEF SeekToOffset, Return, locals, OrderInv, InPlace, Before, Sending
<1>5. CASE AllocateBuffer
  BY <1>5 DEF AllocateBuffer, Cleanup, Return, locals, OrderInv, InPlace, Before, Sending
<1>6. CASE SendHeaders
  <2>1. pc' \in {"read", "trailers", "done"}
    BY <1>6 DEF SendHeaders, Cleanup, Return
  <2>2. pc' # "done" => \E h \in 0..call.headers : Placed(h)'
    BY <1>6, HeadersPlaced
  <2>3. call' = call
    BY <1>6 DEF SendHeaders
  <2> QED
    BY <2>1, <2>2, <2>3 DEF InPlace, Before, Sending
<1>7. CASE NoMoreData
  <2>1. PICK h \in 0..call.headers : Placed(h)
    BY <1>7 DEF NoMoreData, OrderInv, InPlace, Sending
  <2>2. Placed(h)'
    BY <1>7, <2>1, KeptPlaced DEF NoMoreData, locals
  <2> QED
    BY <1>7, <2>2 DEF NoMoreData, InPlace, Before, Sending
<1>8. CASE ReadFile
  <2>1. PICK h \in 0..call.headers : Placed(h)
    BY <1>8 DEF ReadFile, OrderInv, InPlace, Sending
  <2>2. pc' # "done" => Placed(h)'
    BY <1>8, <2>1, ReadPlaced
  <2>3. pc' \in {"write", "trailers", "done"} /\ call' = call
    BY <1>8 DEF ReadFile, Cleanup, Return
  <2> QED
    BY <2>2, <2>3 DEF InPlace, Before, Sending
<1>9. CASE WriteSocket
  <2>1. PICK h \in 0..call.headers : Placed(h)
    BY <1>9 DEF WriteSocket, OrderInv, InPlace, Sending
  <2>2. Placed(h)'
    BY <1>9, <2>1, WritePlaced
  <2>3. pc' \in {"write", "read"} /\ call' = call
    BY <1>9 DEF WriteSocket
  <2> QED
    BY <2>2, <2>3 DEF InPlace, Before, Sending
<1>10. CASE WouldBlock \/ WriteError
  BY <1>10 DEF WouldBlock, WriteError, Cleanup, Return, InPlace, Before, Sending
<1>11. CASE SendTrailers
  BY <1>11 DEF SendTrailers, Cleanup, Return, InPlace, Before, Sending
<1>12. CASE Interrupted
  BY <1>12 DEF Interrupted, locals, OrderInv, InPlace, Placed
<1>13. CASE Resize
  BY <1>13 DEF Resize, locals, OrderInv, InPlace, Placed
<1> QED
  BY <1>1, <1>2, <1>3, <1>4, <1>5, <1>6, <1>7, <1>8, <1>9, <1>10, <1>11, <1>12, <1>13
     DEF Next, Progress

\* Every step keeps the stream in order.
LEMMA OrderHolds ==
    ASSUME OrderInv, [Next]_vars, IInv', InPlace'
    PROVE  StreamInOrder'
<1>1. CASE UNCHANGED <<wire, call>>
  BY <1>1, KeptInOrder DEF OrderInv
<1>2. CASE pc' \in Sending
  <2>1. (TypeOK /\ Saved /\ pc \in Sending /\ InPlace)'
    BY <1>2 DEF IInv, Sending
  <2> QED
    BY <2>1, SendingInOrder, PTL
<1>3. CASE SendTrailers
  <2>1. PICK h \in 0..call.headers : Placed(h)
    BY <1>3 DEF SendTrailers, OrderInv, InPlace, Sending
  <2>2. /\ call.offset \in Nat /\ call.nbytes \in Int /\ call.headers \in Nat
        /\ call.trailers \in Nat /\ h \in Nat /\ sent_headers_and_file \in Nat
        /\ total_sent \in Nat /\ buffer \in Seq(Byte) /\ total_sent <= Len(buffer)
        /\ wire \in Seq(Byte)
    BY <1>3, CallAssumption DEF OrderInv, IInv, TypeOK, Saved, SendTrailers
  <2>3. CASE wire' = wire
    BY <1>1, <1>3, <2>3 DEF SendTrailers
  <2>4. CASE \E t \in 1..call.trailers : wire' = wire \o Trailers(t)
    <3>1. PICK t \in 1..call.trailers : wire' = wire \o Trailers(t)
      BY <2>4
    <3>2. t \in Nat /\ t \in 0..call.trailers
      BY <2>2
    <3> DEFINE f == (sent_headers_and_file - h) + total_sent
    <3>3. /\ f \in Nat /\ f <= Len(wire)
          /\ wire \o Trailers(t) = Stream(h, f, t)
          /\ call.nbytes > 0 => h + f <= call.nbytes \/ f = 0
      BY <2>1, <2>2, <3>2, PlacedIsInOrder
    <3>4. f \in 0..Len(wire')
      <4>1. Trailers(t) \in Seq(Byte) /\ Len(Trailers(t)) = t
        BY <2>2, <3>2, PieceLengths
      <4>2. Len(wire') = Len(wire) + t
        BY <2>2, <3>1, <4>1, Joined
      <4> QED
        BY <2>2, <3>2, <3>3, <4>2
    <3>5. wire' = Stream(h, f, t)' /\ call' = call
      BY <1>3, <3>1, <3>3 DEF SendTrailers, Stream
    <3> HIDE DEF f
    <3>6. \E h1 \in 0..call'.headers, f1 \in 0..Len(wire'), t1 \in 0..call'.trailers :
             /\ wire' = Headers(h1) \o File(call'.offset, f1) \o Trailers(t1)
             /\ call'.nbytes > 0 => h1 + f1 <= call'.nbytes \/ f1 = 0
      BY <1>3, <3>1, <3>2, <3>3, <3>4 DEF SendTrailers, Stream
    <3> QED
      BY <3>6 DEF StreamInOrder, Stream
  <2> QED
    BY <1>3, <2>3, <2>4 DEF SendTrailers
<1>4. CASE ~(UNCHANGED <<wire, call>>) /\ ~SendTrailers /\ pc' \notin Sending
  <2>1. SendHeaders \/ WriteSocket
    BY <1>4 DEF Next, Progress, Refuse, FromEnd, SaveOffset, SeekToOffset, AllocateBuffer,
       NoMoreData, ReadFile, WouldBlock, WriteError, Interrupted, Resize, vars, locals
  <2>2. pc' \in Sending \/ UNCHANGED <<wire, call>>
    BY <2>1 DEF SendHeaders, WriteSocket, Sending, Cleanup, Return
  <2> QED
    BY <1>4, <2>2
<1> QED
  BY <1>1, <1>2, <1>3, <1>4

\* The socket takes headers, file and trailers in their order, without a gap or
\* a repetition, and no more of headers and file than *len allows (lines 147-240).
THEOREM OrderCorrect == Spec => []StreamInOrder
<1>1. Init => OrderInv
  <2> SUFFICES ASSUME Init PROVE OrderInv
    OBVIOUS
  <2>1. IInv
    BY InitHolds
  <2>2. InPlace
    BY DEF Init, InPlace, Sending
  <2>3. StreamInOrder
    BY <2>1, EmptyInOrder DEF IInv, Init
  <2> QED
    BY <2>1, <2>2, <2>3 DEF OrderInv
<1>2. OrderInv /\ [Next]_vars => OrderInv'
  <2> SUFFICES ASSUME OrderInv, [Next]_vars PROVE OrderInv'
    OBVIOUS
  <2>1. IInv'
    BY StepHolds DEF OrderInv
  <2>2. InPlace'
    BY PlaceHolds
  <2>3. StreamInOrder'
    BY <2>1, <2>2, OrderHolds
  <2> QED
    BY <2>1, <2>2, <2>3 DEF OrderInv
<1>3. OrderInv => StreamInOrder
  BY DEF OrderInv
<1> QED
  BY <1>1, <1>2, <1>3, PTL DEF Spec

--------------------------------------------------------------------------------
(* Ppoll.                                                                  *)

Watching == {"register", "pending", "alloc"}
Waiting == {"poll", "restore"}

\* The sets are sets of signals and descriptors.
Sets ==
    /\ mask \subseteq Signals /\ pending \subseteq mask /\ kevs \subseteq Caught
    /\ origmask \subseteq Signals
    /\ ready \subseteq Fds /\ n \in Nat
    /\ phase \notin {"restore", "done"} => n = 0
    /\ sigmask # NoMask => sigmask \subseteq Signals

\* The mask differs from the caller's only around poll, where it is sigmask.
MaskPhases ==
    /\ phase \notin Waiting => mask = origmask
    /\ phase \in Waiting => mask = IF sigmask = NoMask THEN origmask ELSE sigmask

\* Watched signals are blocked before the switch and let through after it, and
\* the kqueue is registered all the time between.
WatchPhases ==
    /\ phase \in {"call", "watch"} => kevs = {}
    /\ phase \in Watching \union {"kqueue"} => kevs # {}
    /\ kevs # {} => sigmask # NoMask /\ kevs \intersect sigmask = {}
    /\ phase \notin Waiting \union {"done"} => kevs \subseteq mask
    /\ phase \in {"pending", "alloc"} => kq = "armed"
    /\ phase \in {"mask"} \union Waiting /\ kevs # {} => kq = "armed" /\ fds2
    /\ kevs = {} => ~fds2

\* The kqueue has something exactly for signals that are pending before the
\* switch, or handled after it.
EventPhases ==
    /\ phase \in {"alloc", "mask"} /\ pending \intersect kevs # {} => event
    /\ event /\ phase \notin Waiting \union {"done"} => pending \intersect kevs # {}
    /\ event /\ phase \in Waiting => handled # {}
    /\ interrupted => handled # {} /\ phase \in Waiting \union {"done"}
    /\ phase \notin Waiting \union {"done"} => handled = {} /\ ec # "EINTR"
    /\ ec = "EINTR" => handled # {}

PpollInv == Sets /\ MaskPhases /\ WatchPhases /\ EventPhases /\ NoLostSignal /\ CountIsCallers

\* The invariant holds when the call begins.
LEMMA PpollBegins == PpollInit => PpollInv
BY SignalAssumption, FS_EmptySet DEF PpollInit, PpollInv, Sets, MaskPhases, WatchPhases, EventPhases, NoLostSignal,
   CountIsCallers, Waiting, Watching, Masks

\* The descriptors ready are finitely many, and more of them count for more.
LEMMA ReadyCounts ==
    ASSUME Sets, NEW f \in Fds, f \notin ready
    PROVE  /\ Cardinality(ready) \in Nat
           /\ Cardinality(ready \union {f}) = Cardinality(ready) + 1
BY SignalAssumption, FS_Subset, FS_CardinalityType, FS_AddElement DEF Sets

\* Every step keeps the invariant.
LEMMA PpollSteps == PpollInv /\ [PpollNext]_ppollvars => PpollInv'
<1> SUFFICES ASSUME PpollInv, [PpollNext]_ppollvars PROVE PpollInv'
  OBVIOUS
<1> USE SignalAssumption DEF PpollInv, args, thread, queue, Waiting, Watching, Fail, Out
<1>0. IsFiniteSet(ready) /\ Cardinality(ready) \in Nat
  BY FS_Subset, FS_CardinalityType DEF Sets
<1>1. CASE Call
  BY <1>1 DEF Call, Sets, MaskPhases, WatchPhases, EventPhases, NoLostSignal, CountIsCallers
<1>2. CASE Watch
  BY <1>2 DEF Watch, Sets, MaskPhases, WatchPhases, EventPhases, NoLostSignal, CountIsCallers
<1>3. CASE Kqueue
  BY <1>3 DEF Kqueue, Sets, MaskPhases, WatchPhases, EventPhases, NoLostSignal, CountIsCallers
<1>4. CASE Register
  BY <1>4 DEF Register, Sets, MaskPhases, WatchPhases, EventPhases, NoLostSignal, CountIsCallers
<1>5. CASE CheckPending
  BY <1>5 DEF CheckPending, Sets, MaskPhases, WatchPhases, EventPhases, NoLostSignal, CountIsCallers
<1>6. CASE Allocate
  BY <1>6 DEF Allocate, Sets, MaskPhases, WatchPhases, EventPhases, NoLostSignal, CountIsCallers
<1>7. CASE SetMask
  BY <1>7 DEF SetMask, ChangeMask, Handlers, Sets, MaskPhases, WatchPhases, EventPhases,
     NoLostSignal, CountIsCallers
<1>8. CASE PollReady
  BY <1>0, <1>8, FS_EmptySet DEF PollReady, Found, Sets, MaskPhases, WatchPhases, EventPhases,
     NoLostSignal, CountIsCallers
<1>9. CASE PollTimesOut
  BY <1>0, <1>9 DEF PollTimesOut, Found, Sets, MaskPhases, WatchPhases, EventPhases, NoLostSignal, CountIsCallers
<1>10. CASE PollInterrupted
  BY <1>10 DEF PollInterrupted, Sets, MaskPhases, WatchPhases, EventPhases, NoLostSignal, CountIsCallers
<1>11. CASE RestoreMask
  BY <1>11 DEF RestoreMask, ChangeMask, Sets, MaskPhases, WatchPhases, EventPhases, NoLostSignal,
     CountIsCallers
<1>12. ASSUME NEW s \in Signals, Send(s) PROVE PpollInv'
  BY <1>12 DEF Send, Handlers, Sets, MaskPhases, WatchPhases, EventPhases, NoLostSignal, CountIsCallers
<1>13. ASSUME NEW f \in Fds, BecomeReady(f) PROVE PpollInv'
  BY <1>13, ReadyCounts DEF BecomeReady, Sets, MaskPhases, WatchPhases, EventPhases, NoLostSignal,
     CountIsCallers
<1>14. CASE UNCHANGED ppollvars
  BY <1>14 DEF ppollvars, Sets, MaskPhases, WatchPhases, EventPhases, NoLostSignal, CountIsCallers
<1> QED
  BY <1>1, <1>2, <1>3, <1>4, <1>5, <1>6, <1>7, <1>8, <1>9, <1>10, <1>11, <1>12, <1>13, <1>14
     DEF PpollNext, PpollStep

\* Seconds and fractions of a valid timeout make a number poll takes.
LEMMA MillisecondsInRange ==
    ASSUME NEW to \in Timeouts \union {Forever}, ~Invalid(to)
    PROVE  Milliseconds(to) \in -1..IntMax
<1>1. CASE to = Forever
  BY <1>1, TimeAssumption DEF Milliseconds
<1>2. CASE to # Forever
  <2>1. to.tv_sec \in Nat /\ to.tv_nsec \in Nat
    BY <1>2, TimeAssumption DEF Invalid
  <2>2. to.tv_sec * MsPerSec \in Nat
    BY <2>1, TimeAssumption
  <2>3. to.tv_nsec \div NsPerMs \in Nat
    BY <2>1, TimeAssumption
  <2> QED
    BY <1>2, <2>2, <2>3, TimeAssumption DEF Milliseconds
<1> QED
  BY <1>1, <1>2

\* The state of a call is well typed: the timeout stays an int of milliseconds
\* (lines 20-37), and the result is a count or one of the errors.
THEOREM PpollTypeCorrect == PpollSpec => []PpollTypeOK
<1>1. ASSUME PpollInit PROVE PpollTypeOK
  <2>1. timeout_ms \in -1..IntMax /\ ec \in Errors /\ n \in Nat
    BY <1>1, TimeAssumption DEF PpollInit, Errors
  <2>2. mask \in Masks /\ pending \in Masks /\ origmask \in Masks
    BY <1>1 DEF PpollInit, Masks
  <2>3. kevs \in Masks /\ handled \in Masks /\ ready \in SUBSET Fds
    BY <1>1 DEF PpollInit, Masks
  <2> QED
    BY <1>1, <2>1, <2>2, <2>3 DEF PpollInit, PpollTypeOK
<1>2. PpollTypeOK /\ PpollInv /\ [PpollNext]_ppollvars => PpollTypeOK'
  <2> SUFFICES ASSUME PpollTypeOK, PpollInv, [PpollNext]_ppollvars PROVE PpollTypeOK'
    OBVIOUS
  <2> USE SignalAssumption DEF PpollTypeOK, Masks, Errors, args, thread, queue, Fail, Out
  <2>0. IsFiniteSet(ready) /\ Cardinality(ready) \in Nat
    BY FS_Subset, FS_CardinalityType
  <2>1. CASE Call
    BY <2>1, MillisecondsInRange DEF Call
  <2>2. CASE Watch
    BY <2>2 DEF Watch
  <2>3. CASE Kqueue
    BY <2>3 DEF Kqueue
  <2>4. CASE Register
    BY <2>4 DEF Register
  <2>5. CASE CheckPending
    BY <2>5 DEF CheckPending
  <2>6. CASE Allocate
    BY <2>6 DEF Allocate
  <2>7. CASE SetMask
    BY <2>7 DEF SetMask, ChangeMask, Handlers
  <2>8. CASE PollReady
    BY <2>0, <2>8 DEF PollReady
  <2>9. CASE PollTimesOut \/ PollInterrupted
    BY <2>9 DEF PollTimesOut, PollInterrupted
  <2>10. CASE RestoreMask
    BY <2>10 DEF RestoreMask, ChangeMask, Handlers
  <2>11. ASSUME NEW s \in Signals, Send(s) PROVE PpollTypeOK'
    BY <2>11, SMTT(20), ZenonT(20) DEF Send, Handlers
  <2>12. ASSUME NEW f \in Fds, BecomeReady(f) PROVE PpollTypeOK'
    BY <2>12 DEF BecomeReady
  <2>13. CASE UNCHANGED ppollvars
    BY <2>13 DEF ppollvars
  <2> QED
    BY <2>1, <2>2, <2>3, <2>4, <2>5, <2>6, <2>7, <2>8, <2>9, <2>10, <2>11, <2>12, <2>13
       DEF PpollNext, PpollStep
<1> QED
  BY PpollBegins, PpollSteps, <1>1, <1>2, PTL DEF PpollSpec

\* Every way out leaves the thread the mask it came with (lines 135-144).
THEOREM MaskCorrect == PpollSpec => []MaskRestored
<1>1. PpollInv => MaskRestored
  BY DEF PpollInv, MaskRestored, MaskPhases, EventPhases, Waiting
<1> QED
  BY PpollBegins, PpollSteps, <1>1, PTL DEF PpollSpec

\* A signal watched and handled before the wait is in the kqueue (lines 75-139).
THEOREM SignalsCorrect == PpollSpec => []NoLostSignal
<1>1. PpollInv => NoLostSignal
  BY DEF PpollInv, NoLostSignal, MaskPhases, EventPhases, Waiting
<1> QED
  BY PpollBegins, PpollSteps, <1>1, PTL DEF PpollSpec

\* The kqueue is never counted among the caller's descriptors, and EINTR means
\* that a handler ran (lines 139-150).
THEOREM ResultCorrect == PpollSpec => []ResultIsTrue
<1>1. PpollInv => ResultIsTrue
  BY DEF PpollInv, ResultIsTrue, CountIsCallers, MaskPhases, EventPhases, Waiting
<1> QED
  BY PpollBegins, PpollSteps, <1>1, PTL DEF PpollSpec

\* What a division by the length of a millisecond leaves.
LEMMA DivMod ==
    ASSUME NEW a \in Nat, NEW d \in Nat \ {0}
    PROVE  a = d * (a \div d) + (a % d) /\ a % d \in 0..(d - 1) /\ a \div d \in Nat
BY SMT

LEMMA Distribute ==
    ASSUME NEW a \in Nat, NEW b \in Nat, NEW c \in Nat, NEW d \in Nat
    PROVE  (a + b + c) * d = a * d + d * b + c * d
BY SMT

\* Milliseconds rounds up, and by less than one.
LEMMA RoundedUp ==
    ASSUME NEW to \in Timeouts, ~Invalid(to), Milliseconds(to) # -1
    PROVE  LET asked == (to.tv_sec * MsPerSec) * NsPerMs + to.tv_nsec
           IN  Milliseconds(to) * NsPerMs \in asked..(asked + NsPerMs - 1)
<1> DEFINE sec == to.tv_sec * MsPerSec
           quotient == to.tv_nsec \div NsPerMs
           up == IF to.tv_nsec % NsPerMs # 0 THEN 1 ELSE 0
<1>1. to # Forever /\ to.tv_sec \in Nat /\ to.tv_nsec \in Nat
  BY TimeAssumption DEF Invalid
<1>2. sec \in Nat
  BY <1>1, TimeAssumption
<1>3. /\ to.tv_nsec = NsPerMs * quotient + (to.tv_nsec % NsPerMs)
      /\ to.tv_nsec % NsPerMs \in 0..(NsPerMs - 1) /\ quotient \in Nat
  BY <1>1, TimeAssumption, DivMod
<1>4. Milliseconds(to) = sec + quotient + up
  BY <1>1, <1>2, <1>3 DEF Milliseconds
<1>5. up \in Nat /\ up * NsPerMs = IF to.tv_nsec % NsPerMs # 0 THEN NsPerMs ELSE 0
  BY TimeAssumption
<1> HIDE DEF sec, quotient
<1>6. (sec + quotient + up) * NsPerMs = sec * NsPerMs + NsPerMs * quotient + up * NsPerMs
  BY <1>2, <1>3, <1>5, TimeAssumption, Distribute
<1>7. sec * NsPerMs \in Nat /\ NsPerMs * quotient \in Nat
  BY <1>2, <1>3, TimeAssumption
<1> DEFINE S == sec * NsPerMs
           Q == NsPerMs * quotient
           U == up * NsPerMs
           R == to.tv_nsec % NsPerMs
           total == (sec + quotient + up) * NsPerMs
<1>8. /\ total = S + Q + U /\ S \in Nat /\ Q \in Nat
      /\ to.tv_nsec = Q + R /\ R \in 0..(NsPerMs - 1)
      /\ U = IF R # 0 THEN NsPerMs ELSE 0
  BY <1>3, <1>5, <1>6, <1>7
<1> HIDE DEF S, Q, U, R, total, up
<1>9. total \in (S + to.tv_nsec)..(S + to.tv_nsec + NsPerMs - 1)
  BY <1>1, <1>8, TimeAssumption
<1> QED
  BY <1>4, <1>9 DEF sec, S, total

\* Behind the checks, timeout_ms is what became of a valid timeout.
Converted == phase \notin {"call", "done"} => ~Invalid(timeout) /\ timeout_ms = Milliseconds(timeout)

\* poll waits for the time asked for, rounded up to a millisecond, or for ever
\* when that is more than an int (lines 20-37).
THEOREM TimeoutCorrect == PpollSpec => []TimeoutIsExact
<1>1. PpollInit => Converted
  BY DEF PpollInit, Converted
<1>2. Converted /\ [PpollNext]_ppollvars => Converted'
  <2> SUFFICES ASSUME Converted, [PpollNext]_ppollvars PROVE Converted'
    OBVIOUS
  <2> USE DEF Converted, args, Fail, Out
  <2>1. CASE Call
    BY <2>1 DEF Call
  <2>2. CASE Watch \/ Kqueue \/ Register \/ CheckPending \/ Allocate \/ SetMask
    BY <2>2 DEF Watch, Kqueue, Register, CheckPending, Allocate, SetMask
  <2>3. CASE PollReady \/ PollTimesOut \/ PollInterrupted \/ RestoreMask
    BY <2>3 DEF PollReady, PollTimesOut, PollInterrupted, RestoreMask
  <2>4. ASSUME NEW s \in Signals, Send(s) PROVE Converted'
    BY <2>4 DEF Send
  <2>5. ASSUME NEW f \in Fds, BecomeReady(f) PROVE Converted'
    BY <2>5 DEF BecomeReady
  <2>6. CASE UNCHANGED ppollvars
    BY <2>6 DEF ppollvars
  <2> QED
    BY <2>1, <2>2, <2>3, <2>4, <2>5, <2>6 DEF PpollNext, PpollStep
<1>3. PpollTypeOK /\ Converted => TimeoutIsExact
  <2> SUFFICES ASSUME PpollTypeOK, Converted, phase \notin {"call", "done"}, timeout # Forever,
                      timeout_ms # -1
               PROVE  TimeoutIsExact
    BY DEF TimeoutIsExact
  <2>1. timeout \in Timeouts /\ ~Invalid(timeout) /\ timeout_ms = Milliseconds(timeout)
    BY DEF PpollTypeOK, Converted
  <2> QED
    BY <2>1, RoundedUp DEF TimeoutIsExact
<1> QED
  BY PpollTypeCorrect, <1>1, <1>2, <1>3, PTL DEF PpollSpec
================================================================================
