-------------------------------- MODULE Sendfile --------------------------------
(***************************************************************************)
(* sys/socket/sendfile.c: one call of compat_sendfile, which copies a file *)
(* to a stream socket through a buffer, headers before and trailers after. *)
(*                                                                         *)
(* A byte is named by where it comes from, so that the stream the socket   *)
(* receives shows what was lost, repeated or sent out of order.  Around    *)
(* the call, signals interrupt reads and writes, the socket takes any part *)
(* of what it is given, and others change the length of the file.          *)
(***************************************************************************)
EXTENDS Integers, Sequences, SequencesExt

CONSTANTS
    Calls,          \* the calls: offset, nbytes (*len), header and trailer bytes
    FileSizes,      \* the lengths the file may have
    BufferSize,     \* SENDFILE_BUFFER_SIZE
    MaxSignals      \* how many reads and writes a signal may interrupt

ASSUME CallAssumption ==
    Calls \subseteq [offset : Int, nbytes : Int, headers : Nat, trailers : Nat]
ASSUME SizeAssumption ==
    FileSizes \subseteq Nat /\ BufferSize \in Nat \ {0} /\ MaxSignals \in Nat

VARIABLES
    pc,
    call,           \* the arguments
    size,           \* the length of the file now
    fpos,           \* the file offset of fd, kept by the kernel
    orig_offset,    \* -1 until the offset has been saved
    file_size,      \* what fstat said
    buffer,         \* the bytes read and not yet all sent
    total_sent,     \* how many of them are sent
    sbytes,
    sent_headers_and_file,
    file_pos,
    len, ret,       \* what the caller gets: *len and the result
    wire,           \* what the socket has taken
    signals         \* the interruptions still to come

locals == <<orig_offset, file_size, buffer, total_sent, sbytes,
            sent_headers_and_file, file_pos>>
vars == <<pc, call, size, fpos, locals, len, ret, wire, signals>>

Headers(n) == [i \in 1..n |-> <<"header", i>>]
Trailers(n) == [i \in 1..n |-> <<"trailer", i>>]
File(from, n) == [i \in 1..n |-> <<"file", from + i - 1>>]
Byte == {"header", "file", "trailer"} \X Nat

StartOffset == 0    \* where the caller's descriptor stands before the call

TypeOK ==
    /\ pc \in {"call", "seek", "alloc", "headers", "read", "write", "trailers", "done"}
    /\ call \in Calls
    /\ size \in FileSizes /\ file_size \in FileSizes
    /\ fpos \in Nat /\ orig_offset \in Nat \union {-1}
    /\ buffer \in Seq(Byte) /\ total_sent \in 0..Len(buffer)
    /\ sbytes \in Nat /\ sent_headers_and_file \in Nat /\ file_pos \in Int
    /\ len \in Nat /\ ret \in {0, -1}
    /\ wire \in Seq(Byte) /\ signals \in 0..MaxSignals

Init ==
    /\ pc = "call"
    /\ call \in Calls
    /\ size \in FileSizes /\ file_size = size
    /\ fpos = StartOffset /\ orig_offset = -1
    /\ buffer = << >> /\ total_sent = 0
    /\ sbytes = 0 /\ sent_headers_and_file = 0 /\ file_pos = call.offset
    /\ len = 0 /\ ret = 0
    /\ wire = << >> /\ signals = MaxSignals

--------------------------------------------------------------------------------
(* The ways out: a return, and the label cleanup, which gives the file     *)
(* its offset back.                                                        *)

Return(r, n) ==
    /\ pc' = "done" /\ ret' = r /\ len' = n

Cleanup(r, n) ==
    /\ Return(r, n)
    /\ fpos' = IF orig_offset # -1 THEN orig_offset ELSE fpos

Sent(n) == [i \in 1..n |-> buffer[total_sent + i]]

--------------------------------------------------------------------------------
\* Lines 50-124: flags, offset, the two descriptors and the state of the
\* socket are looked at before anything happens.
Refuse ==
    /\ pc = "call"
    /\ Return(-1, 0)
    /\ UNCHANGED <<call, size, fpos, locals, wire, signals>>

FromEnd ==
    /\ pc = "call"
    /\ call.offset >= size
    /\ Return(0, 0)
    /\ file_size' = size
    /\ UNCHANGED <<call, size, fpos, orig_offset, buffer, total_sent, sbytes,
                   sent_headers_and_file, file_pos, wire, signals>>

SaveOffset ==
    /\ pc = "call"
    /\ call.offset >= 0 /\ call.offset < size
    /\ file_size' = size
    /\ \/ orig_offset' = fpos /\ pc' = "seek" /\ UNCHANGED <<ret, len>>
       \/ UNCHANGED orig_offset /\ Return(-1, 0)
    /\ UNCHANGED <<call, size, fpos, buffer, total_sent, sbytes,
                   sent_headers_and_file, file_pos, wire, signals>>

SeekToOffset ==
    /\ pc = "seek"
    /\ \/ fpos' = call.offset /\ pc' = "alloc" /\ UNCHANGED <<ret, len>>
       \/ UNCHANGED fpos /\ Return(-1, 0)
    /\ UNCHANGED <<call, size, locals, wire, signals>>

AllocateBuffer ==
    /\ pc = "alloc"
    /\ \/ pc' = "headers" /\ UNCHANGED <<fpos, ret, len>>
       \/ Cleanup(-1, 0)
    /\ UNCHANGED <<call, size, locals, wire, signals>>

\* Phase 1.  The socket takes a part of the headers, all of them, or refuses.
SendHeaders ==
    /\ pc = "headers"
    /\ \/ /\ call.headers = 0
          /\ pc' = "read"
          /\ UNCHANGED <<fpos, ret, len, sbytes, sent_headers_and_file, wire>>
       \/ \E n \in 1..call.headers :
             /\ wire' = wire \o Headers(n)
             /\ sbytes' = sbytes + n
             /\ sent_headers_and_file' = sent_headers_and_file + n
             /\ pc' = IF call.nbytes > 0 /\ sent_headers_and_file' >= call.nbytes
                      THEN "trailers" ELSE "read"
             /\ UNCHANGED <<fpos, ret, len>>
       \/ /\ call.headers > 0
          /\ Cleanup(-1, sbytes)
          /\ UNCHANGED <<sbytes, sent_headers_and_file, wire>>
    /\ UNCHANGED <<call, size, orig_offset, file_size, buffer, total_sent, file_pos, signals>>

--------------------------------------------------------------------------------
(* Phase 2.                                                                *)

MoreToSend == /\ call.nbytes = 0 \/ sent_headers_and_file < call.nbytes
              /\ file_pos < file_size

Smaller(a, b) == IF a < b THEN a ELSE b

\* Lines 169-186.
ToRead ==
    LET limit == IF call.nbytes = 0 THEN BufferSize
                 ELSE Smaller(call.nbytes - sent_headers_and_file, BufferSize)
    IN  Smaller(limit, file_size - file_pos)

NoMoreData ==
    /\ pc = "read" /\ ~MoreToSend
    /\ pc' = "trailers"
    /\ UNCHANGED <<call, size, fpos, locals, len, ret, wire, signals>>

\* Mutant of ReadFile: the end of the file is not an end.
ReadFileAgain ==
    /\ pc = "read" /\ MoreToSend
    /\ \E n \in 1..ToRead :
             /\ fpos + n <= size
             /\ buffer' = File(fpos, n) /\ total_sent' = 0
             /\ fpos' = fpos + n
             /\ pc' = "write"
    /\ UNCHANGED <<call, size, orig_offset, file_size, sbytes, sent_headers_and_file,
                   file_pos, len, ret, wire, signals>>

\* read at the kernel's offset: some bytes, the end of a file that has become
\* shorter since fstat, or an error.
ReadFile ==
    /\ pc = "read" /\ MoreToSend
    /\ \/ \E n \in 1..ToRead :
             /\ fpos + n <= size
             /\ buffer' = File(fpos, n) /\ total_sent' = 0
             /\ fpos' = fpos + n
             /\ pc' = "write"
             /\ UNCHANGED <<len, ret>>
       \/ /\ fpos >= size
          /\ pc' = "trailers"
          /\ UNCHANGED <<buffer, total_sent, fpos, len, ret>>
       \/ Cleanup(-1, sbytes) /\ UNCHANGED <<buffer, total_sent>>
    /\ UNCHANGED <<call, size, orig_offset, file_size, sbytes, sent_headers_and_file,
                   file_pos, wire, signals>>

\* Mutant of WriteSocket: every write starts at the head of the buffer.
WriteFromHead ==
    /\ pc = "write"
    /\ \E n \in 1..(Len(buffer) - total_sent) :
          /\ wire' = wire \o [i \in 1..n |-> buffer[i]]
          /\ IF total_sent + n < Len(buffer)
             THEN /\ total_sent' = total_sent + n
                  /\ UNCHANGED <<pc, buffer, sbytes, sent_headers_and_file, file_pos>>
             ELSE /\ buffer' = << >> /\ total_sent' = 0
                  /\ sbytes' = sbytes + Len(buffer)
                  /\ sent_headers_and_file' = sent_headers_and_file + Len(buffer)
                  /\ file_pos' = file_pos + Len(buffer)
                  /\ pc' = "read"
    /\ UNCHANGED <<call, size, fpos, orig_offset, file_size, len, ret, signals>>

\* The inner loop: a write takes some of what is left; the counters move when
\* the buffer is through (lines 205-227).
WriteSocket ==
    /\ pc = "write"
    /\ \E n \in 1..(Len(buffer) - total_sent) :
          /\ wire' = wire \o Sent(n)
          /\ IF total_sent + n < Len(buffer)
             THEN /\ total_sent' = total_sent + n
                  /\ UNCHANGED <<pc, buffer, sbytes, sent_headers_and_file, file_pos>>
             ELSE /\ buffer' = << >> /\ total_sent' = 0
                  /\ sbytes' = sbytes + Len(buffer)
                  /\ sent_headers_and_file' = sent_headers_and_file + Len(buffer)
                  /\ file_pos' = file_pos + Len(buffer)
                  /\ pc' = "read"
    /\ UNCHANGED <<call, size, fpos, orig_offset, file_size, len, ret, signals>>

\* Mutant of WouldBlock: straight out, as at the end of the function.
WouldBlockReturns ==
    /\ pc = "write"
    /\ Return(0, sbytes + total_sent)
    /\ UNCHANGED <<call, size, fpos, locals, wire, signals>>

\* EAGAIN: success, with what was sent so far.
WouldBlock ==
    /\ pc = "write"
    /\ Cleanup(0, sbytes + total_sent)
    /\ sbytes' = sbytes + total_sent
    /\ sent_headers_and_file' = sent_headers_and_file + total_sent
    /\ UNCHANGED <<call, size, orig_offset, file_size, buffer, total_sent, file_pos,
                   wire, signals>>

WriteError ==
    /\ pc = "write"
    /\ Cleanup(-1, sbytes)
    /\ UNCHANGED <<call, size, locals, wire, signals>>

\* EINTR from read or write: the loop goes round once more.
Interrupted ==
    /\ pc \in {"read", "write"} /\ (pc = "read" => MoreToSend)
    /\ signals > 0
    /\ signals' = signals - 1
    /\ UNCHANGED <<pc, call, size, fpos, locals, len, ret, wire>>

\* Mutant of SendTrailers: their bytes are not reported.
SendTrailersUncounted ==
    /\ pc = "trailers"
    /\ \E n \in 0..call.trailers : wire' = wire \o Trailers(n) /\ Return(0, sbytes)
    /\ UNCHANGED <<call, size, fpos, locals, signals>>

\* Phase 3, and the return of a call that went through (lines 230-244).
SendTrailers ==
    /\ pc = "trailers"
    /\ \/ /\ call.trailers = 0
          /\ Return(0, sbytes)
          /\ UNCHANGED <<fpos, sbytes, wire>>
       \/ \E n \in 1..call.trailers :
             /\ wire' = wire \o Trailers(n)
             /\ sbytes' = sbytes + n
             /\ Return(0, sbytes + n)
             /\ UNCHANGED fpos
       \/ call.trailers > 0 /\ Cleanup(-1, sbytes) /\ UNCHANGED <<sbytes, wire>>
    /\ UNCHANGED <<call, size, orig_offset, file_size, buffer, total_sent,
                   sent_headers_and_file, file_pos, signals>>

\* Somebody else truncates or extends the file.
Resize ==
    /\ pc # "done"
    /\ size' \in FileSizes \ {size}
    /\ UNCHANGED <<pc, call, fpos, locals, len, ret, wire, signals>>

--------------------------------------------------------------------------------
Progress ==
    \/ Refuse \/ FromEnd \/ SaveOffset \/ SeekToOffset \/ AllocateBuffer
    \/ SendHeaders \/ NoMoreData \/ ReadFile \/ WriteSocket \/ WouldBlock
    \/ WriteError \/ SendTrailers

Next == Progress \/ Interrupted \/ Resize

Spec == Init /\ [][Next]_vars

\* The peer takes bytes or the socket fails, reads come back, and signals do
\* not interrupt for ever (MaxSignals).
FairSpec == Spec /\ WF_vars(Progress)

--------------------------------------------------------------------------------
(* What must hold.                                                         *)

Part(kind) == SelectSeq(wire, LAMBDA b : b[1] = kind)
Stream(h, f, t) == Headers(h) \o File(call.offset, f) \o Trailers(t)

\* Whatever was interrupted, short or partial, the socket has taken a part of
\* the headers, then the file from offset on without a gap or a repetition,
\* then a part of the trailers (lines 147-240); and headers and file together stay
\* within *len, when the headers alone do (lines 157-160, 174-180): read-ahead
\* does not overrun the limit.
StreamInOrder ==
    \E h \in 0..call.headers, f \in 0..Len(wire), t \in 0..call.trailers :
        /\ wire = Stream(h, f, t)
        /\ call.nbytes > 0 => h + f <= call.nbytes \/ f = 0

\* A call that reports success reports every byte the socket took, also when
\* it gave up on EAGAIN; a call that fails reports no byte too many and less
\* than one buffer too few (lines 153-156, 199-240, 247).
BytesAccountedFor ==
    pc = "done" =>
        IF ret = 0 THEN len = Len(wire)
        ELSE len <= Len(wire) /\ Len(wire) < len + BufferSize

\* The returns behind the label cleanup (all those after the allocation but
\* the last).
ThroughCleanup ==
    /\ pc' = "done"
    /\ \/ pc \in {"alloc", "headers", "read", "write"}
       \/ pc = "trailers" /\ ret' = -1

\* A call that leaves through cleanup, at any point, gives the descriptor its
\* offset back (lines 253-256).
CleanupRestoresOffset == [][ThroughCleanup => fpos' = StartOffset]_vars

\* The call comes back, also when the file shrinks under it or signals keep
\* arriving (lines 165-228).
Returns == <>(pc = "done")

--------------------------------------------------------------------------------
(* What the comments of the source say, and the code does not keep.        *)

\* "Send trailers if specified (always completely)" (line 231): once the
\* trailers are begun they are all sent.
TrailersComplete ==
    pc = "done" => Part("trailer") \in {<< >>, Trailers(call.trailers)}
================================================================================
