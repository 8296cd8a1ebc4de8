------------------------------- MODULE Ports -------------------------------
(***************************************************************************)
(* The binary and transcoded ports of src/src/ports.rs, over a file: a read  *)
(* buffer that the device fills with as many bytes as it likes, a write      *)
(* buffer that is written out by the rules of the buffer mode, and a         *)
(* decoder.  A call has the port locked from its beginning to its end.       *)
(*                                                                         *)
(* Texts are well-formed in the codec of the port.  Nobody else changes the  *)
(* file, and the device does not fail.                                       *)
(***************************************************************************)
EXTENDS PortBytes

CONSTANTS
    BufferSize,    \* BUFFER_SIZE
    Eof,           \* the end-of-file object
    Openings,      \* how ports may be opened, and on which contents
    Puts,          \* what programs write
    Positions,     \* where programs seek
    MaxLength      \* bound on the files that programs write

\* A buffer holds at least one character (8192 and 4 in the code); the end-of-file object is none.
ASSUME PortsAssumption ==
    /\ BufferSize \in Nat /\ BufferSize >= CharBytes
    /\ Eof \notin Byte \union {"wide"}

VARIABLES
    info,          \* BinaryPortInfo: mode, codec, eol, reads, writes, seeks
    disk,          \* the bytes of the file
    devPos,        \* the position of the device in it
    open,          \* inner_port is there
    inputPos,      \* input_pos
    bytesRead,     \* bytes_read
    inputBuffer,   \* input_buffer
    outputBuffer,  \* output_buffer
    op,            \* the read that is under way, or Idle
    result         \* what the last read returned

portVars == <<info, disk, devPos, open, inputPos, bytesRead, inputBuffer, outputBuffer,
          op, result>>

Idle == [do |-> "idle", at |-> 0, line |-> FALSE, eof |-> FALSE]

\* The types, with the order of the positions in the read buffer: the subtractions of
\* consume_chars and of the seek of put_bytes do not underflow.
PortTypeOK ==
    /\ disk \in Seq(Byte) /\ devPos \in Nat
    /\ inputBuffer \in Seq(Byte) /\ outputBuffer \in Seq(Byte)
    /\ bytesRead \in 0 .. Len(inputBuffer) /\ inputPos \in 0 .. bytesRead
    /\ op \in [do : {"idle", "get", "look"}, at : Nat, line : BOOLEAN, eof : BOOLEAN]
    /\ result \in Single \union {"wide", "zero", Eof}

\* new_input_byte_buffer, by the buffer mode.
NewBuffer(i) ==
    LET size == IF ~i.reads THEN 0
                ELSE IF i.mode # "none" THEN BufferSize
                ELSE IF IsText(i) THEN CharBytes ELSE 1
    IN [n \in 1 .. size |-> "zero"]

PortInit ==
    /\ \E o \in Openings : info = o[1] /\ disk = o[2]
    /\ devPos = 0 /\ open = TRUE
    /\ inputPos = 0 /\ bytesRead = 0
    /\ inputBuffer = NewBuffer(info) /\ outputBuffer = <<>>
    /\ op = Idle /\ result = Eof

----------------------------------------------------------------------------
(* Decoding.                                                               *)

\* It has to peek the byte behind those it has been given.
More == [chr |-> "more", len |-> 0]

\* The character that the decoder finds in the bytes s from the offset i on.
Decoded(s, i) ==
    IF i >= Len(s) THEN More
    ELSE IF info.codec # "utf-8" \/ s[i + 1] \in Single THEN [chr |-> s[i + 1], len |-> 1]
    ELSE IF i + CharBytes > Len(s) THEN More
    ELSE [chr |-> "wide", len |-> CharBytes]

\* The next character of a port whose bytes from input_pos on are s, with line
\* endings converted: a "\r" that may begin an ending needs the character behind it.
\* eof: the device has no byte behind s.
NextChar(s, eof) ==
    LET c == Decoded(s, 0)
        after == Decoded(s, c.len)
    IN IF c.len = 0 THEN IF eof THEN [chr |-> Eof, len |-> 0] ELSE More
       ELSE IF info.eol = "cr" /\ c.chr = "cr" THEN [chr |-> "lf", len |-> 1]
       ELSE IF info.eol = "crlf" /\ c.chr = "cr" /\ after.chr = "lf" THEN [chr |-> "lf", len |-> 2]
       ELSE IF info.eol = "crlf" /\ c.chr = "cr" /\ after.len = 0 /\ ~eof THEN More
       ELSE c

\* The bytes that have been read and not consumed.
Unread == SubSeq(inputBuffer, inputPos + 1, bytesRead)

\* Where lines end in s: find_next_line, repeated.
LineEnds(s) ==
    LET eol == EolBytes[info.eol]
    IN {n \in 1 .. Len(s) : eol # <<>> /\ IsSuffix(eol, SubSeq(s, 1, n))}

ByLine == info.mode = "line" /\ IsText(info)

----------------------------------------------------------------------------
(* Reads.                                                                  *)

WriteOut(s) ==
    /\ disk' = Overlay(disk, devPos, s)
    /\ devPos' = devPos + Len(s)

\* A read begins: what is buffered for output goes first.
BeginRead(do) ==
    /\ op = Idle /\ open /\ info.reads
    /\ WriteOut(outputBuffer)
    /\ outputBuffer' = <<>>
    /\ op' = [Idle EXCEPT !.do = do]
    /\ UNCHANGED <<info, open, inputPos, bytesRead, inputBuffer, result>>

\* peekn_bytes asks the device for more.
Wants == op # Idle /\ ~op.eof /\ (op.line \/ NextChar(Unread, FALSE).len = 0)

\* The assertion of peekn_bytes: "attempt to lookahead further than the buffer allows".
Fits == op.line \/ bytesRead < Len(inputBuffer)

\* How many bytes are asked for.
Asked == IF info.mode = "none" THEN 1 ELSE Len(inputBuffer) - bytesRead

\* The device returns k bytes, 0 at the end of the file.  A line-buffered text port
\* goes on until a chunk holds a line ending, with a longer buffer.
Fill(k) ==
    LET chunk == SubSeq(disk, devPos + 1, devPos + k)
        more == ByLine /\ LineEnds(chunk) = {}
    IN
    /\ Wants /\ Fits
    /\ k <= Asked
    /\ IF k = 0 THEN devPos >= Len(disk) ELSE devPos + k <= Len(disk)
    /\ devPos' = devPos + k
    /\ bytesRead' = bytesRead + k
    /\ inputBuffer' =
         [n \in 1 .. Len(inputBuffer) + (IF k > 0 /\ more THEN BufferSize ELSE 0) |->
             IF n \in bytesRead + 1 .. bytesRead + k THEN chunk[n - bytesRead]
             ELSE IF n <= Len(inputBuffer) THEN inputBuffer[n] ELSE "zero"]
    /\ op' = [op EXCEPT !.eof = k = 0,
                        !.line = k > 0 /\ more,
                        !.at = IF op.line THEN @ ELSE Len(Unread)]
    /\ UNCHANGED <<info, disk, open, inputPos, outputBuffer, result>>

\* Mutant of Consume: the tail of the buffer is never moved.
Consume_NoMove(n) ==
    LET p == inputPos + n
        size == Len(inputBuffer)
    IN /\ UNCHANGED inputBuffer
       /\ IF p >= size THEN inputPos' = p - size /\ bytesRead' = 0
          ELSE inputPos' = p /\ UNCHANGED bytesRead

\* Mutant of Consume: bytes_read stays where it is when the tail is moved.
Consume_StaleCount(n) ==
    LET p == inputPos + n
        size == Len(inputBuffer)
        move == IsText(info) /\ size - p < CharBytes
    IN IF p >= size
       THEN inputPos' = p - size /\ bytesRead' = 0 /\ UNCHANGED inputBuffer
       ELSE /\ UNCHANGED bytesRead
            /\ inputPos' = IF move THEN 0 ELSE p
            /\ inputBuffer' = IF move
                 THEN SubSeq(inputBuffer, p + 1, size) \o SubSeq(inputBuffer, size - p + 1, size)
                 ELSE inputBuffer

\* consume_bytes, and the move of the tail of the buffer to its front that
\* consume_chars makes when a character might not fit behind it.
Consume(n) ==
    LET p == inputPos + n
        size == Len(inputBuffer)
    IN IF p >= size
       THEN inputPos' = p - size /\ bytesRead' = 0 /\ UNCHANGED inputBuffer
       ELSE IF IsText(info) /\ size - p < CharBytes
       THEN /\ inputPos' = 0 /\ bytesRead' = bytesRead - p
            /\ inputBuffer' = SubSeq(inputBuffer, p + 1, size) \o SubSeq(inputBuffer, size - p + 1, size)
       ELSE inputPos' = p /\ UNCHANGED <<bytesRead, inputBuffer>>

\* The bytes are there, or there are no more: the read returns.  At the end of the file
\* the peek fails although the line loop may have read bytes before; a get decodes a
\* second time, and then sees them.
EndRead ==
    LET seen == IF op.eof THEN SubSeq(Unread, 1, op.at) ELSE Unread
        found == NextChar(seen, op.eof).chr
    IN
    /\ op # Idle /\ ~Wants
    /\ result' = found
    /\ op' = Idle
    /\ IF op.do = "get" /\ found # Eof
       THEN Consume(NextChar(Unread, op.eof).len)
       ELSE UNCHANGED <<inputPos, bytesRead, inputBuffer>>
    /\ UNCHANGED <<info, disk, devPos, open, outputBuffer>>

----------------------------------------------------------------------------
(* Writes, positions, close.                                               *)

\* The port as programs see it.
Contents == IF open THEN Overlay(disk, devPos, outputBuffer) ELSE disk

Position ==
    IF open THEN devPos + Len(outputBuffer) - (bytesRead - inputPos)
    ELSE devPos - (bytesRead - inputPos)

\* How many of the last bytes stay in the buffer, after put_bytes of bytes that makes
\* them total: none, those behind the last line ending of bytes, or less than a block.
Held(total, bytes) ==
    IF info.mode = "none" THEN 0
    ELSE IF ~ByLine THEN total % BufferSize
    ELSE IF LineEnds(bytes) = {} THEN total
    ELSE Len(bytes) - Max(LineEnds(bytes))

\* put_bytes and put_str: back to where the program has read to, then buffer and write.
Put(s) ==
    LET bytes == Encoded(info, s)
        all == outputBuffer \o bytes
        out == Len(all) - Held(Len(all), bytes)
        back == info.seeks /\ bytesRead > 0
        start == IF back THEN devPos - (bytesRead - inputPos) ELSE devPos
    IN
    /\ op = Idle /\ open /\ info.writes /\ Position + Len(bytes) <= MaxLength
    /\ IF back THEN inputPos' = 0 /\ bytesRead' = 0 ELSE UNCHANGED <<inputPos, bytesRead>>
    /\ disk' = Overlay(disk, start, SubSeq(all, 1, out))
    /\ devPos' = start + out
    /\ outputBuffer' = SubSeq(all, out + 1, Len(all))
    /\ UNCHANGED <<info, open, inputBuffer, op, result>>

\* flush
Flush ==
    /\ op = Idle /\ open /\ info.writes
    /\ WriteOut(outputBuffer)
    /\ outputBuffer' = <<>>
    /\ UNCHANGED <<info, open, inputPos, bytesRead, inputBuffer, op, result>>

\* set_pos: write out, forget what was read ahead, seek.
SetPos(p) ==
    /\ op = Idle /\ open /\ info.seeks
    /\ disk' = Overlay(disk, devPos, outputBuffer)
    /\ outputBuffer' = <<>>
    /\ inputPos' = 0 /\ bytesRead' = 0
    /\ devPos' = p
    /\ UNCHANGED <<info, open, inputBuffer, op, result>>

\* close: write out, then drop the device.
Close ==
    /\ op = Idle /\ open
    /\ WriteOut(outputBuffer)
    /\ open' = FALSE
    /\ UNCHANGED <<info, inputPos, bytesRead, inputBuffer, outputBuffer, op, result>>

PortNext ==
    \/ \E do \in {"get", "look"} : BeginRead(do)
    \/ \E k \in 0 .. Len(inputBuffer) : Fill(k)
    \/ EndRead
    \/ \E s \in Puts : Put(s)
    \/ Flush
    \/ \E p \in Positions : SetPos(p)
    \/ Close

PortSpec == PortInit /\ [][PortNext]_portVars

----------------------------------------------------------------------------
(* Properties.                                                             *)

F == INSTANCE FilePort WITH file <- Contents, pos <- Position

\* Buffers do not show: every read, peek, write and seek acts on the one sequence of
\* bytes and the one position that the program would have without them, and what was
\* written is in the file when the port is closed.
ImplementsFile == F!Spec

\* A read never needs a byte that its buffer has no room for: the decoder's lookahead
\* fits behind input_pos because the tail was moved, or the buffer grew, in time.  The
\* code panics otherwise.
LookaheadFits == Wants => Fits

\* "Read the contents of the port until eof." (Port::get_string_all): a read returns the
\* end-of-file object only when the program has read all of the file.
EofAtEnd ==
    [][op # Idle /\ op' = Idle /\ result' = Eof => Position >= Len(disk)]_portVars
=============================================================================
