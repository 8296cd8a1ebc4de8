------------------------------ MODULE FilePort ------------------------------
(***************************************************************************)
(* What a port over a file promises to programs: a sequence of bytes and one *)
(* position.  It knows nothing of buffers, of the size of reads or of when   *)
(* bytes reach the disk.                                                    *)
(***************************************************************************)
EXTENDS PortBytes

CONSTANTS
    Eof,           \* the end-of-file object
    Openings,      \* how ports may be opened, and on which contents
    Puts,          \* what programs write
    Positions      \* where programs seek

VARIABLES
    info,          \* how the port was opened
    file,          \* the bytes of the file
    pos,           \* the position of the port in it
    open,
    result         \* what the last read returned

vars == <<info, file, pos, open, result>>

Init ==
    /\ <<info, file>> \in Openings
    /\ pos = 0 /\ open = TRUE /\ result = Eof

\* The character at the position, and its bytes.
Here ==
    LET rest == SubSeq(file, pos + 1, Len(file))
        eol == EolBytes[info.eol]
    IN IF rest = <<>> THEN [chr |-> Eof, len |-> 0]
       ELSE IF IsText(info) /\ eol # <<>> /\ IsPrefix(eol, rest)
       THEN [chr |-> "lf", len |-> Len(eol)]
       ELSE IF info.codec = "utf-8" /\ IsPrefix(Wide, rest)
       THEN [chr |-> "wide", len |-> CharBytes]
       ELSE [chr |-> Head(rest), len |-> 1]

\* get-u8 and get-char, lookahead-u8 and lookahead-char.
Read(get) ==
    /\ open /\ info.reads
    /\ result' = Here.chr
    /\ pos' = IF get THEN pos + Here.len ELSE pos
    /\ UNCHANGED <<info, file, open>>

Put(s) ==
    /\ open /\ info.writes
    /\ file' = Overlay(file, pos, Encoded(info, s))
    /\ pos' = pos + Len(Encoded(info, s))
    /\ UNCHANGED <<info, open, result>>

SetPos(p) ==
    /\ open /\ info.seeks
    /\ pos' = p
    /\ UNCHANGED <<info, file, open, result>>

Close ==
    /\ open' = FALSE
    /\ UNCHANGED <<info, file, pos, result>>

Next ==
    \/ \E get \in BOOLEAN : Read(get)
    \/ \E s \in Puts : Put(s)
    \/ \E p \in Positions : SetPos(p)
    \/ Close

Spec == Init /\ [][Next]_vars
=============================================================================
