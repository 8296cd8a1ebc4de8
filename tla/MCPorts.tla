------------------------------ MODULE MCPorts ------------------------------
(* Openings of ports for TLC.                                               *)
EXTENDS Ports

Info(mode, codec, eol, reads, writes) ==
    [mode |-> mode, codec |-> codec, eol |-> eol, reads |-> reads, writes |-> writes,
     seeks |-> codec = "binary"]

Modes == {"none", "line", "block"}

\* Texts of at most n characters, as bytes.
Texts(codec, chars, n) ==
    {Encoded([codec |-> codec, eol |-> "none"], s) : s \in BoundedSeq(chars, n)}

\* Binary files that are read, written and sought; "line" is "block" there.
Binary ==
    {Info(m, "binary", "none", r, w) : m \in {"none", "block"}, r \in BOOLEAN, w \in BOOLEAN}
        \X {<<>>, <<"a", "b", "lf", "a">>}

\* Text files that are written.
Written ==
    {Info(m, "utf-8", e, FALSE, TRUE) : m \in Modes, e \in DOMAIN EolBytes} \X {<<>>, <<"a", "b">>}

\* A "\r" before a wide character, which needs a lookahead of CharBytes.
WideLookahead(text) ==
    \E n \in 1 .. Len(text) - 1 : text[n] = "cr" /\ text[n + 1] = "lead"

\* Text files that are read.
Read ==
    {o \in {Info(m, "utf-8", e, TRUE, FALSE) : m \in Modes, e \in DOMAIN EolBytes}
             \X Texts("utf-8", {"a", "cr", "lf", "wide"}, 4) :
        o[1].eol = "crlf" => ~WideLookahead(o[2])}
    \union
    {Info(m, "latin-1", e, TRUE, FALSE) : m \in Modes, e \in {"none", "crlf"}}
        \X Texts("latin-1", {"a", "cr", "lf"}, 3)

\* Line-buffered text in which every line ends, each with one byte.
LinesEnd(o) ==
    o[1].mode = "line" /\ o[1].reads /\ IsText(o[1])
        => o[1].eol \in {"lf", "cr"} /\ (o[2] = <<>> \/ Last(o[2]) = o[1].eol)

WellBehaved == {o \in Binary \union Written \union Read : LinesEnd(o)}

\* The standard input port: line buffer, native transcoder.
StandardInput == {Info("line", "utf-8", "none", TRUE, FALSE)} \X Texts("utf-8", {"a", "lf", "wide"}, 3)

SomePuts == {<<"b">>, <<"a", "lf", "b", "a">>}
=============================================================================
