----------------------------- MODULE PortBytes -----------------------------
(***************************************************************************)
(* Bytes, characters and files, as ports see them.  Characters are single    *)
(* bytes or one wide character of CharBytes bytes, the longest that UTF-8    *)
(* has.                                                                     *)
(***************************************************************************)
EXTENDS Integers, Sequences, SequencesExt

CONSTANT CharBytes

ASSUME CharBytesAssumption == CharBytes \in Nat \ {0, 1}

Single == {"a", "b", "cr", "lf"}

Byte == Single \union {"lead", "cont", "zero"}

Wide == [i \in 1 .. CharBytes |-> IF i = 1 THEN "lead" ELSE "cont"]

\* The bytes of each line ending that a port converts to a linefeed.
EolBytes == [none |-> <<>>, lf |-> <<"lf">>, cr |-> <<"cr">>, crlf |-> <<"cr", "lf">>]

IsText(info) == info.codec # "binary"

\* The bytes that put-string and put-bytevector write for s.
Encoded(info, s) ==
    FlattenSeq([i \in DOMAIN s |->
        IF IsText(info) /\ s[i] = "lf" /\ info.eol # "none" THEN EolBytes[info.eol]
        ELSE IF s[i] = "wide" THEN Wide
        ELSE <<s[i]>>])

\* The file f with s written over it from position p on; a gap becomes zeros.
Overlay(f, p, s) ==
    [i \in 1 .. (IF s = <<>> \/ Len(f) > p + Len(s) THEN Len(f) ELSE p + Len(s)) |->
        IF i \in p + 1 .. p + Len(s) THEN s[i - p]
        ELSE IF i <= Len(f) THEN f[i] ELSE "zero"]
=============================================================================
