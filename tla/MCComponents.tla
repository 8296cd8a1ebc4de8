---------------------------- MODULE MCComponents ----------------------------
(***************************************************************************)
(* Components that share no state, in one run: a behaviour is about one of    *)
(* them, the others stay as they begin.                                     *)
(***************************************************************************)
EXTENDS Threads, MCPorts, AtomicBox, Records, Numbers

VARIABLE part  \* the component that this behaviour is about

-----------------------------------------------------------------------------
\* Two Rust types, the second one inherits from the first.
MCRustTypes == <<[parent |-> NoType, fields |-> <<FALSE>>, rust |-> 1, uid |-> NoUid, since |-> 0],
                 [parent |-> 1, fields |-> <<TRUE>>, rust |-> 2, uid |-> NoUid, since |-> 0]>>
MCShapes == {<<TRUE>>, <<FALSE, TRUE>>}

\* Literals at and beyond the limits of Fixed, integers in larger representations, and complex numbers.
MCOperands ==
    {Literal(n, 1) : n \in {-8, -5, 0, 2, 7, 9}} \cup
    {Literal(1, 2), Rational(<<3, 1>>), Big(3), Complex(Fixed(1), Fixed(-1)),
     Complex(Rational(<<1, 2>>), Fixed(2)), Complex(Fixed(2), Fixed(0))}

-----------------------------------------------------------------------------
AnOpening == <<Info("none", "binary", "none", TRUE, TRUE), <<>>>>
AValue == CHOOSE v \in BoxValues : TRUE

AllInit ==
    /\ part \in {"threads", "ports", "box", "records", "numbers"}
    /\ PortInit /\ (part # "ports" => <<info, disk>> = AnOpening)
    /\ BoxInit /\ inner.at = 0 /\ (part # "box" => inner.val = AValue)
    /\ Init /\ RecordInit
    /\ NumberInit /\ (part # "numbers" => acc = Complex(Fixed(2), Fixed(0)))

AllNext ==
    /\ \/ part = "threads" /\ Next /\ UNCHANGED <<portVars, boxVars, recordVars, numberVars>>
       \/ part = "ports" /\ PortNext /\ UNCHANGED <<vars, boxVars, recordVars, numberVars>>
       \/ part = "box" /\ BoxNext /\ UNCHANGED <<vars, portVars, recordVars, numberVars>>
       \/ part = "records" /\ RecordNext /\ UNCHANGED <<vars, portVars, boxVars, numberVars>>
       \/ part = "numbers" /\ NumberNext /\ UNCHANGED <<vars, portVars, boxVars, recordVars>>
    /\ UNCHANGED part

AllSpec == AllInit /\ [][AllNext]_<<part, vars, portVars, boxVars, recordVars, numberVars>>
=============================================================================
