------------------------------ MODULE Records -------------------------------
(***************************************************************************)
(* Record types and records (records.rs). A type has its own fields, behind    *)
(* those of its parents. A record has its fields inline, a mutable one in a cell  *)
(* of its own; the fields of types that are written in Rust are inside a Rust     *)
(* value behind them, and a type that inherits from such a type embeds its value.*)
(***************************************************************************)
EXTENDS Naturals, Sequences, FiniteSets, SequencesExt, Functions

CONSTANTS
    Definers,     \* threads that define types
    RustTypes,    \* the types made by rtd!, a sequence of types
    Shapes,       \* the fields a program gives its types: sequences of BOOLEAN, TRUE for mutable
    Uids, NoUid,
    MaxTypes, MaxRecords,
    NoType, NotDefining

\* A record type; rust is the Rust type whose value a record of the type embeds, or NoType; since
\* (history) is the number of types there were when its definition found that its uid has none.
Definition ==
    [parent : Nat \cup {NoType}, fields : Seq(BOOLEAN), rust : Nat \cup {NoType}, uid : Uids \cup {NoUid},
     since : Nat]

ASSUME RecordsAssumption ==
    /\ NoType \notin Nat /\ NoUid \notin Uids /\ NotDefining \notin Definition
    /\ RustTypes \in Seq(Definition) /\ Shapes \subseteq Seq(BOOLEAN)
    /\ \A T \in DOMAIN RustTypes : RustTypes[T].rust = T /\ RustTypes[T].parent \in {NoType} \cup 1..(T - 1)

VARIABLES
    types,          \* the types made so far: [parent, fields, rust, uid, since]
    nongenerative,  \* nongenerative[u]: the type stored for the uid u, or NoType
    defining,       \* defining[d]: the definition that d has looked up in vain, or NotDefining
    made,           \* the pairs <<uid, type>> that make-record-type-descriptor has returned
    records,        \* the records made so far: [rtd, slots, inside]
    given           \* given[r]: what the program has put into each field of the record r

recordVars == <<types, nongenerative, defining, made, records, given>>

-----------------------------------------------------------------------------
(* Types. *)

Parent(T) == types[T].parent
Own(T) == Len(types[T].fields)

\* inherits, with T itself behind it: the root of the hierarchy first.
Lineage[T \in DOMAIN types] ==
    IF Parent(T) = NoType THEN <<T>> ELSE Append(Lineage[Parent(T)], T)

NumInherited[T \in DOMAIN types] ==
    IF Parent(T) = NoType THEN 0 ELSE NumInherited[Parent(T)] + Own(Parent(T))
NumFields(T) == Own(T) + NumInherited[T]
IsSubtype(T, U) == U \in ToSet(Lineage[T])

\* The first fields of a record are embedded, as many as the Rust type has.
NumEmbedded(T) == IF types[T].rust = NoType THEN 0 ELSE NumFields(types[T].rust)

Mutability(T) == FlattenSeq([i \in DOMAIN Lineage[T] |-> types[Lineage[T][i]].fields])

-----------------------------------------------------------------------------
(* Constructors. *)

\* The constructor of the default protocols: T's own arguments are behind those of its parent,
\* which are handed to the constructor of the parent. One list for each type of the lineage, or
\* none, since split_list refuses a list that is too short.
Split[T \in DOMAIN types] ==
    [args \in Seq(Nat \X Nat) |->
        IF Parent(T) = NoType THEN <<args>>
        ELSE IF Len(args) < NumFields(Parent(T)) THEN <<>>
        ELSE Append(Split[Parent(T)][SubSeq(args, 1, NumFields(Parent(T)))],
                    SubSeq(args, NumFields(Parent(T)) + 1, Len(args)))]

\* Each constructor of the chain takes as many arguments as its type has fields.
Arities(T, lists) ==
    Len(lists) = Len(Lineage[T]) /\ \A i \in DOMAIN Lineage[T] : Len(lists[i]) = Own(Lineage[T][i])

\* Mutant of MakeRecord: whether a field gets a cell is looked up without leaving out the embedded ones.
MakeRecord_Unskipped(T, lists) ==
    LET collected == FlattenSeq(lists)
        e == NumEmbedded(T)
        inline == SubSeq(collected, e + 1, Len(collected))
    IN [rtd |-> T, inside |-> SubSeq(collected, 1, e),
        slots |-> [i \in DOMAIN inline |-> [cell |-> Mutability(T)[i], val |-> inline[i]]]]

\* chain_constructors collects the arguments of all types, constructor lays them out.
MakeRecord(T, lists) ==
    LET collected == FlattenSeq(lists)
        e == NumEmbedded(T)
        inline == SubSeq(collected, e + 1, Len(collected))
    IN [rtd |-> T, inside |-> SubSeq(collected, 1, e),
        slots |-> [i \in DOMAIN inline |-> [cell |-> Mutability(T)[e + i], val |-> inline[i]]]]

-----------------------------------------------------------------------------
(* Accessors and mutators of the field i (from 1) of the type T, on a record of a subtype. *)

\* The value of the Rust type U within a record: its own fields are behind those of its Rust parents.
InRust(U, i) == NumInherited[U] + i

\* Where the field is: in a slot, or in the Rust value, as a field of the record's Rust type or of the
\* parent of it that parent_record finds.
Place(rec, T, i) ==
    LET at == NumInherited[T] + i
        e == NumEmbedded(rec.rtd)
    IN IF at <= e
       THEN <<"inside", InRust(IF types[T].rust = types[rec.rtd].rust THEN types[rec.rtd].rust ELSE T, i)>>
       ELSE <<"slot", at - e>>

Access(rec, T, i) ==
    LET p == Place(rec, T, i)
    IN IF p[1] = "inside" THEN rec.inside[p[2]] ELSE rec.slots[p[2]].val

\* A mutator needs a cell, or a Rust type that has a setter.
MayMutate(rec, T, i) ==
    LET p == Place(rec, T, i)
    IN p[1] = "slot" => rec.slots[p[2]].cell

-----------------------------------------------------------------------------
RecordInit ==
    /\ types = RustTypes
    /\ nongenerative = [u \in Uids |-> NoType]
    /\ defining = [d \in Definers |-> NotDefining]
    /\ made = {}
    /\ records = <<>>
    /\ given = <<>>

\* make-record-type-descriptor of a uid that is in the store.
FindType(d, u) ==
    /\ defining[d] = NotDefining
    /\ u # NoUid /\ nongenerative[u] # NoType
    /\ made' = made \cup {<<u, nongenerative[u]>>}
    /\ UNCHANGED <<types, nongenerative, defining, records, given>>

\* The store is unlocked again after the uid was not found: other threads may look it up meanwhile.
BeginType(d, parent, fields, u) ==
    /\ defining[d] = NotDefining /\ Len(types) < MaxTypes
    /\ u # NoUid => nongenerative[u] = NoType
    /\ defining' = [defining EXCEPT ![d] =
          [parent |-> parent, fields |-> fields, uid |-> u, since |-> Len(types),
           rust |-> IF parent = NoType THEN NoType ELSE types[parent].rust]]
    /\ UNCHANGED <<types, nongenerative, made, records, given>>

\* Mutant of EndType: a new type for a uid is not stored.
EndType_Unstored(d) ==
    /\ defining[d] # NotDefining /\ Len(types) < MaxTypes
    /\ types' = Append(types, defining[d])
    /\ made' = IF defining[d].uid = NoUid THEN made ELSE made \cup {<<defining[d].uid, Len(types) + 1>>}
    /\ defining' = [defining EXCEPT ![d] = NotDefining]
    /\ UNCHANGED <<nongenerative, records, given>>

EndType(d) ==
    /\ defining[d] # NotDefining /\ Len(types) < MaxTypes
    /\ types' = Append(types, defining[d])
    /\ IF defining[d].uid = NoUid THEN UNCHANGED <<nongenerative, made>>
       ELSE /\ nongenerative' = [nongenerative EXCEPT ![defining[d].uid] = Len(types) + 1]
            /\ made' = made \cup {<<defining[d].uid, Len(types) + 1>>}
    /\ defining' = [defining EXCEPT ![d] = NotDefining]
    /\ UNCHANGED <<records, given>>

\* The program gives every field a value of its own, here its name <<type, index>>, either to one
\* constructor with default protocols, or to its own protocols type by type.
NamesOf(T) == [i \in 1..Own(T) |-> <<T, i>>]
AllNames(T) == FlattenSeq([i \in DOMAIN Lineage[T] |-> NamesOf(Lineage[T][i])])

Construct(T, byDefault) ==
    /\ Len(records) < MaxRecords
    /\ LET lists == IF byDefault THEN Split[T][AllNames(T)]
                    ELSE [i \in DOMAIN Lineage[T] |-> NamesOf(Lineage[T][i])]
       IN /\ Arities(T, lists)
          /\ records' = Append(records, MakeRecord(T, lists))
    /\ given' = Append(given, [f \in ToSet(AllNames(T)) |-> f])
    /\ UNCHANGED <<types, nongenerative, defining, made>>

\* record-mutator refuses immutable fields; the new value is the field's name, marked.
Mutate(r, T, i) ==
    /\ IsSubtype(records[r].rtd, T) /\ types[T].fields[i]
    /\ MayMutate(records[r], T, i)
    /\ LET p == Place(records[r], T, i)
           new == <<T, i, "new">>
       IN records' = IF p[1] = "inside" THEN [records EXCEPT ![r].inside[p[2]] = new]
                     ELSE [records EXCEPT ![r].slots[p[2]].val = new]
    /\ given' = [given EXCEPT ![r][<<T, i>>] = <<T, i, "new">>]
    /\ UNCHANGED <<types, nongenerative, defining, made>>

RecordNext ==
    \/ \E d \in Definers :
          \/ \E u \in Uids : FindType(d, u)
          \/ \E parent \in DOMAIN types \cup {NoType}, fields \in Shapes, u \in Uids \cup {NoUid} :
                BeginType(d, parent, fields, u)
          \/ EndType(d)
    \/ \E T \in DOMAIN types, byDefault \in BOOLEAN : Construct(T, byDefault)
    \/ \E r \in DOMAIN records : \E T \in DOMAIN types : \E i \in DOMAIN types[T].fields : Mutate(r, T, i)

RecordSpec == RecordInit /\ [][RecordNext]_recordVars

-----------------------------------------------------------------------------
\* Whatever a type inherits, from Scheme or from Rust, each accessor reads the field of its own name and
\* index in every record of a subtype, as the constructors of all protocols and the mutators left it, and
\* exactly the mutable fields can be mutated (constructor, record_accessor_fn, record_mutator_fn).
FieldsKept ==
    \A r \in DOMAIN records : LET T == records[r].rtd IN
        \A U \in ToSet(Lineage[T]) : \A i \in 1..Own(U) :
            /\ Access(records[r], U, i) = given[r][<<U, i>>]
            /\ types[U].fields[i] => MayMutate(records[r], U, i)
            /\ Place(records[r], U, i)[1] = "slot" =>
                  records[r].slots[Place(records[r], U, i)[2]].cell = types[U].fields[i]

\* Two definitions of one uid return different types only if they overlapped: the later type was begun
\* before the earlier one was made. One that begins when another has returned returns a type that is there,
\* in whichever order overlapping ones have replaced each other in the store (make_record_type_descriptor,
\* NONGENERATIVE).
OneTypePerUid == \A m, n \in made : m[1] = n[1] /\ m[2] < n[2] => types[n[2]].since < m[2]
=============================================================================
