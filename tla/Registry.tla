------------------------------ MODULE Registry ------------------------------
(***************************************************************************)
(* The library registry of scheme-rs (src/src/registry.rs and               *)
(* TopLevelEnvironment::from_spec_with_scope of src/src/env.rs): loading a  *)
(* library loads its imports first, depth first, under the write lock of    *)
(* the registry, and records every import in dep_graph so that an import    *)
(* that would close a cycle is refused before it is followed.  A library is *)
(* the name it declares and the libraries it imports or re-exports; the     *)
(* names it binds are left out, and so is the order of its import forms:    *)
(* any order.  A file is found under the name that is asked for, and nothing *)
(* compares that name with the one the file declares.                       *)
(***************************************************************************)
EXTENDS Naturals, Sequences

CONSTANTS
    Lib,        \* names of libraries
    None,       \* no library
    Bridges,    \* the libraries for which there are procedures written in Rust
    Disks,      \* the files there may be when the program starts
    Changes,    \* <<l, s>>: the file of l may become s
    MaxEdits,   \* bound: changes of source files while the program runs
    MaxDepth    \* bound: files that are being loaded at once (the stack ends)

\* A file is not there, cannot be parsed, or declares the name of a library and
\* the libraries it imports.
Sources == [file : {"missing", "malformed"}, name : {None}, imports : {{}}]
             \union [file : {"library"}, name : Lib, imports : SUBSET Lib]
ASSUME RegistryAssumption ==
    /\ None \notin Lib
    /\ Bridges \subseteq Lib
    /\ Disks \subseteq [Lib -> Sources]
    /\ Changes \subseteq Lib \X Sources
    /\ MaxEdits \in Nat /\ MaxDepth \in Nat

VARIABLES
    source,     \* the file (or embedded text) that is found under each name
    status,     \* libs: "absent", "bridges" (defined by Rust procedures only),
                \* "native" (such a library, imported) or "file" (loaded)
    declared,   \* TopLevelEnvironment.kind: the name that it declares itself
    imports,    \* TopLevelEnvironment.imports: the libraries a loaded one uses
    depGraph,   \* RegistryInner.dep_graph, by the names that are declared
    wanted,     \* the library load_lib is being called for, or None
    loading,    \* the calls of from_spec_with_scope in progress, outermost first
    defined,    \* libraries def_lib has parsed and not yet inserted
    edits       \* how often a source file has changed

vars == <<source, status, declared, imports, depGraph, wanted, loading, defined, edits>>

Parses(l) == source[l].file = "library"

\* A call of from_spec_with_scope: the library it was asked for and the name that
\* its text declares, the imports that are left and those that are there.
Frame == [lib : Lib, name : Lib, todo : SUBSET Lib, done : SUBSET Lib, byDefLib : BOOLEAN]
Loaded == {l \in Lib : status[l] \in {"native", "file"}}

\* The write lock of the registry is free.
Unlocked == wanted = None /\ loading = <<>>

Top == loading[Len(loading)]
Below == SubSeq(loading, 1, Len(loading) - 1)

\* from_spec_with_scope for the text s, which was asked for under the name l.
Frame0(l, s, d) == [lib |-> l, name |-> s.name, todo |-> s.imports, done |-> {}, byDefLib |-> d]

\* Mutant of Reaches: only direct dependencies are looked at.
Reaches_Direct(a, b) == a = b \/ <<a, b>> \in depGraph

\* Mutant of Reaches: the question is asked the other way round.
Reaches_Reversed(a, b) ==
    \A S \in SUBSET Lib :
        (b \in S /\ \A e \in depGraph : e[1] \in S => e[2] \in S) => a \in S

\* reaches: b is in every set that holds a and the dependencies of its members.
Reaches(a, b) ==
    \A S \in SUBSET Lib :
        (a \in S /\ \A e \in depGraph : e[1] \in S => e[2] \in S) => b \in S

TypeOK ==
    /\ source \in [Lib -> Sources]
    /\ status \in [Lib -> {"absent", "bridges", "native", "file"}]
    /\ declared \in [Lib -> Lib]
    /\ imports \in [Lib -> SUBSET Lib]
    /\ depGraph \subseteq Lib \X Lib
    /\ wanted \in Lib \union {None}
    /\ loading \in Seq(Frame)
    /\ \A n \in DOMAIN loading : loading[n].todo \cap loading[n].done = {}
    /\ defined \subseteq [lib : Lib, imports : SUBSET Lib]
    /\ edits \in 0 .. MaxEdits

Init ==
    /\ source \in Disks
    /\ status = [l \in Lib |-> IF l \in Bridges THEN "bridges" ELSE "absent"]
    /\ declared = [l \in Lib |-> l]
    /\ imports = [l \in Lib |-> {}]
    /\ depGraph = {}
    /\ wanted = None
    /\ loading = <<>>
    /\ defined = {}
    /\ edits = 0

----------------------------------------------------------------------------
(* A program imports a library: RegistryInner::import, load_lib.            *)

Import(l) ==
    /\ Unlocked
    /\ wanted' = l
    /\ UNCHANGED <<source, status, declared, imports, depGraph, loading, defined, edits>>

\* The library was loaded before: its environment is returned.
LoadKnown ==
    /\ wanted \in Loaded
    /\ wanted' = None
    /\ UNCHANGED <<source, status, declared, imports, depGraph, loading, defined, edits>>

\* The file is found and parsed, whatever name it declares, and its imports are
\* loaded.
LoadFile ==
    /\ wanted \in Lib \ Loaded
    /\ Parses(wanted)
    /\ Len(loading) < MaxDepth
    /\ loading' = Append(loading, Frame0(wanted, source[wanted], FALSE))
    /\ wanted' = None
    /\ UNCHANGED <<source, status, declared, imports, depGraph, defined, edits>>

\* No file, only procedures written in Rust: the library is ready as it is.
LoadBridges ==
    /\ wanted \in Lib
    /\ status[wanted] = "bridges" /\ source[wanted].file = "missing"
    /\ status' = [status EXCEPT ![wanted] = "native"]
    /\ wanted' = None
    /\ UNCHANGED <<source, declared, imports, depGraph, loading, defined, edits>>

\* Mutant of Abandon: only the innermost call fails.
Abandon_Innermost ==
    /\ wanted' = None
    /\ loading' = IF wanted = None THEN Below ELSE loading
    /\ UNCHANGED <<source, status, declared, imports, depGraph, defined, edits>>

\* An error leaves every call in progress with `?`.  What dep_graph has
\* recorded stays.
Abandon ==
    /\ wanted' = None
    /\ loading' = <<>>
    /\ UNCHANGED <<source, status, declared, imports, depGraph, defined, edits>>

NotFound ==
    /\ wanted \in Lib
    /\ \/ status[wanted] = "absent" /\ source[wanted].file = "missing"
       \/ wanted \notin Loaded /\ source[wanted].file = "malformed"
    /\ Abandon

----------------------------------------------------------------------------
(* The imports of a library that is being loaded: from_spec_with_scope.     *)

\* Mutant of FollowImport: the edge is not recorded.
FollowImport_Unrecorded(i) ==
    /\ wanted = None /\ loading # <<>>
    /\ i \in Top.todo
    /\ ~Reaches(i, Top.name)
    /\ loading' = Append(Below, [Top EXCEPT !.todo = @ \ {i},
                                            !.done = @ \union {i}])
    /\ wanted' = i
    /\ UNCHANGED <<source, status, declared, imports, depGraph, defined, edits>>

\* check_for_circular_dependencies with the declared name, then the import.
FollowImport(i) ==
    /\ wanted = None /\ loading # <<>>
    /\ i \in Top.todo
    /\ ~Reaches(i, Top.name)
    /\ depGraph' = depGraph \union {<<Top.name, i>>}
    /\ loading' = Append(Below, [Top EXCEPT !.todo = @ \ {i},
                                            !.done = @ \union {i}])
    /\ wanted' = i
    /\ UNCHANGED <<source, status, declared, imports, defined, edits>>

RefuseCycle(i) ==
    /\ wanted = None /\ loading # <<>>
    /\ i \in Top.todo
    /\ Reaches(i, Top.name)
    /\ Abandon

\* The import was loaded, but its version is not the one asked for, or it
\* binds a name that another import binds.
RefuseBindings ==
    /\ wanted = None /\ loading # <<>>
    /\ Top.done # {}
    /\ Abandon

\* Every import is there: load_lib inserts the environment into libs, under the
\* name it was asked for.
InsertLibrary ==
    /\ wanted = None /\ loading # <<>>
    /\ Top.todo = {} /\ ~Top.byDefLib
    /\ status' = [status EXCEPT ![Top.lib] = "file"]
    /\ declared' = [declared EXCEPT ![Top.lib] = Top.name]
    /\ imports' = [imports EXCEPT ![Top.lib] = Top.done]
    /\ loading' = Below
    /\ UNCHANGED <<source, depGraph, wanted, defined, edits>>

----------------------------------------------------------------------------
(* Registry::def_lib: a library given as text (that of some file).  The     *)
(* lock is taken for its imports, released, and taken again to insert it    *)
(* under the name that it declares.                                         *)

DefineLibrary(l) ==
    /\ Unlocked
    /\ Parses(l)
    /\ loading' = <<Frame0(source[l].name, source[l], TRUE)>>
    /\ UNCHANGED <<source, status, declared, imports, depGraph, wanted, defined, edits>>

DefinitionParsed ==
    /\ wanted = None /\ loading # <<>>
    /\ Top.todo = {} /\ Top.byDefLib
    /\ defined' = defined \union {[lib |-> Top.lib, imports |-> Top.done]}
    /\ loading' = Below
    /\ UNCHANGED <<source, status, declared, imports, depGraph, wanted, edits>>

\* The insertion replaces whatever libs holds under that name.
InsertDefined(d) ==
    /\ Unlocked
    /\ status' = [status EXCEPT ![d.lib] = "file"]
    /\ declared' = [declared EXCEPT ![d.lib] = d.lib]
    /\ imports' = [imports EXCEPT ![d.lib] = d.imports]
    /\ defined' = defined \ {d}
    /\ UNCHANGED <<source, depGraph, wanted, loading, edits>>

\* A file is written, changed or removed.
Edit(l, s) ==
    /\ Unlocked /\ edits < MaxEdits
    /\ source' = [source EXCEPT ![l] = s]
    /\ edits' = edits + 1
    /\ UNCHANGED <<status, declared, imports, depGraph, wanted, loading, defined>>

----------------------------------------------------------------------------

\* The steps of a call that holds the lock.
Proceed ==
    \/ LoadKnown \/ LoadFile \/ LoadBridges \/ NotFound
    \/ \E i \in Lib : FollowImport(i) \/ RefuseCycle(i)
    \/ RefuseBindings \/ InsertLibrary \/ DefinitionParsed

Next ==
    \/ Proceed
    \/ \E l \in Lib : Import(l) \/ DefineLibrary(l)
    \/ \E d \in defined : InsertDefined(d)
    \/ \E c \in Changes : Edit(c[1], c[2])

Spec == Init /\ [][Next]_vars

----------------------------------------------------------------------------
(* Properties.                                                              *)

\* dep_graph has no cycle: every set of libraries holds one that imports no
\* library of the set.
Acyclic ==
    \A S \in SUBSET Lib :
        S # {} => \E x \in S : \A y \in S : <<x, y>> \notin depGraph

\* The file of the n-th call in progress declares another name than it was asked for.
Misnamed(n) == loading[n].name # loading[n].lib

\* The recursion of load_lib and from_spec_with_scope ends, unless files are
\* misnamed: between a library and the same one further up the recursion there is
\* a file that declares another name, even when files have changed, def_lib has
\* given other texts or earlier imports have failed.
ReentersByMisnamed ==
    \A i \in DOMAIN loading :
        /\ \A j \in DOMAIN loading :
              i < j /\ loading[i].lib = loading[j].lib => \E n \in i .. (j - 1) : Misnamed(n)
        /\ loading[i].lib = wanted => \E n \in i .. Len(loading) : Misnamed(n)

\* A library in libs finds everything it imports in libs, and dep_graph knows of
\* each of these imports under the name the library declares: no sequence of
\* failed loads leaves a library whose imports were never loaded.
OriginsLoaded ==
    \A l \in Lib :
        status[l] = "file" =>
            \A m \in imports[l] : m \in Loaded /\ <<declared[l], m>> \in depGraph

\* Some text that declares library x imports m.
TextImports(x, m) == \E l \in Lib : Parses(l) /\ source[l].name = x /\ m \in source[l].imports

\* Unless files change, an import is refused as circular only if the texts, taken
\* by the names that they declare, form a cycle: what failed imports have left in
\* dep_graph never refuses a program that is free of cycles.
CycleIsReal ==
    [][ \A i \in Lib :
          edits = 0 /\ RefuseCycle(i) =>
            \E S \in SUBSET Lib :
                /\ S # {}
                /\ \A x \in S : \E m \in S : TextImports(x, m) ]_vars
=============================================================================
