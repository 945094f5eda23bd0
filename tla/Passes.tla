------------------------------- MODULE Passes -------------------------------
(***************************************************************************)
(* The analysis of a program: one pass per package, in the order of the    *)
(* imports, as the analysis framework runs them (pkg/analyzer/golintmu.go).*)
(* A pass reads the directives (phase 0), imports the facts of the         *)
(* packages it uses (phase 1.5, pkg/analyzer/facts.go), infers guards      *)
(* (phase 2), goes through the phases of Diagnose, reports exported        *)
(* guarded fields (phase 4.5) and exports its own facts (phase 5).         *)
(*                                                                         *)
(* What the walk of a package records (SsaWalk) is part of the input.      *)
(***************************************************************************)
EXTENDS Diagnose

CONSTANTS
    Programs,       \* the programs: sequences of packages, imported ones first
    Fields,         \* fieldKey: records of a struct type and a field index, as MutexKeys
    Exported        \* the exported functions, struct types and fields

Types == {k.type : k \in MutexKeys}

Observations == [field : Fields, fn : Funcs, pos : Nat, isRead : BOOLEAN, constructor : BOOLEAN,
                 held : SUBSET (Nat \X {"shared", "exclusive"})]

\* members: the functions and struct types of the package; imports: the packages it
\* imports directly; touched: the functions that the walk made an entry of funcFacts for.
Sources == [members : SUBSET (Funcs \cup Types), imports : SUBSET Nat, decls : Seq(Declarations), comments : SUBSET Directives,
            observations : SUBSET Observations, sites : Seq(Sites), touched : SUBSET Funcs, acquires : LockSets,
            serveHTTP : SUBSET Funcs, goTargets : SUBSET Funcs, handlers : SUBSET Funcs]

\* What the walk and the parser leave behind: accesses, calls and acquired locks are of the
\* package's own functions; the locks held at an access are mutexes of the field's struct; a
\* function that acquires a lock has an entry of funcFacts; a declaration ends after it begins.
Recorded(source) ==
    /\ IsFiniteSet(source.observations)
    /\ \A o \in source.observations :
         /\ o.fn \in source.members
         /\ IsFiniteSet(o.held) /\ \A h \in o.held : [type |-> o.field.type, index |-> h[1]] \in MutexKeys
    /\ \A cs \in CallSites(source) : cs.caller \in source.members
    /\ \A f \in Funcs : source.acquires[f] # {} => f \in source.touched \cap source.members
    /\ \A i \in DOMAIN source.decls : source.decls[i].line <= source.decls[i].last

\* An import is of an earlier package, so there are no cycles; a function or a type is
\* declared in one package, and no package calls a later one.
WellOrdered(p) ==
    \A i \in DOMAIN p :
      /\ Recorded(p[i]) /\ p[i].imports \subseteq 1..(i - 1)
      /\ \A j \in 1..(i - 1) : /\ p[j].members \cap p[i].members = {}
                              /\ \A cs \in CallSites(p[j]) : cs.callee \notin p[i].members

ASSUME PassesAssumption ==
    /\ IsFiniteSet(Funcs)
    /\ \A k \in MutexKeys : DOMAIN k = {"type", "index"} /\ k.index \in Nat
    /\ \A f \in Fields : f.type \in Types /\ f.index \in Nat
    /\ \A p \in Programs : p \in Seq(Sources) /\ p # <<>> /\ WellOrdered(p)

VARIABLES
    prog,           \* the program, never modified
    current,        \* the package under analysis
    guards,         \* the Go map: field -> guardInfo
    todo,           \* the fields that inferGuards must still visit
    guardFacts, funcFacts, concurrentFacts     \* the facts exported so far

factVars == <<guardFacts, funcFacts, concurrentFacts>>
svars == <<dvars, prog, current, guards, todo, factVars>>

Src == prog[current]
Own(x) == x \in Src.members

-----------------------------------------------------------------------------
(* Phases 0, 1.5: directives and imported facts. *)

\* mutexRefToKey: the struct type is looked up in this package and its direct imports.
Resolvable(source, mfk) == mfk.type \in source.members \cup UNION {prog[i].members : i \in source.imports}

Callees == {cs.callee : cs \in CallSites(Src)}
ImportedCallees == {f \in Callees : ~Own(f)}
ObservedFields == {o.field : o \in Src.observations}

\* importFieldGuardFacts: all guards of the types of other packages that are accessed.
ImportedGuards ==
    [f \in {g \in DOMAIN guardFacts : \E o \in ObservedFields : o.type = g.type /\ ~Own(g.type)} |-> guardFacts[f]]

\* importConcurrentFacts merges the imported entry points into the annotations.
ImportFacts ==
    /\ phase = "import"
    /\ LET parsed == parseAnnotations(Src.decls, Src.comments)
       IN  annotations' = [parsed EXCEPT !.concurrent = @ \cup (ImportedCallees \cap concurrentFacts)]
    /\ guards' = ImportedGuards
    /\ todo' = {f \in ObservedFields : Own(f.type)}
    /\ phase' = "infer"
    /\ UNCHANGED <<vars, entrypoints, queue, head, edge, reachable, fallback, diags, prog, current, factVars>>

-----------------------------------------------------------------------------
(* Phase 2. *)

ObservationsOf(field) == {o \in Src.observations : o.field = field}

\* One iteration of inferGuards.
InferGuard(field) ==
    /\ phase = "infer" /\ field \in todo
    /\ LET choices == GuardChoices(field.index, ObservationsOf(field))
       IN  IF choices = {} THEN UNCHANGED guards
           ELSE \E g \in choices : guards' = [f \in DOMAIN guards \cup {field} |-> IF f = field THEN g ELSE guards[f]]
    /\ todo' = todo \ {field}
    /\ UNCHANGED <<dvars, prog, current, factVars>>

-----------------------------------------------------------------------------
(* From the observations to the phases of Propagation and Diagnose. *)

GuardKey(field) == [type |-> field.type, index |-> guards[field].mutexFieldIndex]

ModeHeld(o) ==
    LET modes == {h[2] : h \in {x \in o.held : x[1] = guards[o.field].mutexFieldIndex}}
    IN  IF modes = {} THEN "free" ELSE CHOOSE m \in modes : TRUE

AccessOf(o) ==
    [fn |-> o.fn, pos |-> o.pos, guard |-> GuardKey(o.field), held |-> ModeHeld(o),
     isRead |-> o.isRead, constructor |-> o.constructor]

\* The locks of a fact of function f that this pass gets to know (importFuncLockFacts).
Known(f, kind) ==
    IF f \in ImportedCallees THEN {mfk \in funcFacts[f][kind] : Resolvable(Src, mfk)} ELSE {}

\* Mutant of HasFact: a fact without requirements makes no entry.
HasFactRequires(f) == funcFacts[f].requires # {}

\* ImportObjectFact found a fact: only facts with some lock are exported.
HasFact(f) == \E kind \in {"requires", "acquires", "acquiresTransitive"} : funcFacts[f][kind] # {}

PassInput ==
    [sites |-> Src.sites,
     accesses |-> {AccessOf(o) : o \in {x \in Src.observations : x.field \in DOMAIN guards}},
     known |-> Src.touched \cup {f \in ImportedCallees : HasFact(f)},
     requires |-> [f \in Funcs |-> Known(f, "requires")],
     acquires |-> [f \in Funcs |-> Src.acquires[f] \cup Known(f, "acquires")],
     acquiresTransitive |-> [f \in Funcs |-> Known(f, "acquiresTransitive")]]

detectConcurrentEntrypoints == Src.serveHTTP \cup Src.goTargets \cup Src.handlers \cup annotations.concurrent

\* inferGuards has returned: the state in which deriveInitialRequirements starts.
EndInference ==
    /\ phase = "infer" /\ todo = {}
    /\ phase' = "propagate"
    /\ pkg' = PassInput
    /\ pc' = "derive" /\ known' = PassInput.known
    /\ requires' = PassInput.requires /\ acquiresTransitive' = PassInput.acquiresTransitive
    /\ iteration' = 0 /\ changed' = FALSE /\ pending' = {} /\ visited' = {} /\ site' = 1 /\ truncated' = FALSE
    /\ entrypoints' = detectConcurrentEntrypoints
    /\ queue' = <<>> /\ head' = 1 /\ edge' = 1 /\ reachable' = {} /\ fallback' = FALSE /\ diags' = {}
    /\ UNCHANGED <<annotations, prog, current, guards, todo, factVars>>

Phases3And4 == DNext /\ UNCHANGED <<prog, current, guards, todo, factVars>>

-----------------------------------------------------------------------------
(* Phases 4.5 and 5. *)

CheckExportedGuardedFields ==
    /\ phase = "reported"
    /\ diags' = diags \cup
         {[kind |-> "exportedField", at |-> f, mutex |-> GuardKey(f)] :
            f \in {g \in DOMAIN guards : Own(g.type) /\ g \in Exported}}
    /\ phase' = "export"
    /\ UNCHANGED <<vars, contextVars, prog, current, guards, todo, factVars>>

\* exportFieldGuardFacts
ExportedGuards ==
    LET own == {f \in DOMAIN guards : Own(f.type) /\ f.type \in Exported}
    IN  [f \in DOMAIN guardFacts \cup own |-> IF f \in own THEN guards[f] ELSE guardFacts[f]]

\* Mutant of FuncFact: what the callees acquire is not exported.
FuncFactDirect(f) ==
    [requires |-> requires[f], acquires |-> pkg.acquires[f], acquiresTransitive |-> {}]

FuncFact(f) ==
    [requires |-> requires[f], acquires |-> pkg.acquires[f], acquiresTransitive |-> acquiresTransitive[f]]

ExportFacts ==
    /\ phase = "export"
    /\ guardFacts' = ExportedGuards
    /\ funcFacts' = [f \in Funcs |-> IF f \in known \cap Exported /\ Own(f) THEN FuncFact(f) ELSE funcFacts[f]]
    /\ concurrentFacts' = concurrentFacts \cup {f \in detectConcurrentEntrypoints \cap Exported : Own(f)}
    /\ IF current < Len(prog) THEN current' = current + 1 /\ phase' = "import"
       ELSE phase' = "end" /\ UNCHANGED current
    /\ UNCHANGED <<vars, contextVars, diags, prog, guards, todo>>

-----------------------------------------------------------------------------
NoLocks == [f \in Funcs |-> {}]
NoFacts == [f \in Funcs |-> [requires |-> {}, acquires |-> {}, acquiresTransitive |-> {}]]
EmptyPackage == [sites |-> <<>>, accesses |-> {}, known |-> {}, requires |-> NoLocks,
                 acquires |-> NoLocks, acquiresTransitive |-> NoLocks]

SInit ==
    /\ prog \in Programs /\ current = 1
    /\ phase = "import"
    /\ guards = <<>> /\ todo = {}
    /\ guardFacts = <<>> /\ funcFacts = NoFacts /\ concurrentFacts = {}
    /\ pkg = EmptyPackage /\ pc = "derive" /\ known = {} /\ requires = NoLocks /\ acquiresTransitive = NoLocks
    /\ iteration = 0 /\ changed = FALSE /\ pending = {} /\ visited = {} /\ site = 1 /\ truncated = FALSE
    /\ annotations = [concurrent |-> {}, ignored |-> {}, nolint |-> {}]
    /\ entrypoints = {} /\ queue = <<>> /\ head = 1 /\ edge = 1 /\ reachable = {} /\ fallback = FALSE
    /\ diags = {}

SNext ==
    \/ ImportFacts \/ (\E field \in Fields : InferGuard(field)) \/ EndInference
    \/ Phases3And4 \/ CheckExportedGuardedFields \/ ExportFacts

SSpec == SInit /\ [][SNext]_svars

\* The passes of one program are a sequential computation.
SFairSpec == SSpec /\ WF_svars(SNext)

-----------------------------------------------------------------------------
\* Type invariant of a pass.  That pkg is one of Inputs is what Propagation assumes of
\* its input: a function without an entry in funcFacts has no locks.
STypeOK ==
    /\ TypeOK
    /\ phase \in {"import", "infer", "propagate", "search", "violations", "calls", "reported", "export", "end"}
    /\ current \in DOMAIN prog
    /\ todo \subseteq Fields /\ DOMAIN guards \subseteq Fields /\ DOMAIN guardFacts \subseteq Fields
    /\ queue \in Seq(Funcs) /\ head \in 1..(Len(queue) + 1) /\ edge \in 1..(Len(pkg.sites) + 1)

Inferred == phase \notin {"import", "infer"}

\* Phase 2: the guard of a field is the mutex that prevails at its accesses outside
\* constructors, whatever order the map of counts is visited in; a field has none only
\* if it is not written there or no access to it holds a lock.
GuardsDetermined ==
    Inferred =>
      \A f \in ObservedFields : Own(f.type) =>
        LET obs == NonConstructor(ObservationsOf(f))
        IN  IF f \in DOMAIN guards
              THEN (\E o \in obs : ~o.isRead) /\ Prevails(f.index, obs, guards[f].mutexFieldIndex)
              ELSE (\A o \in obs : o.isRead) \/ Counted(f.index, obs, FALSE) = {}

\* The guard that the home package of the field's type, package i, finds for it.
HomeGuard(i, f) == GuardChoices(f.index, {o \in prog[i].observations : o.field = f})

\* The locks that f, of package i, accesses a field without, where the guard is known:
\* in the type's own package, or through the fact of an exported type.
DirectIn(i, f) ==
    {mfk \in MutexKeys :
       \E o \in prog[i].observations : \E j \in 1..i : \E g \in HomeGuard(j, o.field) :
         /\ o.fn = f /\ ~o.constructor
         /\ o.field.type \in prog[j].members /\ (i = j \/ o.field.type \in Exported)
         /\ mfk = [type |-> o.field.type, index |-> g.mutexFieldIndex]
         /\ ~HoldsMutex(o, g.mutexFieldIndex)}

\* A fact about the callee of a call in package i reaches that package.
Passes(i, cs, mfk) ==
    cs.callee \in prog[i].members \/ (cs.callee \in Exported /\ Resolvable(prog[i], mfk))

\* S has the functions of the packages analysed so far that require mfk, or acquire it,
\* by themselves, and their callers, but for calls where a package cannot name the lock.
ClosedForRequires(mfk, S) ==
    \A i \in 1..current :
      /\ \A f \in Funcs : mfk \in DirectIn(i, f) => f \in S
      /\ \A cs \in CallSites(prog[i]) :
           (cs.callee \in S /\ mfk \in PassedOn(cs, {mfk}) /\ Passes(i, cs, mfk)) => cs.caller \in S
ClosedForAcquires(mfk, S) ==
    \A i \in 1..current :
      /\ \A f \in Funcs : mfk \in prog[i].acquires[f] => f \in S
      /\ \A cs \in CallSites(prog[i]) : (cs.callee \in S /\ Passes(i, cs, mfk)) => cs.caller \in S

\* Analysing one package at a time loses and adds nothing: the facts that a pass imports
\* give it, for its functions, what one propagation over all packages would.
ModularExact ==
    phase = "export" =>
      \A mfk \in MutexKeys :
        LET needing   == {S \in SUBSET Funcs : ClosedForRequires(mfk, S)}
            acquiring == {S \in SUBSET Funcs : ClosedForAcquires(mfk, S)}
        IN  \A f \in Funcs : Own(f) =>
              /\ mfk \in requires[f] <=> \A S \in needing : f \in S
              /\ mfk \in acquiresTransitive[f] <=> \A S \in acquiring : f \in S

\* A directive silences line `line' of function f: mu:nolint on the line above, or
\* mu:ignore above f or within it.
Silenced(f, line) ==
    \E c \in Src.comments :
      \/ c.kind = "nolint" /\ c.line + 1 = line
      \/ c.kind = "ignore" /\ \E i \in DOMAIN Src.decls :
           Src.decls[i].fn = f /\ c.line \in (Src.decls[i].line - 1)..Src.decls[i].last

\* What suppressing a violation in favour of the call sites relies on: a concurrent
\* function without callers that gets, without the lock, to an unguarded access or to
\* an imported function that requires the lock is told so, at the access or at each of
\* its own calls on the way, unless a directive says not to.
RootsToldOfAccess ==
    phase = "reported" =>
      \A g \in {f \in Funcs : Own(f) /\ isConcurrent(f) /\ ~hasCallers(f)} :
        /\ \A a \in Unguarded : a.fn = g =>
             [kind |-> "unguardedAccess", at |-> a, mutex |-> a.guard] \in diags \/ Silenced(g, a.pos)
        /\ \A need \in {<<a.fn, a.guard>> : a \in Unguarded} \cup {n \in Funcs \X MutexKeys : n[2] \in pkg.requires[n[1]]} :
             \A cs \in CallSites(pkg) :
               (/\ cs.caller = g /\ need[2] \notin cs.held /\ ~cs.prePublication
                /\ ReachesWithout(cs.callee, need[1], need[2])) =>
                   [kind |-> "missingLock", at |-> cs, mutex |-> need[2]] \in diags \/ Silenced(g, cs.pos)

\* The analysis of every program ends, recursion among its functions or not.
AnalysisEnds == <>(phase = "end")
=============================================================================
