----------------------------- MODULE LockOrder -----------------------------
(***************************************************************************)
(* Phase 3.7 of an analyzer pass: the lock-order graph, the search for its *)
(* cycles (pkg/analyzer/lockorder.go) and their reports                    *)
(* (detectAndReportLockOrderCycles in pkg/analyzer/reporter.go).           *)
(*                                                                         *)
(* dfs is recursive: its activations are the frames of `stack'.  sort.Slice*)
(* leaves equal names in any order, so a sorted slice that is still to be  *)
(* ranged over is the set of its elements, the next one being any with the *)
(* least name.  extractCycle's loop is a loop of the model.                *)
(***************************************************************************)
EXTENDS Integers, Sequences

CONSTANTS
    MutexKeys,    \* mutexFieldKey
    Funcs,
    Positions,
    Suppressed,   \* <<function, position>> pairs isSuppressed accepts
    Packages      \* the packages to analyse

\* lockOrderEdge
Edges == [from : MutexKeys, to : MutexKeys, fn : Funcs, pos : Positions]

\* A call site with the keys that its caller holds and its callee acquires.
Calls == [caller : Funcs, pos : Positions, held : SUBSET MutexKeys, acquired : SUBSET MutexKeys]

\* walked: the edges that checkAndRecordLockAcquire adds, in the order it does.
\* name: mutexFieldKeyName, without the package, as a rank in the order of strings.
Inputs == [walked : Seq(Edges), calls : Seq(Calls), concurrent : SUBSET Funcs,
           name : [MutexKeys -> Nat]]

ASSUME LockOrderAssumption == Packages \subseteq Inputs

VARIABLES
    pkg,          \* the input, never modified
    pc,           \* "walk", "calls", "search", "extract", "done"
    next,         \* the next edge or call site to add
    edges,        \* lockOrderGraph
    color, parent, roots, stack, cycles,       \* detectCycles
    backEdge, cycle, current, visited,         \* extractCycle
    reports       \* the cycles reportLockOrderCycle prints

graphVars == <<pkg, next, edges>>
searchVars == <<color, parent, roots, stack, cycles>>
extractVars == <<backEdge, cycle, current, visited>>
vars == <<pc, graphVars, searchVars, extractVars, reports>>

-----------------------------------------------------------------------------
Name(k) == pkg.name[k]

(* The graph. *)

\* addEdge: the first edge of each (From, To, Fn) stays.
addEdge(es, e) ==
    IF \E d \in es : d.from = e.from /\ d.to = e.to /\ d.fn = e.fn THEN es ELSE es \cup {e}

\* An acquisition under another lock, met by the walk.
RecordAcquisition ==
    /\ pc = "walk" /\ next <= Len(pkg.walked)
    /\ edges' = addEdge(edges, pkg.walked[next])
    /\ next' = next + 1
    /\ UNCHANGED <<pc, pkg, searchVars, extractVars, reports>>

EndWalk ==
    /\ pc = "walk" /\ next > Len(pkg.walked)
    /\ pc' = "calls" /\ next' = 1
    /\ UNCHANGED <<pkg, edges, searchVars, extractVars, reports>>

\* collectInterproceduralLockOrderEdges, for one call site: its edges differ in From
\* or in To, so the order of the two map ranges is of no consequence.
CallEdges(cs) ==
    {[from |-> h, to |-> a, fn |-> cs.caller, pos |-> cs.pos] : h \in cs.held, a \in cs.acquired}

CollectCallSite ==
    /\ pc = "calls" /\ next <= Len(pkg.calls)
    /\ edges' = edges \cup {e \in CallEdges(pkg.calls[next]) : e.from # e.to /\ e \in addEdge(edges, e)}
    /\ next' = next + 1
    /\ UNCHANGED <<pc, pkg, searchVars, extractVars, reports>>

-----------------------------------------------------------------------------
(* detectCycles *)

Nodes == {e.from : e \in edges} \cup {e.to : e \in edges}

\* The members of S that a range over S sorted by name may come to first.
FirstByName(S) == {k \in S : \A l \in S : Name(k) <= Name(l)}
FirstEdges(S) == {e \in S : e.to \in FirstByName({d.to : d \in S})}

Frame(n) == [node |-> n, todo |-> {e \in edges : e.from = n}]
Top == stack[Len(stack)]
\* The stack once the running activation of dfs has taken edge e.
Taken(e) == [stack EXCEPT ![Len(stack)].todo = @ \ {e}]

StartSearch ==
    /\ pc = "calls" /\ next > Len(pkg.calls)
    /\ pc' = "search"
    /\ roots' = Nodes
    /\ UNCHANGED <<graphVars, color, parent, stack, cycles, extractVars, reports>>

\* Mutant of StartRoot: only the nodes reachable from the first one are searched.
StartRootOnce(n) ==
    /\ pc = "search" /\ stack = <<>>
    /\ n \in FirstByName(roots)
    /\ roots' = {}
    /\ color[n] = "white"
    /\ color' = [color EXCEPT ![n] = "gray"]
    /\ stack' = <<Frame(n)>>
    /\ UNCHANGED <<pc, graphVars, parent, cycles, extractVars, reports>>

StartRoot(n) ==
    /\ pc = "search" /\ stack = <<>>
    /\ n \in FirstByName(roots)
    /\ roots' = roots \ {n}
    /\ color[n] = "white"
    /\ color' = [color EXCEPT ![n] = "gray"]
    /\ stack' = <<Frame(n)>>
    /\ UNCHANGED <<pc, graphVars, parent, cycles, extractVars, reports>>

SkipRoot(n) ==
    /\ pc = "search" /\ stack = <<>>
    /\ n \in FirstByName(roots)
    /\ roots' = roots \ {n}
    /\ color[n] # "white"
    /\ UNCHANGED <<pc, graphVars, color, parent, stack, cycles, extractVars, reports>>

\* The running activation of dfs comes to edge e.
Takes(e) == pc = "search" /\ stack # <<>> /\ e \in FirstEdges(Top.todo)

\* Mutant of Descend: the edge is not kept as parent.
DescendNoParent(e) ==
    /\ Takes(e) /\ color[e.to] = "white"
    /\ color' = [color EXCEPT ![e.to] = "gray"]
    /\ stack' = Append(Taken(e), Frame(e.to))
    /\ UNCHANGED <<pc, graphVars, parent, roots, cycles, extractVars, reports>>

Descend(e) ==
    /\ Takes(e) /\ color[e.to] = "white"
    /\ parent' = [k \in DOMAIN parent \cup {e.to} |-> IF k = e.to THEN e ELSE parent[k]]
    /\ color' = [color EXCEPT ![e.to] = "gray"]
    /\ stack' = Append(Taken(e), Frame(e.to))
    /\ UNCHANGED <<pc, graphVars, roots, cycles, extractVars, reports>>

\* Mutant of MeetBackEdge: the cycle starts without the back edge.
MeetBackEdgeOpen(e) ==
    /\ Takes(e) /\ color[e.to] = "gray"
    /\ stack' = Taken(e)
    /\ pc' = "extract"
    /\ backEdge' = <<e>> /\ cycle' = <<>> /\ current' = <<e.from>> /\ visited' = {}
    /\ UNCHANGED <<graphVars, color, parent, roots, cycles, reports>>

\* A back edge: extractCycle is called.
MeetBackEdge(e) ==
    /\ Takes(e) /\ color[e.to] = "gray"
    /\ stack' = Taken(e)
    /\ pc' = "extract"
    /\ backEdge' = <<e>> /\ cycle' = <<e>> /\ current' = <<e.from>> /\ visited' = {}
    /\ UNCHANGED <<graphVars, color, parent, roots, cycles, reports>>

PassBlack(e) ==
    /\ Takes(e) /\ color[e.to] = "black"
    /\ stack' = Taken(e)
    /\ UNCHANGED <<pc, graphVars, color, parent, roots, cycles, extractVars, reports>>

\* Mutant of FinishNode: the node stays gray.
FinishNodeGray ==
    /\ pc = "search" /\ stack # <<>> /\ Top.todo = {}
    /\ stack' = SubSeq(stack, 1, Len(stack) - 1)
    /\ UNCHANGED <<pc, graphVars, color, parent, roots, cycles, extractVars, reports>>

FinishNode ==
    /\ pc = "search" /\ stack # <<>> /\ Top.todo = {}
    /\ color' = [color EXCEPT ![Top.node] = "black"]
    /\ stack' = SubSeq(stack, 1, Len(stack) - 1)
    /\ UNCHANGED <<pc, graphVars, parent, roots, cycles, extractVars, reports>>

-----------------------------------------------------------------------------
(* extractCycle.  backEdge and current are sequences of length one, empty while no
   cycle is being extracted; the cycle is built in acquisition order at once. *)

\* One turn of the loop: to the parent, or give up (the result is nil).
CanTrace == current[1] \notin visited /\ current[1] \in DOMAIN parent

Idle == backEdge' = <<>> /\ cycle' = <<>> /\ current' = <<>> /\ visited' = {}

TraceParent ==
    /\ pc = "extract" /\ current[1] # backEdge[1].to
    /\ IF CanTrace
         THEN /\ cycle' = <<parent[current[1]]>> \o cycle
              /\ current' = <<parent[current[1]].from>>
              /\ visited' = visited \cup {current[1]}
              /\ UNCHANGED <<pc, backEdge>>
         ELSE Idle /\ pc' = "search"
    /\ UNCHANGED <<graphVars, searchVars, reports>>

AppendCycle ==
    /\ pc = "extract" /\ current[1] = backEdge[1].to
    /\ cycles' = Append(cycles, cycle)
    /\ pc' = "search"
    /\ Idle
    /\ UNCHANGED <<graphVars, color, parent, roots, stack, reports>>

-----------------------------------------------------------------------------
(* deduplicateCycles and the reports. *)

\* The names of an edge's ends, and pairLess on them.
Pair(e) == <<Name(e.from), Name(e.to)>>
pairLess(a, b) == a[1] < b[1] \/ (a[1] = b[1] /\ a[2] < b[2])

\* The canonical key: the pairs from the first of the least ones on.
minIdx(c) ==
    CHOOSE i \in DOMAIN c :
      /\ \A j \in DOMAIN c : ~pairLess(Pair(c[j]), Pair(c[i]))
      /\ \A j \in 1..(i - 1) : Pair(c[j]) # Pair(c[i])

CycleKey(c) == [i \in DOMAIN c |-> Pair(c[((minIdx(c) + i - 2) % Len(c)) + 1])]

deduplicateCycles(cs) ==
    {cs[i] : i \in {k \in DOMAIN cs : \A j \in 1..(k - 1) : CycleKey(cs[j]) # CycleKey(cs[k])}}

\* Mutant of hasConcurrent: every edge must be by a concurrent function.
hasConcurrentAll(c) == \A i \in DOMAIN c : c[i].fn \in pkg.concurrent

hasConcurrent(c) == \E i \in DOMAIN c : c[i].fn \in pkg.concurrent

\* reportLockOrderCycle asks for suppression at the first edge only.
ReportCycles ==
    /\ pc = "search" /\ stack = <<>> /\ roots = {}
    /\ reports' = {c \in deduplicateCycles(cycles) :
                     hasConcurrent(c) /\ <<c[1].fn, c[1].pos>> \notin Suppressed}
    /\ pc' = "done"
    /\ UNCHANGED <<graphVars, searchVars, extractVars>>

-----------------------------------------------------------------------------
Init ==
    /\ pkg \in Packages
    /\ pc = "walk" /\ next = 1 /\ edges = {}
    /\ color = [k \in MutexKeys |-> "white"] /\ parent = <<>> /\ roots = {}
    /\ stack = <<>> /\ cycles = <<>>
    /\ backEdge = <<>> /\ cycle = <<>> /\ current = <<>> /\ visited = {}
    /\ reports = {}

Next ==
    \/ RecordAcquisition \/ EndWalk \/ CollectCallSite \/ StartSearch
    \/ \E n \in roots : StartRoot(n) \/ SkipRoot(n)
    \/ \E e \in edges : Descend(e) \/ MeetBackEdge(e) \/ PassBlack(e)
    \/ FinishNode \/ TraceParent \/ AppendCycle \/ ReportCycles

Spec == Init /\ [][Next]_vars

-----------------------------------------------------------------------------
\* Type invariant: the gray nodes are those of the stack, each once, and a frame's
\* edges leave its node.
TypeOK ==
    /\ pkg \in Inputs
    /\ pc \in {"walk", "calls", "search", "extract", "done"}
    /\ next \in Nat \ {0}
    /\ edges \subseteq Edges
    /\ color \in [MutexKeys -> {"white", "gray", "black"}]
    /\ DOMAIN parent \subseteq MutexKeys /\ \A k \in DOMAIN parent : parent[k] \in edges
    /\ roots \subseteq MutexKeys
    /\ stack \in Seq([node : MutexKeys, todo : SUBSET edges])
    /\ \A i \in DOMAIN stack : \A e \in stack[i].todo : e.from = stack[i].node
    /\ {k \in MutexKeys : color[k] = "gray"} = {stack[i].node : i \in DOMAIN stack}
    /\ \A i, j \in DOMAIN stack : stack[i].node = stack[j].node => i = j
    /\ cycles \in Seq(Seq(edges)) /\ cycle \in Seq(edges)
    /\ visited \subseteq MutexKeys

\* c is a cycle of the graph that comes to no lock twice.
IsCycle(c) ==
    /\ c # <<>>
    /\ \A i \in DOMAIN c : c[i] \in edges /\ c[i].to = c[(i % Len(c)) + 1].from
    /\ \A i, j \in DOMAIN c : c[i].from = c[j].from => i = j

\* Whatever detectCycles collects is a cycle of locks in acquisition order: each
\* taken while the one before was held, the first while the last was.
CyclesReal == \A i \in DOMAIN cycles : IsCycle(cycles[i])

\* extractCycle never gives up: from a back edge's source, the parents lead to its
\* target ("shouldn't happen in a valid DFS").
ParentChainIntact == (pc = "extract" /\ current[1] # backEdge[1].to) => CanTrace

\* Locks each of which is held while another of them is taken.
Loop(S) == S # {} /\ \A n \in S : \E e \in edges : e.from = n /\ e.to \in S

\* One cycle found per back edge is enough: among any locks that form a loop,
\* some found cycle is closed.
LoopsFound ==
    pc = "done" =>
      \A S \in SUBSET MutexKeys : Loop(S) =>
        \E i \in DOMAIN cycles : LET closing == cycles[i][Len(cycles[i])]
                                 IN  closing.from \in S /\ closing.to \in S

\* What hides a cycle on purpose, or by accident: its first edge is suppressed, or two
\* keys share a name.
NothingSuppressed == \A e \in edges : <<e.fn, e.pos>> \notin Suppressed
DistinctNames == \A k, l \in MutexKeys : Name(k) = Name(l) => k = l

\* The locks of S are taken under one another by concurrent functions only.
OnlyConcurrent(S) == \A e \in edges : (e.from \in S /\ e.to \in S) => e.fn \in pkg.concurrent

\* Neither the filter nor the removal of duplicates hides a loop of concurrent code:
\* both look at one of several parallel edges, the first that the search met, and it
\* does not matter which.
LoopsReported ==
    (pc = "done" /\ NothingSuppressed /\ DistinctNames) =>
      \A S \in SUBSET MutexKeys : (Loop(S) /\ OnlyConcurrent(S)) =>
        \E c \in reports : \E i \in DOMAIN c : c[i].from \in S /\ c[i].to \in S
=============================================================================
