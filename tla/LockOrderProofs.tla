-------------------------- MODULE LockOrderProofs --------------------------
(***************************************************************************)
(* For every package, every set of locks and every order of equal names:   *)
(* the cycles that detectCycles finds are cycles of the lock-order graph,  *)
(* no trace is given up, and no loop of locks escapes the search and, if   *)
(* its functions are concurrent, the reports.                              *)
(***************************************************************************)
EXTENDS LockOrder, StackLemmas

-----------------------------------------------------------------------------
(* The inductive invariant. *)

\* The graph is built before the search begins.
Building ==
    pc \in {"walk", "calls"} =>
      /\ stack = <<>> /\ DOMAIN parent = {} /\ cycles = <<>> /\ cycle = <<>>
      /\ \A k \in MutexKeys : color[k] = "white"

\* The activations of dfs are linked by the edges they were entered by.
StackLinked ==
    \A i \in 2..Len(stack) :
      /\ stack[i].node \in DOMAIN parent
      /\ parent[stack[i].node].from = stack[i - 1].node
      /\ parent[stack[i].node].to = stack[i].node

\* extractCycle has come from the top of the stack down to frame p, on its way to
\* frame m, the target of the back edge.
Traced(m, p) ==
    /\ backEdge[1].to = stack[m].node
    /\ current = <<stack[p].node>>
    /\ Len(cycle) = Len(stack) - p + 1
    /\ \A j \in 1..Len(cycle) : cycle[j].from = stack[p + j - 1].node
    /\ \A j \in 1..(Len(cycle) - 1) : cycle[j].to = stack[p + j].node
    /\ cycle[Len(cycle)] = backEdge[1]
    /\ visited = {stack[q].node : q \in (p + 1)..Len(stack)}

Extraction ==
    pc = "extract" =>
      /\ backEdge = <<backEdge[1]>> /\ backEdge[1] \in edges
      /\ \E p \in 1..Len(stack) : \E m \in 1..p : Traced(m, p)

\* A cycle that e closes is found, or being extracted.
Closed(e) ==
    \/ \E j \in 1..Len(cycles) : cycles[j][Len(cycles[j])] = e
    \/ pc = "extract" /\ backEdge = <<e>>

\* What has become of the edges that an activation has taken.
EdgesSettled ==
    \A i \in 1..Len(stack) : \A e \in edges :
      (e.from = stack[i].node /\ e \notin stack[i].todo) =>
        \/ color[e.to] = "black"
        \/ Closed(e)
        \/ i < Len(stack) /\ stack[i + 1].node = e.to

\* The first lock of a loop that dfs leaves has closed a cycle.
LoopsBroken ==
    \A S \in SUBSET MutexKeys : (Loop(S) /\ \E n \in S : color[n] = "black") =>
      \E e \in edges : Closed(e) /\ e.from \in S /\ e.to \in S

\* detectCycles comes to every node.
RootsLeft ==
    /\ pc \in {"search", "extract", "done"} => \A n \in Nodes : n \in roots \/ color[n] # "white"
    /\ pc = "done" => stack = <<>> /\ roots = {}

CInv == TypeOK /\ Building /\ StackLinked /\ CyclesReal /\ Extraction /\ EdgesSettled /\ LoopsBroken /\ RootsLeft

-----------------------------------------------------------------------------
Frames == [node : MutexKeys, todo : SUBSET edges]

LEMMA StackTypes ==
    ASSUME TypeOK
    PROVE  /\ stack \in Seq(Frames) /\ Len(stack) \in Nat /\ DOMAIN stack = 1..Len(stack)
           /\ \A i \in 1..Len(stack) : stack[i] \in Frames /\ stack[i].node \in MutexKeys
           /\ cycles \in Seq(Seq(edges)) /\ Len(cycles) \in Nat /\ DOMAIN cycles = 1..Len(cycles)
           /\ \A i \in 1..Len(cycles) : cycles[i] \in Seq(edges)
           /\ cycle \in Seq(edges) /\ Len(cycle) \in Nat
           /\ stack # <<>> => Len(stack) \in 1..Len(stack) /\ Len(stack) > 0 /\ Top \in Frames
           /\ \A e \in edges : e.from \in MutexKeys /\ e.to \in MutexKeys
<1>1. stack \in Seq(Frames) /\ cycles \in Seq(Seq(edges)) /\ cycle \in Seq(edges) /\ edges \subseteq Edges
  BY DEF TypeOK, Frames
<1>2. /\ Len(stack) \in Nat /\ DOMAIN stack = 1..Len(stack) /\ \A i \in 1..Len(stack) : stack[i] \in Frames
      /\ Len(cycles) \in Nat /\ DOMAIN cycles = 1..Len(cycles) /\ \A i \in 1..Len(cycles) : cycles[i] \in Seq(edges)
      /\ Len(cycle) \in Nat
  BY <1>1, LenProperties, ElementOfSeq
<1>3. stack # <<>> => Len(stack) \in 1..Len(stack) /\ Len(stack) > 0
  BY <1>1, <1>2, EmptySeq
<1>4. \A e \in edges : e.from \in MutexKeys /\ e.to \in MutexKeys
  BY <1>1 DEF Edges
<1> QED
  BY <1>1, <1>2, <1>3, <1>4 DEF Frames, Top

\* The gray nodes are those of the stack.
LEMMA GrayStack ==
    ASSUME TypeOK
    PROVE  /\ \A i \in 1..Len(stack) : stack[i].node \in MutexKeys /\ color[stack[i].node] = "gray"
           /\ \A k \in MutexKeys : color[k] = "gray" => \E i \in 1..Len(stack) : k = stack[i].node
           /\ \A i, j \in 1..Len(stack) : stack[i].node = stack[j].node => i = j
           /\ \A i \in 1..Len(stack) : \A d \in stack[i].todo : d.from = stack[i].node
<1>1. DOMAIN stack = 1..Len(stack) /\ \A i \in 1..Len(stack) : stack[i].node \in MutexKeys
  BY StackTypes
<1>2. {k \in MutexKeys : color[k] = "gray"} = {stack[i].node : i \in 1..Len(stack)}
  BY <1>1 DEF TypeOK
<1>3. /\ \A i \in 1..Len(stack) : color[stack[i].node] = "gray"
      /\ \A k \in MutexKeys : color[k] = "gray" => \E i \in 1..Len(stack) : k = stack[i].node
  BY <1>1, <1>2
<1>4. /\ \A i, j \in 1..Len(stack) : stack[i].node = stack[j].node => i = j
      /\ \A i \in 1..Len(stack) : \A d \in stack[i].todo : d.from = stack[i].node
  BY <1>1 DEF TypeOK
<1> QED
  BY <1>1, <1>3, <1>4

\* The stack once dfs has taken edge e.
LEMMA TakesTypes ==
    ASSUME TypeOK, NEW e \in edges, Takes(e)
    PROVE  /\ pc = "search" /\ stack # <<>> /\ Len(stack) \in 1..Len(stack)
           /\ e \in Top.todo /\ e.from = Top.node /\ Top = stack[Len(stack)]
           /\ e.from \in MutexKeys /\ e.to \in MutexKeys
           /\ Taken(e) \in Seq(Frames) /\ Len(Taken(e)) = Len(stack) /\ Taken(e) # <<>>
           /\ \A i \in 1..Len(stack) : Taken(e)[i].node = stack[i].node
           /\ \A i \in 1..Len(stack) : Taken(e)[i].todo = IF i = Len(stack) THEN stack[i].todo \ {e} ELSE stack[i].todo
<1>1. pc = "search" /\ stack # <<>> /\ e \in Top.todo /\ Top = stack[Len(stack)]
  BY DEF Takes, FirstEdges, Top
<1>2. Len(stack) \in 1..Len(stack) /\ Top \in Frames /\ e.from \in MutexKeys /\ e.to \in MutexKeys /\ stack \in Seq(Frames)
      /\ DOMAIN stack = 1..Len(stack) /\ Len(stack) > 0
  BY <1>1, StackTypes
<1>3. e.from = Top.node
  BY <1>1, <1>2 DEF TypeOK
<1> DEFINE t == [Top EXCEPT !.todo = @ \ {e}]
<1>4. t \in Frames /\ t.node = Top.node /\ t.todo = Top.todo \ {e}
  BY <1>2 DEF Frames
<1>5. Taken(e) = [stack EXCEPT ![Len(stack)] = t]
  BY DEF Taken, Top
<1> HIDE DEF t
<1>6. /\ Taken(e) \in Seq(Frames) /\ Len(Taken(e)) = Len(stack)
      /\ \A i \in 1..Len(stack) : Taken(e)[i] = IF i = Len(stack) THEN t ELSE stack[i]
  BY <1>1, <1>2, <1>4, <1>5, ReplaceTop
<1>7. Taken(e) # <<>>
  <2>1. Len(Taken(e)) > 0
    BY <1>2, <1>6
  <2>2. Len(<<>>) = 0
    OBVIOUS
  <2> QED
    BY <2>1, <2>2
<1> QED
  BY <1>1, <1>2, <1>3, <1>4, <1>6, <1>7

-----------------------------------------------------------------------------
(* One lemma per action. *)

LEMMA CInit == Init => CInv
<1> SUFFICES ASSUME Init PROVE CInv
  OBVIOUS
<1>1. pkg \in Inputs
  BY LockOrderAssumption DEF Init
<1>2. /\ pc = "walk" /\ next = 1 /\ edges = {} /\ stack = <<>> /\ cycles = <<>> /\ cycle = <<>> /\ visited = {}
      /\ DOMAIN parent = {} /\ roots = {} /\ color = [k \in MutexKeys |-> "white"]
  BY DEF Init
<1>3. Len(stack) = 0 /\ Len(cycles) = 0 /\ DOMAIN stack = {} /\ DOMAIN cycles = {}
  BY <1>2
<1>4. TypeOK
  <2>1. stack \in Seq([node : MutexKeys, todo : SUBSET edges]) /\ cycles \in Seq(Seq(edges)) /\ cycle \in Seq(edges)
    BY <1>2, EmptySeq
  <2>2. /\ {k \in MutexKeys : color[k] = "gray"} = {stack[i].node : i \in DOMAIN stack}
        /\ \A i, j \in DOMAIN stack : stack[i].node = stack[j].node => i = j
        /\ \A i \in DOMAIN stack : \A e \in stack[i].todo : e.from = stack[i].node
    BY <1>2, <1>3
  <2>3. color \in [MutexKeys -> {"white", "gray", "black"}]
    BY <1>2
  <2> QED
    BY <1>1, <1>2, <2>1, <2>2, <2>3 DEF TypeOK
<1>5. Building /\ StackLinked /\ CyclesReal /\ Extraction /\ EdgesSettled /\ RootsLeft
  BY <1>2, <1>3 DEF Building, StackLinked, CyclesReal, Extraction, EdgesSettled, RootsLeft
<1>6. LoopsBroken
  BY <1>2 DEF LoopsBroken
<1> QED
  BY <1>4, <1>5, <1>6 DEF CInv

\* While the graph is built there is nothing else.
LEMMA GraphStep ==
    ASSUME CInv, RecordAcquisition \/ EndWalk \/ CollectCallSite \/ StartSearch
    PROVE  CInv'
<1>1. /\ pc \in {"walk", "calls"} /\ pc' \in {"walk", "calls", "search"} /\ pkg' = pkg
      /\ pc' = "search" => roots' = Nodes /\ edges' = edges
      /\ pc' # "search" => roots' = roots
      /\ color' = color /\ parent' = parent /\ stack' = stack /\ cycles' = cycles /\ cycle' = cycle /\ visited' = visited
  BY DEF RecordAcquisition, EndWalk, CollectCallSite, StartSearch, graphVars, searchVars, extractVars
<1>2. /\ stack = <<>> /\ DOMAIN parent = {} /\ cycles = <<>> /\ cycle = <<>>
      /\ \A k \in MutexKeys : color[k] = "white"
  BY <1>1 DEF CInv, Building
<1>3. pkg \in Inputs /\ edges \subseteq Edges /\ next \in Nat \ {0} /\ roots \subseteq MutexKeys /\ visited \subseteq MutexKeys
  BY DEF CInv, TypeOK
<1>4. edges' \subseteq Edges /\ next' \in Nat \ {0}
  <2>1. pkg.walked \in Seq(Edges) /\ pkg.calls \in Seq(Calls)
    BY <1>3 DEF Inputs
  <2>2. CASE RecordAcquisition
    <3>1. next <= Len(pkg.walked) /\ edges' = addEdge(edges, pkg.walked[next]) /\ next' = next + 1
      BY <2>2 DEF RecordAcquisition
    <3>2. pkg.walked[next] \in Edges
      BY <1>3, <2>1, <3>1, ElementOfSeq
    <3> QED
      BY <1>3, <3>1, <3>2 DEF addEdge
  <2>3. CASE EndWalk \/ StartSearch
    BY <1>3, <2>3 DEF EndWalk, StartSearch, graphVars
  <2>4. CASE CollectCallSite
    <3>1. next <= Len(pkg.calls) /\ next' = next + 1 /\ edges' \subseteq edges \cup CallEdges(pkg.calls[next])
      BY <2>4 DEF CollectCallSite
    <3>2. pkg.calls[next] \in Calls
      BY <1>3, <2>1, <3>1, ElementOfSeq
    <3>3. CallEdges(pkg.calls[next]) \subseteq Edges
      BY <3>2 DEF CallEdges, Calls, Edges
    <3> QED
      BY <1>3, <3>1, <3>3
  <2> QED
    BY <2>2, <2>3, <2>4
<1>5. roots' \subseteq MutexKeys
  BY <1>1, <1>3 DEF Nodes, Edges
<1>6. TypeOK'
  <2>1. stack' \in Seq([node : MutexKeys, todo : SUBSET edges])' /\ cycles' \in Seq(Seq(edges))' /\ cycle' \in Seq(edges)'
    BY <1>1, <1>2, EmptySeq
  <2>2. DOMAIN stack' = {}
    BY <1>1, <1>2
  <2>3. /\ {k \in MutexKeys : color'[k] = "gray"} = {stack'[i].node : i \in DOMAIN stack'}
        /\ \A i, j \in DOMAIN stack' : stack'[i].node = stack'[j].node => i = j
        /\ \A i \in DOMAIN stack' : \A e \in stack'[i].todo : e.from = stack'[i].node
    BY <1>1, <1>2, <2>2
  <2>4. color' \in [MutexKeys -> {"white", "gray", "black"}]
    BY <1>1 DEF CInv, TypeOK
  <2> QED
    BY <1>1, <1>2, <1>3, <1>4, <1>5, <2>1, <2>3, <2>4 DEF TypeOK
<1>7. Len(stack') = 0 /\ Len(cycles') = 0 /\ DOMAIN cycles' = {}
  BY <1>1, <1>2
<1>8. Building' /\ StackLinked' /\ CyclesReal' /\ Extraction' /\ EdgesSettled'
  BY <1>1, <1>2, <1>7 DEF Building, StackLinked, CyclesReal, Extraction, EdgesSettled
<1>9. LoopsBroken'
  BY <1>1, <1>2 DEF LoopsBroken
<1>10. RootsLeft'
  BY <1>1 DEF RootsLeft, Nodes
<1> QED
  BY <1>6, <1>8, <1>9, <1>10 DEF CInv

\* The search leaves the graph alone.
LEMMA SameGraph ==
    ASSUME edges' = edges
    PROVE  /\ Frames' = Frames /\ Nodes' = Nodes
           /\ \A S : Loop(S)' <=> Loop(S)
           /\ \A c : IsCycle(c)' <=> IsCycle(c)
BY DEF Frames, Nodes, Loop, IsCycle

\* A step that blackens nothing.
LEMMA LoopsStayBroken ==
    ASSUME LoopsBroken, edges' = edges, \A e \in edges : Closed(e) => Closed(e)',
           \A k \in MutexKeys : color'[k] = "black" => color[k] = "black"
    PROVE  LoopsBroken'
<1> SUFFICES ASSUME NEW S \in SUBSET MutexKeys, Loop(S)', NEW n \in S, color'[n] = "black"
             PROVE  \E e \in edges : Closed(e)' /\ e.from \in S /\ e.to \in S
  BY DEF LoopsBroken
<1>1. Loop(S) /\ color[n] = "black"
  BY SameGraph
<1> QED
  BY <1>1 DEF LoopsBroken

LEMMA RootStep ==
    ASSUME CInv, NEW n \in roots, StartRoot(n) \/ SkipRoot(n)
    PROVE  CInv'
<1>1. /\ pc = "search" /\ pc' = "search" /\ stack = <<>> /\ roots' = roots \ {n}
      /\ pkg' = pkg /\ next' = next /\ edges' = edges /\ parent' = parent /\ cycles' = cycles /\ backEdge' = backEdge
      /\ cycle' = cycle /\ current' = current /\ visited' = visited
  BY DEF StartRoot, SkipRoot, graphVars, extractVars
<1>2. TypeOK /\ n \in MutexKeys /\ color \in [MutexKeys -> {"white", "gray", "black"}]
  BY DEF CInv, TypeOK
<1>3. \A k \in MutexKeys : color[k] # "gray"
  <2>1. DOMAIN stack = {}
    BY <1>1
  <2> QED
    BY <1>2, <2>1 DEF TypeOK
<1>4. \A e \in edges : Closed(e) => Closed(e)'
  BY <1>1 DEF Closed
<1>5. CyclesReal' /\ Extraction' /\ Building'
  BY <1>1, SameGraph DEF CInv, CyclesReal, Extraction, Building
<1>6. CASE StartRoot(n)
  <2>1. color[n] = "white" /\ color' = [color EXCEPT ![n] = "gray"] /\ stack' = <<Frame(n)>>
    BY <1>6 DEF StartRoot
  <2>2. /\ Frame(n) \in Frames /\ Frame(n).node = n /\ Frame(n).todo = {e \in edges : e.from = n}
    BY <1>2 DEF Frame, Frames
  <2>3. /\ stack' \in Seq(Frames') /\ Len(stack') = 1 /\ DOMAIN stack' = 1..1
        /\ stack'[1].node = n /\ stack'[1].todo = {e \in edges : e.from = n}
    BY <1>1, <2>1, <2>2, SameGraph
  <2>4. color' \in [MutexKeys -> {"white", "gray", "black"}] /\ \A k \in MutexKeys : color'[k] = IF k = n THEN "gray" ELSE color[k]
    BY <1>2, <2>1
  <2>5. TypeOK'
    <3>1. {k \in MutexKeys : color'[k] = "gray"} = {stack'[i].node : i \in DOMAIN stack'}
      BY <1>2, <1>3, <2>3, <2>4
    <3>2. \A i \in DOMAIN stack' : \A e \in stack'[i].todo : e.from = stack'[i].node
      BY <2>3
    <3>3. \A i, j \in DOMAIN stack' : stack'[i].node = stack'[j].node => i = j
      BY <2>3
    <3> QED
      BY <1>1, <1>2, <2>3, <2>4, <3>1, <3>2, <3>3 DEF TypeOK, Frames
  <2>6. StackLinked' /\ EdgesSettled'
    BY <1>1, <2>3 DEF StackLinked, EdgesSettled
  <2>7. LoopsBroken'
    BY <1>1, <1>4, <2>1, <2>4, LoopsStayBroken DEF CInv
  <2>8. RootsLeft'
    <3>1. Nodes \subseteq MutexKeys
      BY <1>2, StackTypes DEF Nodes
    <3> QED
      BY <1>1, <2>4, <3>1, SameGraph DEF CInv, RootsLeft
  <2> QED
    BY <1>5, <2>5, <2>6, <2>7, <2>8 DEF CInv
<1>7. CASE SkipRoot(n)
  <2>1. color[n] # "white" /\ color' = color /\ stack' = stack
    BY <1>7 DEF SkipRoot
  <2>2. TypeOK'
    BY <1>1, <1>2, <2>1 DEF TypeOK
  <2>3. StackLinked'
    BY <1>1, <2>1 DEF CInv, StackLinked
  <2>4. EdgesSettled'
    BY <1>1, <1>4, <2>1 DEF CInv, EdgesSettled
  <2>5. LoopsBroken'
    BY <1>1, <1>4, <2>1, LoopsStayBroken DEF CInv
  <2>6. RootsLeft'
    BY <1>1, <2>1, SameGraph DEF CInv, RootsLeft
  <2> QED
    BY <1>5, <2>2, <2>3, <2>4, <2>5, <2>6 DEF CInv
<1> QED
  BY <1>6, <1>7

LEMMA DescendStep ==
    ASSUME CInv, NEW e \in edges, Descend(e)
    PROVE  CInv'
<1> DEFINE L == Len(stack)
<1>1. /\ Takes(e) /\ color[e.to] = "white" /\ pc' = pc /\ pkg' = pkg /\ next' = next /\ edges' = edges
      /\ parent' = [k \in DOMAIN parent \cup {e.to} |-> IF k = e.to THEN e ELSE parent[k]]
      /\ color' = [color EXCEPT ![e.to] = "gray"]
      /\ stack' = Append(Taken(e), Frame(e.to))
      /\ roots' = roots /\ cycles' = cycles /\ backEdge' = backEdge
      /\ cycle' = cycle /\ current' = current /\ visited' = visited
  BY DEF Descend, graphVars, extractVars
<1>2. TypeOK
  BY DEF CInv
<1>3. /\ pc = "search" /\ L \in 1..L /\ L \in Nat
      /\ e \in stack[L].todo /\ e.from = stack[L].node
      /\ e.from \in MutexKeys /\ e.to \in MutexKeys
      /\ Taken(e) \in Seq(Frames) /\ Len(Taken(e)) = L
      /\ \A i \in 1..L : Taken(e)[i].node = stack[i].node
      /\ \A i \in 1..L : Taken(e)[i].todo = IF i = L THEN stack[i].todo \ {e} ELSE stack[i].todo
  BY <1>1, <1>2, TakesTypes, StackTypes
<1>4. /\ Frame(e.to) \in Frames /\ Frame(e.to).node = e.to /\ Frame(e.to).todo = {d \in edges : d.from = e.to}
  BY <1>3 DEF Frame, Frames
<1>5. /\ stack' \in Seq(Frames') /\ Len(stack') = L + 1
      /\ \A i \in 1..(L + 1) : stack'[i] = IF i = L + 1 THEN Frame(e.to) ELSE Taken(e)[i]
  BY <1>1, <1>3, <1>4, Push, SameGraph
<1>6. /\ \A i \in 1..L : stack'[i].node = stack[i].node
      /\ \A i \in 1..L : stack'[i].todo = IF i = L THEN stack[i].todo \ {e} ELSE stack[i].todo
      /\ stack'[L + 1].node = e.to /\ stack'[L + 1].todo = {d \in edges : d.from = e.to}
      /\ DOMAIN stack' = 1..(L + 1)
  <2>1. DOMAIN stack' = 1..(L + 1)
    BY <1>5, LenProperties
  <2>2. \A i \in 1..L : i \in 1..(L + 1) /\ i # L + 1
    BY <1>3
  <2>3. \A i \in 1..L : stack'[i] = Taken(e)[i]
    BY <1>5, <2>2
  <2>4. L + 1 \in 1..(L + 1)
    BY <1>3
  <2>5. stack'[L + 1] = Frame(e.to)
    BY <1>5, <2>4
  <2> QED
    BY <1>3, <1>4, <2>1, <2>3, <2>5
<1>7. /\ color \in [MutexKeys -> {"white", "gray", "black"}] /\ color' \in [MutexKeys -> {"white", "gray", "black"}]
      /\ \A k \in MutexKeys : color'[k] = IF k = e.to THEN "gray" ELSE color[k]
  BY <1>1, <1>2, <1>3 DEF TypeOK
<1>8. /\ \A i \in 1..L : stack[i].node \in MutexKeys /\ color[stack[i].node] = "gray" /\ stack[i].node # e.to
      /\ \A k \in MutexKeys : color[k] = "gray" => \E i \in 1..L : k = stack[i].node
      /\ \A i, j \in 1..L : stack[i].node = stack[j].node => i = j
      /\ \A i \in 1..L : \A d \in stack[i].todo : d.from = stack[i].node
  BY <1>1, <1>2, GrayStack
<1>9. \A d \in edges : Closed(d) => Closed(d)'
  BY <1>1 DEF Closed
<1> HIDE DEF L
<1>10. TypeOK'
  <2>1. {k \in MutexKeys : color'[k] = "gray"} = {stack'[i].node : i \in DOMAIN stack'}
    <3>1. ASSUME NEW k \in MutexKeys, color'[k] = "gray" PROVE \E i \in 1..(L + 1) : k = stack'[i].node
      <4>1. CASE k = e.to
        BY <1>3, <1>6, <4>1
      <4>2. CASE k # e.to
        <5>1. PICK i \in 1..L : k = stack[i].node
          BY <1>7, <1>8, <3>1, <4>2
        <5>2. i \in 1..(L + 1) /\ k = stack'[i].node
          BY <1>3, <1>6, <5>1
        <5> QED
          BY <5>2
      <4> QED
        BY <4>1, <4>2
    <3>2. ASSUME NEW i \in 1..(L + 1) PROVE stack'[i].node \in MutexKeys /\ color'[stack'[i].node] = "gray"
      <4>1. CASE i = L + 1
        BY <1>3, <1>6, <1>7, <4>1
      <4>2. CASE i \in 1..L
        BY <1>6, <1>7, <1>8, <4>2
      <4> QED
        BY <1>3, <4>1, <4>2
    <3> QED
      BY <1>6, <3>1, <3>2
  <2>2. \A i \in DOMAIN stack' : \A d \in stack'[i].todo : d.from = stack'[i].node
    <3>1. ASSUME NEW i \in 1..(L + 1), NEW d \in stack'[i].todo PROVE d.from = stack'[i].node
      <4>1. CASE i = L + 1
        BY <1>6, <3>1, <4>1
      <4>2. CASE i \in 1..L
        BY <1>6, <1>8, <3>1, <4>2
      <4> QED
        BY <1>3, <4>1, <4>2
    <3> QED
      BY <1>6, <3>1
  <2>3. \A i, j \in DOMAIN stack' : stack'[i].node = stack'[j].node => i = j
    <3>1. SUFFICES ASSUME NEW i \in 1..(L + 1), NEW j \in 1..(L + 1), stack'[i].node = stack'[j].node PROVE i = j
      BY <1>6
    <3>2. i \in 1..L \/ i = L + 1
      BY <1>3
    <3>3. j \in 1..L \/ j = L + 1
      BY <1>3
    <3> QED
      BY <1>6, <1>8, <3>1, <3>2, <3>3
  <2>4. DOMAIN parent' \subseteq MutexKeys /\ \A k \in DOMAIN parent' : parent'[k] \in edges
    BY <1>1, <1>2, <1>3 DEF TypeOK
  <2> QED
    BY <1>1, <1>2, <1>5, <1>7, <2>1, <2>2, <2>3, <2>4 DEF TypeOK, Frames
<1>11. StackLinked'
  <2> SUFFICES ASSUME NEW i \in 2..(L + 1)
               PROVE  /\ stack'[i].node \in DOMAIN parent'
                      /\ parent'[stack'[i].node].from = stack'[i - 1].node
                      /\ parent'[stack'[i].node].to = stack'[i].node
    BY <1>5 DEF StackLinked
  <2>1. CASE i = L + 1
    <3>1. i - 1 = L /\ L \in 1..L
      BY <1>3, <2>1
    <3> QED
      BY <1>1, <1>3, <1>6, <2>1, <3>1
  <2>2. CASE i # L + 1
    <3>1. i \in 1..L /\ i - 1 \in 1..L /\ i \in 2..L
      BY <1>3, <2>2
    <3>2. /\ stack[i].node \in DOMAIN parent
          /\ parent[stack[i].node].from = stack[i - 1].node
          /\ parent[stack[i].node].to = stack[i].node
      BY <3>1 DEF CInv, StackLinked, L
    <3>3. stack'[i].node = stack[i].node /\ stack'[i - 1].node = stack[i - 1].node /\ stack[i].node # e.to
      BY <1>6, <1>8, <3>1
    <3> QED
      BY <1>1, <3>2, <3>3
  <2> QED
    BY <2>1, <2>2
<1>12. EdgesSettled'
  <2> SUFFICES ASSUME NEW i \in 1..(L + 1), NEW d \in edges, d.from = stack'[i].node, d \notin stack'[i].todo
               PROVE  \/ color'[d.to] = "black"
                      \/ Closed(d)'
                      \/ i < L + 1 /\ stack'[i + 1].node = d.to
    BY <1>1, <1>5 DEF EdgesSettled
  <2>1. i # L + 1 /\ i \in 1..L /\ i < L + 1
    BY <1>3, <1>6
  <2>2. CASE d = e /\ i = L
    BY <1>6, <2>1, <2>2
  <2>3. CASE ~(d = e /\ i = L)
    <3>1. d.from = stack[i].node /\ d \notin stack[i].todo
      BY <1>6, <2>1, <2>3
    <3>2. \/ color[d.to] = "black"
          \/ Closed(d)
          \/ i < L /\ stack[i + 1].node = d.to
      BY <2>1, <3>1 DEF CInv, EdgesSettled, L
    <3>3. d.to \in MutexKeys
      BY <1>2, StackTypes
    <3>4. i < L => i + 1 \in 1..L
      BY <1>3, <2>1
    <3> QED
      BY <1>1, <1>6, <1>7, <1>9, <2>1, <3>2, <3>3, <3>4
  <2> QED
    BY <2>2, <2>3
<1>13. LoopsBroken'
  BY <1>1, <1>7, <1>9, LoopsStayBroken DEF CInv
<1>14. RootsLeft'
  <2>1. Nodes \subseteq MutexKeys
    BY <1>2, StackTypes DEF Nodes
  <2> QED
    BY <1>1, <1>3, <1>7, <2>1, SameGraph DEF CInv, RootsLeft
<1>15. CyclesReal' /\ Extraction' /\ Building'
  BY <1>1, <1>3, SameGraph DEF CInv, CyclesReal, Extraction, Building
<1> QED
  BY <1>10, <1>11, <1>12, <1>13, <1>14, <1>15 DEF CInv

\* dfs takes an edge and stays at its node.
LEMMA TakenTypes ==
    ASSUME TypeOK, NEW e \in edges, Takes(e), stack' = Taken(e), color' = color, edges' = edges
    PROVE  /\ stack' \in Seq([node : MutexKeys, todo : SUBSET edges])' /\ Len(stack') = Len(stack)
           /\ DOMAIN stack' = 1..Len(stack)
           /\ \A i \in DOMAIN stack' : \A d \in stack'[i].todo : d.from = stack'[i].node
           /\ {k \in MutexKeys : color'[k] = "gray"} = {stack'[i].node : i \in DOMAIN stack'}
           /\ \A i, j \in DOMAIN stack' : stack'[i].node = stack'[j].node => i = j
<1> DEFINE L == Len(stack)
<1>1. /\ Taken(e) \in Seq(Frames) /\ Len(Taken(e)) = L
      /\ \A i \in 1..L : Taken(e)[i].node = stack[i].node
      /\ \A i \in 1..L : Taken(e)[i].todo \subseteq stack[i].todo
  BY TakesTypes
<1>2. DOMAIN stack' = 1..L /\ DOMAIN stack = 1..L
  BY <1>1, LenProperties, StackTypes
<1>3. {stack'[i].node : i \in DOMAIN stack'} = {stack[i].node : i \in DOMAIN stack}
  BY <1>1, <1>2
<1>4. \A i \in DOMAIN stack' : \A d \in stack'[i].todo : d.from = stack'[i].node
  BY <1>1, <1>2, GrayStack
<1>5. \A i, j \in DOMAIN stack' : stack'[i].node = stack'[j].node => i = j
  BY <1>1, <1>2, GrayStack
<1>6. {k \in MutexKeys : color'[k] = "gray"} = {stack'[i].node : i \in DOMAIN stack'}
  BY <1>3 DEF TypeOK
<1> QED
  BY <1>1, <1>2, <1>4, <1>5, <1>6 DEF Frames

\* It has settled the edge if it was a back edge or led to a black node.
LEMMA TakenSettles ==
    ASSUME CInv, NEW e \in edges, Takes(e), stack' = Taken(e), color' = color, edges' = edges, parent' = parent,
           \A d \in edges : Closed(d) => Closed(d)', Closed(e)' \/ color[e.to] = "black"
    PROVE  EdgesSettled' /\ StackLinked'
<1> DEFINE L == Len(stack)
<1>1. /\ Len(Taken(e)) = L /\ L \in Nat /\ L \in 1..L
      /\ \A i \in 1..L : Taken(e)[i].node = stack[i].node
      /\ \A i \in 1..L : Taken(e)[i].todo = IF i = L THEN stack[i].todo \ {e} ELSE stack[i].todo
  <2>1. TypeOK
    BY DEF CInv
  <2> QED
    BY <2>1, TakesTypes, StackTypes
<1>2. ASSUME NEW i \in 1..L, NEW d \in edges, d.from = stack'[i].node, d \notin stack'[i].todo
      PROVE  \/ color'[d.to] = "black"
             \/ Closed(d)'
             \/ i < L /\ stack'[i + 1].node = d.to
  <2>1. CASE d = e
    BY <2>1
  <2>2. CASE d # e
    <3>1. d.from = stack[i].node /\ d \notin stack[i].todo
      BY <1>1, <1>2, <2>2
    <3>2. \/ color[d.to] = "black"
          \/ Closed(d)
          \/ i < L /\ stack[i + 1].node = d.to
      BY <3>1 DEF CInv, EdgesSettled
    <3>3. i < L => i + 1 \in 1..L
      BY <1>1
    <3> QED
      BY <1>1, <3>2, <3>3
  <2> QED
    BY <2>1, <2>2
<1>3. EdgesSettled'
  BY <1>1, <1>2 DEF EdgesSettled
<1>4. \A i \in 2..L : i \in 1..L /\ i - 1 \in 1..L
  BY <1>1
<1>5. StackLinked'
  BY <1>1, <1>4 DEF CInv, StackLinked
<1> QED
  BY <1>3, <1>5

LEMMA PassBlackStep ==
    ASSUME CInv, NEW e \in edges, PassBlack(e)
    PROVE  CInv'
<1>1. /\ Takes(e) /\ color[e.to] = "black" /\ pc' = pc /\ pkg' = pkg /\ next' = next /\ edges' = edges
      /\ stack' = Taken(e) /\ color' = color /\ parent' = parent
      /\ roots' = roots /\ cycles' = cycles /\ backEdge' = backEdge
      /\ cycle' = cycle /\ current' = current /\ visited' = visited
  BY DEF PassBlack, graphVars, extractVars
<1>2. TypeOK /\ pc = "search"
  BY <1>1 DEF CInv, Takes
<1>3. TypeOK'
  BY <1>1, <1>2, TakenTypes DEF TypeOK
<1>4. \A d \in edges : Closed(d) => Closed(d)'
  BY <1>1 DEF Closed
<1>5. EdgesSettled' /\ StackLinked'
  BY <1>1, <1>4, TakenSettles
<1>6. LoopsBroken'
  BY <1>1, <1>4, LoopsStayBroken DEF CInv
<1>7. CyclesReal' /\ Extraction' /\ Building' /\ RootsLeft'
  BY <1>1, <1>2, SameGraph DEF CInv, CyclesReal, Extraction, Building, RootsLeft
<1> QED
  BY <1>3, <1>5, <1>6, <1>7 DEF CInv

LEMMA BackEdgeStep ==
    ASSUME CInv, NEW e \in edges, MeetBackEdge(e)
    PROVE  CInv'
<1>1. /\ Takes(e) /\ color[e.to] = "gray" /\ pc' = "extract" /\ pkg' = pkg /\ next' = next /\ edges' = edges
      /\ stack' = Taken(e) /\ color' = color /\ parent' = parent /\ roots' = roots /\ cycles' = cycles
      /\ backEdge' = <<e>> /\ cycle' = <<e>> /\ current' = <<e.from>> /\ visited' = {}
  BY DEF MeetBackEdge, graphVars
<1>2. TypeOK /\ pc = "search"
  BY <1>1 DEF CInv, Takes
<1>3. /\ stack # <<>> /\ Len(stack) \in 1..Len(stack) /\ Len(stack) \in Nat
      /\ e.from = stack[Len(stack)].node /\ e.to \in MutexKeys /\ Len(Taken(e)) = Len(stack)
      /\ \A i \in 1..Len(stack) : Taken(e)[i].node = stack[i].node
  BY <1>1, <1>2, TakesTypes, StackTypes
<1>4. TypeOK'
  <2>1. cycle' \in Seq(edges) /\ visited' \subseteq MutexKeys
    BY <1>1
  <2> QED
    BY <1>1, <1>2, <2>1, TakenTypes DEF TypeOK
<1>5. \A d \in edges : Closed(d) => Closed(d)'
  BY <1>1, <1>2 DEF Closed
<1>6. Closed(e)'
  BY <1>1 DEF Closed
<1>7. EdgesSettled' /\ StackLinked'
  BY <1>1, <1>5, <1>6, TakenSettles
<1>8. LoopsBroken'
  BY <1>1, <1>5, LoopsStayBroken DEF CInv
<1>9. Extraction'
  <2>1. PICK m \in 1..Len(stack) : e.to = stack[m].node
    BY <1>1, <1>2, <1>3, GrayStack
  <2>2. PICK p \in 1..Len(stack) : p = Len(stack)
    BY <1>3
  <2>3. /\ Len(cycle') = 1 /\ cycle'[1] = e /\ backEdge'[1] = e /\ Len(stack') = p
        /\ current' = <<stack'[p].node>> /\ stack'[m].node = e.to /\ stack'[p].node = e.from
    BY <1>1, <1>3, <2>1, <2>2
  <2>4. Traced(m, p)'
    <3>1. p - p + 1 = 1 /\ 1..(1 - 1) = {} /\ (p + 1)..p = {} /\ p + 1 - 1 = p
      OBVIOUS
    <3>2. Len(cycle') = Len(stack') - p + 1 /\ \A j \in 1..(Len(cycle') - 1) : cycle'[j].to = stack'[p + j].node
      BY <2>3, <3>1
    <3>3. \A j \in 1..Len(cycle') : cycle'[j].from = stack'[p + j - 1].node
      <4>1. \A j \in 1..1 : j = 1
        OBVIOUS
      <4> QED
        BY <2>3, <3>1, <4>1
    <3>4. visited' = {stack'[q].node : q \in (p + 1)..Len(stack')}
      BY <1>1, <2>3, <3>1
    <3> QED
      BY <2>3, <3>2, <3>3, <3>4 DEF Traced
  <2>5. p \in 1..Len(stack') /\ m \in 1..p
    BY <2>1, <2>2, <2>3
  <2>6. backEdge' = <<backEdge'[1]>> /\ backEdge'[1] \in edges'
    BY <1>1
  <2> QED
    BY <2>4, <2>5, <2>6 DEF Extraction
<1>10. CyclesReal' /\ Building' /\ RootsLeft'
  BY <1>1, <1>2, SameGraph DEF CInv, CyclesReal, Building, RootsLeft
<1> QED
  BY <1>4, <1>7, <1>8, <1>9, <1>10 DEF CInv

LEMMA FinishStep ==
    ASSUME CInv, FinishNode
    PROVE  CInv'
<1> DEFINE L == Len(stack)
<1> DEFINE n == stack[L].node
<1>1. /\ pc = "search" /\ pc' = "search" /\ stack # <<>> /\ Top.todo = {} /\ pkg' = pkg /\ next' = next /\ edges' = edges
      /\ color' = [color EXCEPT ![n] = "black"] /\ stack' = SubSeq(stack, 1, L - 1)
      /\ parent' = parent /\ roots' = roots /\ cycles' = cycles /\ backEdge' = backEdge
      /\ cycle' = cycle /\ current' = current /\ visited' = visited
  BY DEF FinishNode, graphVars, extractVars, Top
<1>2. TypeOK
  BY DEF CInv
<1>3. L \in Nat /\ L \in 1..L /\ L > 0 /\ stack \in Seq(Frames) /\ stack[L].todo = {} /\ n \in MutexKeys
  BY <1>1, <1>2, StackTypes DEF Top
<1>4. /\ stack' \in Seq(Frames') /\ Len(stack') = L - 1 /\ \A i \in 1..(L - 1) : stack'[i] = stack[i] /\ i \in 1..L /\ i # L
      /\ DOMAIN stack' = 1..(L - 1)
  <2>1. /\ stack' \in Seq(Frames) /\ Len(stack') = L - 1 /\ \A i \in 1..(L - 1) : stack'[i] = stack[i]
    BY <1>1, <1>3, Pop
  <2>2. DOMAIN stack' = 1..(L - 1)
    BY <2>1, LenProperties
  <2>3. \A i \in 1..(L - 1) : i \in 1..L /\ i # L
    BY <1>3
  <2> QED
    BY <1>1, <2>1, <2>2, <2>3, SameGraph
<1>5. /\ color \in [MutexKeys -> {"white", "gray", "black"}] /\ color' \in [MutexKeys -> {"white", "gray", "black"}]
      /\ \A k \in MutexKeys : color'[k] = IF k = n THEN "black" ELSE color[k]
  BY <1>1, <1>2, <1>3 DEF TypeOK
<1>6. /\ \A i \in 1..L : stack[i].node \in MutexKeys /\ color[stack[i].node] = "gray"
      /\ \A k \in MutexKeys : color[k] = "gray" => \E i \in 1..L : k = stack[i].node
      /\ \A i, j \in 1..L : stack[i].node = stack[j].node => i = j
      /\ \A i \in 1..L : \A d \in stack[i].todo : d.from = stack[i].node
  BY <1>2, GrayStack
<1>7. \A d \in edges : Closed(d) <=> Closed(d)'
  BY <1>1 DEF Closed
<1>8. \A i \in 1..L : i = L \/ i \in 1..(L - 1)
  BY <1>3
<1> HIDE DEF L
<1>9. TypeOK'
  <2>1. {k \in MutexKeys : color'[k] = "gray"} = {stack'[i].node : i \in DOMAIN stack'}
    <3>1. ASSUME NEW k \in MutexKeys, color'[k] = "gray" PROVE \E i \in 1..(L - 1) : k = stack'[i].node
      <4>1. k # n /\ color[k] = "gray"
        BY <1>5, <3>1
      <4>2. PICK i \in 1..L : k = stack[i].node
        BY <1>6, <4>1
      <4> QED
        BY <1>4, <1>8, <4>1, <4>2
    <3>2. ASSUME NEW i \in 1..(L - 1) PROVE stack'[i].node \in MutexKeys /\ color'[stack'[i].node] = "gray"
      BY <1>3, <1>4, <1>5, <1>6
    <3> QED
      BY <1>4, <3>1, <3>2
  <2>2. /\ \A i \in DOMAIN stack' : \A d \in stack'[i].todo : d.from = stack'[i].node
        /\ \A i, j \in DOMAIN stack' : stack'[i].node = stack'[j].node => i = j
    BY <1>4, <1>6
  <2> QED
    BY <1>1, <1>2, <1>4, <1>5, <2>1, <2>2 DEF TypeOK, Frames
<1>10. StackLinked'
  <2>1. \A i \in 2..(L - 1) : i \in 2..L /\ i \in 1..(L - 1) /\ i - 1 \in 1..(L - 1)
    BY <1>3
  <2> QED
    BY <1>1, <1>4, <2>1 DEF CInv, StackLinked, L
<1>11. EdgesSettled'
  <2> SUFFICES ASSUME NEW i \in 1..(L - 1), NEW d \in edges, d.from = stack'[i].node, d \notin stack'[i].todo
               PROVE  \/ color'[d.to] = "black"
                      \/ Closed(d)'
                      \/ i < L - 1 /\ stack'[i + 1].node = d.to
    BY <1>1, <1>4 DEF EdgesSettled
  <2>1. \/ color[d.to] = "black"
        \/ Closed(d)
        \/ i < L /\ stack[i + 1].node = d.to
    BY <1>4 DEF CInv, EdgesSettled, L
  <2>2. d.to \in MutexKeys
    BY <1>2, StackTypes
  <2>3. i + 1 = L \/ (i < L - 1 /\ i + 1 \in 1..(L - 1))
    BY <1>3
  <2> QED
    BY <1>4, <1>5, <1>7, <2>1, <2>2, <2>3
<1>12. LoopsBroken'
  <2> SUFFICES ASSUME NEW S \in SUBSET MutexKeys, Loop(S)', NEW b \in S, color'[b] = "black"
               PROVE  \E d \in edges : Closed(d)' /\ d.from \in S /\ d.to \in S
    BY <1>1 DEF LoopsBroken
  <2>1. Loop(S)
    BY <1>1, SameGraph
  <2>2. ASSUME \E k \in S : color[k] = "black" PROVE \E d \in edges : Closed(d)' /\ d.from \in S /\ d.to \in S
    BY <1>7, <2>1, <2>2 DEF CInv, LoopsBroken
  <2>3. CASE b # n
    BY <1>5, <2>2, <2>3
  <2>4. CASE b = n
    <3>1. PICK d \in edges : d.from = n /\ d.to \in S
      BY <2>1, <2>4 DEF Loop
    <3>2. \/ color[d.to] = "black"
          \/ Closed(d)
          \/ L < L
      BY <1>3, <3>1 DEF CInv, EdgesSettled, L
    <3>3. ~(L < L)
      BY <1>3
    <3> QED
      BY <1>7, <2>2, <2>4, <3>1, <3>2, <3>3
  <2> QED
    BY <2>3, <2>4
<1>13. RootsLeft'
  <2>1. Nodes \subseteq MutexKeys
    BY <1>2, StackTypes DEF Nodes
  <2> QED
    BY <1>1, <1>5, <2>1, SameGraph DEF CInv, RootsLeft
<1>14. CyclesReal' /\ Extraction' /\ Building'
  BY <1>1, SameGraph DEF CInv, CyclesReal, Extraction, Building
<1> QED
  BY <1>9, <1>10, <1>11, <1>12, <1>13, <1>14 DEF CInv

\* Where extractCycle is: until it comes to the target, there is a parent to go to.
LEMMA TraceOn ==
    ASSUME CInv, pc = "extract"
    PROVE  /\ backEdge = <<backEdge[1]>> /\ backEdge[1] \in edges
           /\ \E p \in 1..Len(stack) : \E m \in 1..p :
                /\ Traced(m, p)
                /\ current[1] = stack[p].node
                /\ current[1] = backEdge[1].to <=> p = m
                /\ p # m => /\ CanTrace /\ p - 1 \in 1..Len(stack) /\ m \in 1..(p - 1)
                            /\ parent[stack[p].node] \in edges
                            /\ parent[stack[p].node].from = stack[p - 1].node
                            /\ parent[stack[p].node].to = stack[p].node
<1>1. TypeOK
  BY DEF CInv
<1>2. backEdge = <<backEdge[1]>> /\ backEdge[1] \in edges
  BY DEF CInv, Extraction
<1>3. PICK p \in 1..Len(stack) : \E m \in 1..p : Traced(m, p)
  BY DEF CInv, Extraction
<1>4. PICK m \in 1..p : Traced(m, p)
  BY <1>3
<1>5. current[1] = stack[p].node
  BY <1>4 DEF Traced
<1>6. Len(stack) \in Nat /\ m \in 1..Len(stack)
  BY <1>1, StackTypes
<1>7. \A i, j \in 1..Len(stack) : stack[i].node = stack[j].node => i = j
  BY <1>1, GrayStack
<1>8. current[1] = backEdge[1].to <=> p = m
  BY <1>4, <1>5, <1>6, <1>7 DEF Traced
<1>9. ASSUME p # m
      PROVE  /\ CanTrace /\ p - 1 \in 1..Len(stack) /\ m \in 1..(p - 1)
             /\ parent[stack[p].node] \in edges
             /\ parent[stack[p].node].from = stack[p - 1].node
             /\ parent[stack[p].node].to = stack[p].node
  <2>1. p \in 2..Len(stack) /\ p - 1 \in 1..Len(stack) /\ m \in 1..(p - 1)
    BY <1>6, <1>9
  <2>2. /\ stack[p].node \in DOMAIN parent
        /\ parent[stack[p].node].from = stack[p - 1].node
        /\ parent[stack[p].node].to = stack[p].node
    BY <2>1 DEF CInv, StackLinked
  <2>3. \A q \in (p + 1)..Len(stack) : q \in 1..Len(stack) /\ q # p
    BY <1>6
  <2>4. stack[p].node \notin visited
    BY <1>4, <1>7, <2>3 DEF Traced
  <2>5. parent[stack[p].node] \in edges
    BY <1>1, <2>2 DEF TypeOK
  <2> QED
    BY <1>5, <2>1, <2>2, <2>4, <2>5 DEF CanTrace
<1> QED
  BY <1>2, <1>4, <1>5, <1>8, <1>9

LEMMA TraceStep ==
    ASSUME CInv, TraceParent
    PROVE  CInv'
<1>1. /\ pc = "extract" /\ current[1] # backEdge[1].to /\ pkg' = pkg /\ next' = next /\ edges' = edges
      /\ color' = color /\ parent' = parent /\ roots' = roots /\ stack' = stack /\ cycles' = cycles
  BY DEF TraceParent, graphVars, searchVars
<1>2. TypeOK
  BY DEF CInv
<1>3. PICK p \in 1..Len(stack) : \E m \in 1..p :
        /\ Traced(m, p)
        /\ current[1] = stack[p].node
        /\ CanTrace /\ p - 1 \in 1..Len(stack) /\ m \in 1..(p - 1)
        /\ parent[stack[p].node] \in edges
        /\ parent[stack[p].node].from = stack[p - 1].node
        /\ parent[stack[p].node].to = stack[p].node
  BY <1>1, TraceOn
<1>4. PICK m \in 1..p :
        /\ Traced(m, p)
        /\ current[1] = stack[p].node
        /\ CanTrace /\ p - 1 \in 1..Len(stack) /\ m \in 1..(p - 1)
        /\ parent[stack[p].node] \in edges
        /\ parent[stack[p].node].from = stack[p - 1].node
        /\ parent[stack[p].node].to = stack[p].node
  BY <1>3
<1> DEFINE x == parent[stack[p].node]
<1>5. /\ cycle' = <<x>> \o cycle /\ current' = <<stack[p - 1].node>> /\ visited' = visited \cup {stack[p].node}
      /\ pc' = pc /\ backEdge' = backEdge
  BY <1>4 DEF TraceParent
<1>6. /\ cycle \in Seq(edges) /\ Len(cycle) \in Nat /\ Len(stack) \in Nat /\ x \in edges
      /\ \A i \in 1..Len(stack) : stack[i].node \in MutexKeys
  BY <1>2, <1>4, StackTypes
<1>7. x.from = stack[p - 1].node /\ x.to = stack[p].node
  BY <1>4
<1> HIDE DEF x
<1>8. /\ cycle' \in Seq(edges) /\ Len(cycle') = Len(cycle) + 1 /\ cycle'[1] = x
      /\ \A j \in 2..(Len(cycle) + 1) : cycle'[j] = cycle[j - 1] /\ j - 1 \in 1..Len(cycle)
  <2>1. <<x>> \in Seq(edges) /\ Len(<<x>>) = 1 /\ <<x>>[1] = x
    BY <1>6
  <2>2. /\ cycle' \in Seq(edges) /\ Len(cycle') = 1 + Len(cycle)
        /\ \A i \in 1..(1 + Len(cycle)) : cycle'[i] = IF i <= 1 THEN <<x>>[i] ELSE cycle[i - 1]
    BY <1>5, <1>6, <2>1, ConcatProperties
  <2> QED
    BY <1>6, <2>1, <2>2
<1>9. TypeOK'
  <2>1. visited' \subseteq MutexKeys
    BY <1>2, <1>5, <1>6 DEF TypeOK
  <2> QED
    BY <1>1, <1>2, <1>5, <1>8, <2>1 DEF TypeOK
<1>10. \A d \in edges : Closed(d) => Closed(d)'
  BY <1>1, <1>5 DEF Closed
<1>11. EdgesSettled'
  BY <1>1, <1>10 DEF CInv, EdgesSettled
<1>12. LoopsBroken'
  BY <1>1, <1>10, LoopsStayBroken DEF CInv
<1>13. Extraction'
  <2>1. PICK q \in 1..Len(stack) : q = p - 1
    BY <1>4
  <2>2. /\ backEdge[1].to = stack[m].node
        /\ Len(cycle) = Len(stack) - p + 1
        /\ \A j \in 1..Len(cycle) : cycle[j].from = stack[p + j - 1].node
        /\ \A j \in 1..(Len(cycle) - 1) : cycle[j].to = stack[p + j].node
        /\ cycle[Len(cycle)] = backEdge[1]
        /\ visited = {stack[k].node : k \in (p + 1)..Len(stack)}
    BY <1>4 DEF Traced
  <2>3. Len(cycle') = Len(stack) - q + 1 /\ Len(cycle) >= 1 /\ Len(cycle) \in Nat
    BY <1>6, <1>8, <2>1, <2>2
  <2>4. ASSUME NEW j \in 1..Len(cycle') PROVE cycle'[j].from = stack[q + j - 1].node
    <3>1. CASE j = 1
      <4>1. q + j - 1 = p - 1
        BY <2>1, <3>1
      <4> QED
        BY <1>7, <1>8, <3>1, <4>1
    <3>2. CASE j # 1
      <4>1. j \in 2..(Len(cycle) + 1)
        BY <1>6, <1>8, <3>2
      <4>2. cycle'[j] = cycle[j - 1] /\ j - 1 \in 1..Len(cycle)
        BY <1>8, <4>1
      <4>3. p + (j - 1) - 1 = q + j - 1
        BY <2>1
      <4> QED
        BY <2>2, <4>2, <4>3
    <3> QED
      BY <3>1, <3>2
  <2>5. ASSUME NEW j \in 1..(Len(cycle') - 1) PROVE cycle'[j].to = stack[q + j].node
    <3>1. CASE j = 1
      <4>1. q + j = p
        BY <2>1, <3>1
      <4> QED
        BY <1>7, <1>8, <3>1, <4>1
    <3>2. CASE j # 1
      <4>1. j \in 2..(Len(cycle) + 1) /\ j - 1 \in 1..(Len(cycle) - 1)
        BY <1>6, <1>8, <3>2
      <4>2. cycle'[j] = cycle[j - 1]
        BY <1>8, <4>1
      <4>3. p + (j - 1) = q + j
        BY <2>1
      <4> QED
        BY <2>2, <4>1, <4>2, <4>3
    <3> QED
      BY <3>1, <3>2
  <2>6. cycle'[Len(cycle')] = backEdge[1]
    <3>1. Len(cycle') \in 2..(Len(cycle) + 1) /\ Len(cycle') - 1 = Len(cycle)
      BY <1>8, <2>3
    <3>2. cycle'[Len(cycle')] = cycle[Len(cycle)]
      BY <1>8, <3>1
    <3> QED
      BY <2>2, <3>2
  <2>7. visited' = {stack[k].node : k \in (q + 1)..Len(stack)}
    <3>1. \A k : k \in (q + 1)..Len(stack) <=> k = p \/ k \in (p + 1)..Len(stack)
      BY <1>6, <2>1
    <3> QED
      BY <1>5, <2>2, <3>1
  <2>8. Traced(m, q)'
    BY <1>1, <1>5, <2>1, <2>2, <2>3, <2>4, <2>5, <2>6, <2>7 DEF Traced
  <2>9. q \in 1..Len(stack') /\ m \in 1..q
    BY <1>1, <1>4, <2>1
  <2>10. (backEdge = <<backEdge[1]>> /\ backEdge[1] \in edges)'
    BY <1>1, <1>5, TraceOn
  <2> QED
    BY <2>8, <2>9, <2>10 DEF Extraction
<1>14. CyclesReal' /\ Building' /\ RootsLeft' /\ StackLinked'
  BY <1>1, <1>5, SameGraph DEF CInv, CyclesReal, Building, RootsLeft, StackLinked
<1> QED
  BY <1>9, <1>11, <1>12, <1>13, <1>14 DEF CInv

\* What has been traced once the target is reached.
LEMMA TracedCycle ==
    ASSUME CInv, pc = "extract", current[1] = backEdge[1].to
    PROVE  IsCycle(cycle) /\ cycle[Len(cycle)] = backEdge[1] /\ cycle # <<>>
<1>1. TypeOK
  BY DEF CInv
<1>2. PICK p \in 1..Len(stack) : Traced(p, p)
  BY TraceOn
<1>3. /\ backEdge[1].to = stack[p].node
      /\ Len(cycle) = Len(stack) - p + 1
      /\ \A j \in 1..Len(cycle) : cycle[j].from = stack[p + j - 1].node
      /\ \A j \in 1..(Len(cycle) - 1) : cycle[j].to = stack[p + j].node
      /\ cycle[Len(cycle)] = backEdge[1]
  BY <1>2 DEF Traced
<1>4. cycle \in Seq(edges) /\ Len(cycle) \in Nat /\ Len(stack) \in Nat /\ DOMAIN cycle = 1..Len(cycle)
  BY <1>1, StackTypes, LenProperties
<1>5. Len(cycle) >= 1
  BY <1>3, <1>4
<1>6. cycle # <<>>
  BY <1>4, <1>5, EmptySeq
<1>7. \A i \in 1..Len(cycle) : cycle[i] \in edges
  BY <1>4, ElementOfSeq
<1>8. ASSUME NEW i \in 1..Len(cycle) PROVE cycle[i].to = cycle[(i % Len(cycle)) + 1].from
  <2>1. CASE i < Len(cycle)
    <3>1. i % Len(cycle) = i
      <4>1. Len(cycle) \in Nat \ {0} /\ 0 \in 0..(Len(cycle) - 1) /\ i \in 0..Len(cycle) /\ 0 + i = i
        BY <1>4, <1>5
      <4> QED
        BY <2>1, <4>1, RingPlace
    <3>2. i \in 1..(Len(cycle) - 1) /\ i + 1 \in 1..Len(cycle) /\ p + (i + 1) - 1 = p + i
      BY <1>4, <2>1
    <3> QED
      BY <1>3, <3>1, <3>2
  <2>2. CASE i = Len(cycle)
    <3>1. i % Len(cycle) = 0
      <4>1. Len(cycle) \in Nat \ {0} /\ 0 \in 0..(Len(cycle) - 1) /\ i \in 0..Len(cycle) /\ 0 + i = i /\ i - Len(cycle) = 0
        BY <1>4, <1>5, <2>2
      <4> QED
        BY <2>2, <4>1, RingPlace
    <3>2. 1 \in 1..Len(cycle) /\ p + 1 - 1 = p
      BY <1>4, <1>5
    <3> QED
      BY <1>3, <2>2, <3>1, <3>2
  <2>3. i < Len(cycle) \/ i = Len(cycle)
    BY <1>4
  <2> QED
    BY <2>1, <2>2, <2>3
<1>9. ASSUME NEW i \in 1..Len(cycle), NEW j \in 1..Len(cycle), cycle[i].from = cycle[j].from PROVE i = j
  <2>1. p + i - 1 \in 1..Len(stack) /\ p + j - 1 \in 1..Len(stack)
    BY <1>3, <1>4
  <2>2. p + i - 1 = p + j - 1
    BY <1>1, <1>3, <1>9, <2>1, GrayStack
  <2> QED
    BY <2>2
<1> QED
  BY <1>3, <1>4, <1>6, <1>7, <1>8, <1>9 DEF IsCycle

LEMMA AppendStep ==
    ASSUME CInv, AppendCycle
    PROVE  CInv'
<1>1. /\ pc = "extract" /\ current[1] = backEdge[1].to /\ pc' = "search" /\ pkg' = pkg /\ next' = next /\ edges' = edges
      /\ cycles' = Append(cycles, cycle) /\ color' = color /\ parent' = parent /\ roots' = roots /\ stack' = stack
      /\ backEdge' = <<>> /\ cycle' = <<>> /\ current' = <<>> /\ visited' = {}
  BY DEF AppendCycle, graphVars, Idle
<1>2. TypeOK
  BY DEF CInv
<1>3. cycles \in Seq(Seq(edges)) /\ Len(cycles) \in Nat /\ cycle \in Seq(edges) /\ DOMAIN cycles = 1..Len(cycles)
  BY <1>2, StackTypes
<1>4. IsCycle(cycle) /\ cycle[Len(cycle)] = backEdge[1] /\ backEdge = <<backEdge[1]>>
  BY <1>1, TracedCycle, TraceOn
<1>5. /\ cycles' \in Seq(Seq(edges)) /\ Len(cycles') = Len(cycles) + 1 /\ DOMAIN cycles' = 1..(Len(cycles) + 1)
      /\ \A i \in 1..(Len(cycles) + 1) : cycles'[i] = IF i = Len(cycles) + 1 THEN cycle ELSE cycles[i]
  BY <1>1, <1>3, Push, LenProperties
<1>6. \A i \in 1..(Len(cycles) + 1) : i = Len(cycles) + 1 \/ i \in 1..Len(cycles)
  BY <1>3
<1>7. /\ Len(cycles) + 1 \in 1..(Len(cycles) + 1)
      /\ \A i \in 1..Len(cycles) : i \in 1..(Len(cycles) + 1) /\ i # Len(cycles) + 1
  BY <1>3
<1>8. CyclesReal'
  BY <1>1, <1>3, <1>4, <1>5, <1>6, SameGraph DEF CInv, CyclesReal
<1>9. \A d \in edges : Closed(d) => Closed(d)'
  <2> SUFFICES ASSUME NEW d \in edges, Closed(d) PROVE Closed(d)'
    OBVIOUS
  <2>1. CASE \E j \in 1..Len(cycles) : cycles[j][Len(cycles[j])] = d
    <3>1. PICK j \in 1..Len(cycles) : cycles[j][Len(cycles[j])] = d
      BY <2>1
    <3>2. j \in 1..Len(cycles') /\ cycles'[j] = cycles[j]
      BY <1>5, <1>7
    <3> QED
      BY <3>1, <3>2 DEF Closed
  <2>2. CASE backEdge = <<d>>
    <3>1. cycle[Len(cycle)] = d
      BY <1>4, <2>2
    <3>2. PICK k \in 1..Len(cycles') : cycles'[k] = cycle
      BY <1>5, <1>7
    <3> QED
      BY <3>1, <3>2 DEF Closed
  <2> QED
    BY <2>1, <2>2 DEF Closed
<1>10. TypeOK'
  <2>1. cycle' \in Seq(edges)' /\ visited' \subseteq MutexKeys
    BY <1>1, EmptySeq
  <2> QED
    BY <1>1, <1>2, <1>5, <2>1 DEF TypeOK
<1>11. EdgesSettled'
  BY <1>1, <1>9 DEF CInv, EdgesSettled
<1>12. LoopsBroken'
  BY <1>1, <1>9, LoopsStayBroken DEF CInv
<1>13. Extraction' /\ Building' /\ RootsLeft' /\ StackLinked'
  BY <1>1, SameGraph DEF CInv, Extraction, Building, RootsLeft, StackLinked
<1> QED
  BY <1>8, <1>10, <1>11, <1>12, <1>13 DEF CInv

LEMMA ReportStep ==
    ASSUME CInv, ReportCycles \/ UNCHANGED vars
    PROVE  CInv'
<1>1. /\ pkg' = pkg /\ next' = next /\ edges' = edges /\ color' = color /\ parent' = parent /\ roots' = roots
      /\ stack' = stack /\ cycles' = cycles /\ backEdge' = backEdge /\ cycle' = cycle /\ current' = current
      /\ visited' = visited
  BY DEF ReportCycles, vars, graphVars, searchVars, extractVars
<1>2. pc' = pc \/ (pc = "search" /\ pc' = "done" /\ stack = <<>> /\ roots = {})
  BY DEF ReportCycles, vars
<1>3. TypeOK' /\ CyclesReal' /\ StackLinked'
  BY <1>1, <1>2, SameGraph DEF CInv, TypeOK, CyclesReal, StackLinked
<1>4. \A d \in edges : Closed(d) => Closed(d)'
  BY <1>1, <1>2 DEF Closed
<1>5. EdgesSettled'
  BY <1>1, <1>4 DEF CInv, EdgesSettled
<1>6. LoopsBroken'
  BY <1>1, <1>4, LoopsStayBroken DEF CInv
<1>7. Building' /\ RootsLeft'
  BY <1>1, <1>2, SameGraph DEF CInv, Building, RootsLeft
<1>8. Extraction'
  <2>1. CASE pc' = pc
    <3>1. \A m, p : Traced(m, p)' <=> Traced(m, p)
      BY <1>1 DEF Traced
    <3> QED
      BY <1>1, <2>1, <3>1 DEF CInv, Extraction
  <2>2. CASE pc' = "done"
    BY <2>2 DEF Extraction
  <2> QED
    BY <1>2, <2>1, <2>2
<1> QED
  BY <1>3, <1>5, <1>6, <1>7, <1>8 DEF CInv

LEMMA CStep == CInv /\ [Next]_vars => CInv'
<1> SUFFICES ASSUME CInv, [Next]_vars PROVE CInv'
  OBVIOUS
<1>1. CASE RecordAcquisition \/ EndWalk \/ CollectCallSite \/ StartSearch
  BY <1>1, GraphStep
<1>2. CASE \E n \in roots : StartRoot(n) \/ SkipRoot(n)
  BY <1>2, RootStep
<1>3. CASE \E e \in edges : Descend(e) \/ MeetBackEdge(e) \/ PassBlack(e)
  BY <1>3, DescendStep, BackEdgeStep, PassBlackStep
<1>4. CASE FinishNode
  BY <1>4, FinishStep
<1>5. CASE TraceParent
  BY <1>5, TraceStep
<1>6. CASE AppendCycle
  BY <1>6, AppendStep
<1>7. CASE ReportCycles \/ UNCHANGED vars
  BY <1>7, ReportStep
<1> QED
  BY <1>1, <1>2, <1>3, <1>4, <1>5, <1>6, <1>7 DEF Next

LEMMA CInvariant == Spec => []CInv
BY CInit, CStep, PTL DEF Spec

-----------------------------------------------------------------------------
(* What the invariant gives. *)

\* The state of the search keeps its types; a lock is gray exactly while one
\* activation of dfs is for it.
THEOREM LockOrderTypes == Spec => []TypeOK
<1>1. CInv => TypeOK
  BY DEF CInv
<1> QED
  BY <1>1, CInvariant, PTL

\* What detectCycles collects are cycles of the lock-order graph that come to no
\* lock twice, whatever the graph and the order of the edges.
THEOREM CyclesAreReal == Spec => []CyclesReal
<1>1. CInv => CyclesReal
  BY DEF CInv
<1> QED
  BY <1>1, CInvariant, PTL

\* extractCycle's early returns of nil are dead code: the parents lead from the
\* source of a back edge to its target.
THEOREM TracesComplete == Spec => []ParentChainIntact
<1>1. CInv => ParentChainIntact
  BY TraceOn DEF ParentChainIntact
<1> QED
  BY <1>1, CInvariant, PTL

\* At the end, every lock of the graph is black, so every loop is broken.
LEMMA LoopClosed ==
    ASSUME CInv, pc = "done", NEW S \in SUBSET MutexKeys, Loop(S)
    PROVE  \E i \in DOMAIN cycles : LET closing == cycles[i][Len(cycles[i])]
                                    IN  closing.from \in S /\ closing.to \in S
<1>1. TypeOK /\ stack = <<>> /\ roots = {}
  BY DEF CInv, RootsLeft
<1>2. PICK n \in S : n \in Nodes
  BY DEF Loop, Nodes
<1>3. color[n] # "white"
  BY <1>1, <1>2 DEF CInv, RootsLeft
<1>4. color[n] # "gray"
  <2>1. DOMAIN stack = {}
    BY <1>1
  <2> QED
    BY <1>1, <2>1 DEF TypeOK
<1>5. color[n] = "black"
  BY <1>1, <1>3, <1>4 DEF TypeOK
<1>6. PICK e \in edges : Closed(e) /\ e.from \in S /\ e.to \in S
  BY <1>5 DEF CInv, LoopsBroken
<1>7. PICK j \in 1..Len(cycles) : cycles[j][Len(cycles[j])] = e
  BY <1>6 DEF Closed
<1>8. j \in DOMAIN cycles
  BY <1>1, StackTypes
<1> QED
  BY <1>6, <1>7, <1>8

\* detectCycles collects one cycle per back edge, and that is enough: no loop of the
\* graph is without a collected cycle that it closes.
THEOREM LoopsAreFound == Spec => []LoopsFound
<1>1. CInv => LoopsFound
  BY LoopClosed DEF LoopsFound
<1> QED
  BY <1>1, CInvariant, PTL

-----------------------------------------------------------------------------
(* Removal of duplicates and the reports. *)

\* The range that deduplicateCycles starts the canonical form at is there.
LEMMA MinIdxInCycle ==
    ASSUME TypeOK, NEW c \in Seq(edges), c # <<>>
    PROVE  minIdx(c) \in 1..Len(c)
<1>1. /\ DOMAIN c = 1..Len(c) /\ Len(c) \in Nat /\ 1 \in DOMAIN c
      /\ \A j \in DOMAIN c : c[j] \in edges
  <2>1. Len(c) \in Nat /\ Len(c) > 0 /\ DOMAIN c = 1..Len(c)
    BY EmptySeq, LenProperties
  <2> QED
    BY <2>1, ElementOfSeq
<1>2. \A j \in DOMAIN c : Name(c[j].from) \in Nat /\ Name(c[j].to) \in Nat
  <2>1. pkg.name \in [MutexKeys -> Nat]
    BY DEF TypeOK, Inputs
  <2> QED
    BY <1>1, <2>1, StackTypes DEF Name
<1>3. \A j \in DOMAIN c : Pair(c[j])[1] = Name(c[j].from) /\ Pair(c[j])[2] = Name(c[j].to)
  BY DEF Pair
<1> DEFINE A == {Name(c[j].from) : j \in DOMAIN c}
<1>4. PICK a \in A : \A x \in A : a <= x
  <2>1. A \in SUBSET Nat /\ A # {}
    BY <1>1, <1>2
  <2> HIDE DEF A
  <2> QED
    BY <2>1, LeastNatural
<1> DEFINE B == {Name(c[j].to) : j \in {k \in DOMAIN c : Name(c[k].from) = a}}
<1>5. PICK b \in B : \A x \in B : b <= x
  <2>1. B \in SUBSET Nat /\ B # {}
    BY <1>2
  <2> HIDE DEF B
  <2> QED
    BY <2>1, LeastNatural
<1> DEFINE I == {j \in DOMAIN c : Name(c[j].from) = a /\ Name(c[j].to) = b}
<1>6. PICK i \in I : \A x \in I : i <= x
  <2>1. I \in SUBSET Nat /\ I # {}
    BY <1>1
  <2> HIDE DEF I
  <2> QED
    BY <2>1, LeastNatural
<1>7. a \in Nat /\ b \in Nat /\ i \in DOMAIN c /\ Name(c[i].from) = a /\ Name(c[i].to) = b
  BY <1>2
<1>8. ASSUME NEW j \in DOMAIN c PROVE ~pairLess(Pair(c[j]), Pair(c[i]))
  <2>1. a <= Name(c[j].from)
    BY <1>4
  <2>2. Name(c[j].from) = a => b <= Name(c[j].to)
    BY <1>5
  <2> QED
    BY <1>2, <1>3, <1>7, <2>1, <2>2 DEF pairLess
<1>9. ASSUME NEW j \in 1..(i - 1) PROVE Pair(c[j]) # Pair(c[i])
  <2>1. j \in DOMAIN c /\ ~(i <= j)
    BY <1>1, <1>7
  <2>2. j \notin I
    BY <1>6, <2>1
  <2> QED
    BY <1>3, <1>7, <2>1, <2>2
<1>10. \E k \in DOMAIN c :
         /\ \A j \in DOMAIN c : ~pairLess(Pair(c[j]), Pair(c[k]))
         /\ \A j \in 1..(k - 1) : Pair(c[j]) # Pair(c[k])
  BY <1>7, <1>8, <1>9
<1> QED
  BY <1>1, <1>10 DEF minIdx

\* The key of a cycle holds the names of the ends of each of its edges.
LEMMA KeyHoldsEdges ==
    ASSUME TypeOK, NEW c \in Seq(edges), c # <<>>
    PROVE  /\ DOMAIN CycleKey(c) = 1..Len(c)
           /\ \A r \in 1..Len(c) : \E d \in 1..Len(c) : CycleKey(c)[d] = Pair(c[r])
           /\ \A d \in 1..Len(c) : \E r \in 1..Len(c) : CycleKey(c)[d] = Pair(c[r])
<1> DEFINE n == Len(c)
<1>1. n \in Nat \ {0} /\ DOMAIN c = 1..n
  <2>1. Len(c) \in Nat /\ Len(c) > 0 /\ DOMAIN c = 1..Len(c)
    BY EmptySeq, LenProperties
  <2> QED
    BY <2>1
<1>2. PICK m \in 1..n : m = minIdx(c)
  BY MinIdxInCycle
<1>3. CycleKey(c) = [i \in 1..n |-> Pair(c[((m + i - 2) % n) + 1])]
  BY <1>1, <1>2 DEF CycleKey
<1> HIDE DEF n
<1>4. \A d \in 1..n : (m + d - 2) % n = IF m + d - 2 < n THEN m + d - 2 ELSE m + d - 2 - n
  <2> TAKE d \in 1..n
  <2>1. PICK u \in 0..(n - 1) : u = m - 1
    BY <1>1
  <2>2. PICK v \in 0..n : v = d - 1
    BY <1>1
  <2>3. (u + v) % n = IF u + v < n THEN u + v ELSE u + v - n
    BY <1>1, RingPlace
  <2>4. u + v = m + d - 2 /\ n \in Nat /\ n > 0
    BY <1>1, <2>1, <2>2
  <2>5. m + d - 2 < n => (m + d - 2) % n = m + d - 2
    BY <2>3, <2>4
  <2>6. ~(m + d - 2 < n) => (m + d - 2) % n = m + d - 2 - n
    BY <2>3, <2>4
  <2> QED
    BY <2>5, <2>6
<1>5. ASSUME NEW d \in 1..n PROVE \E r \in 1..n : CycleKey(c)[d] = Pair(c[r])
  <2>1. ((m + d - 2) % n) + 1 \in 1..n
    BY <1>1, <1>4
  <2> QED
    BY <1>3, <2>1
<1>6. ASSUME NEW r \in 1..n PROVE \E d \in 1..n : CycleKey(c)[d] = Pair(c[r])
  <2>1. CASE r >= m
    <3>1. PICK d \in 1..n : d = r - m + 1
      BY <1>1, <2>1
    <3>2. m + d - 2 = r - 1 /\ r - 1 < n
      BY <1>1, <3>1
    <3>3. (m + d - 2) % n = r - 1
      BY <1>4, <3>2
    <3>4. ((m + d - 2) % n) + 1 = r
      BY <3>3
    <3> QED
      BY <1>3, <3>4
  <2>2. CASE r < m
    <3>1. PICK d \in 1..n : d = r - m + 1 + n
      BY <1>1, <2>2
    <3>2. m + d - 2 - n = r - 1 /\ ~(m + d - 2 < n)
      BY <1>1, <3>1
    <3>3. (m + d - 2) % n = r - 1
      BY <1>4, <3>2
    <3>4. ((m + d - 2) % n) + 1 = r
      BY <3>3
    <3> QED
      BY <1>3, <3>4
  <2> QED
    BY <1>1, <2>1, <2>2
<1>7. DOMAIN CycleKey(c) = 1..n
  BY <1>3
<1> QED
  BY <1>5, <1>6, <1>7 DEF n

\* What detectAndReportLockOrderCycles reports.
Reportable ==
    {c \in deduplicateCycles(cycles) : hasConcurrent(c) /\ <<c[1].fn, c[1].pos>> \notin Suppressed}

ReportsMade == pc = "done" => reports = Reportable

LEMMA SameReportable ==
    ASSUME pkg' = pkg, cycles' = cycles
    PROVE  Reportable' = Reportable
BY DEF Reportable, deduplicateCycles, CycleKey, minIdx, hasConcurrent, Pair, Name, pairLess

LEMMA ReportsMadeStep == ReportsMade /\ [Next]_vars => ReportsMade'
<1> SUFFICES ASSUME ReportsMade, [Next]_vars, pc' = "done" PROVE reports' = Reportable'
  BY DEF ReportsMade
<1>1. CASE ReportCycles
  <2>1. pkg' = pkg /\ cycles' = cycles /\ reports' = Reportable
    BY <1>1 DEF ReportCycles, graphVars, searchVars, Reportable
  <2> QED
    BY <2>1, SameReportable
<1>2. CASE UNCHANGED vars
  <2>1. pkg' = pkg /\ cycles' = cycles /\ reports' = reports /\ pc' = pc
    BY <1>2 DEF vars, graphVars, searchVars
  <2> QED
    BY <2>1, SameReportable DEF ReportsMade
<1>3. CASE Next /\ ~ReportCycles
  <2>1. pc' # "done"
    BY <1>3 DEF Next, RecordAcquisition, EndWalk, CollectCallSite, StartSearch, StartRoot, SkipRoot, Descend,
                MeetBackEdge, PassBlack, FinishNode, TraceParent, AppendCycle, Takes
  <2> QED
    BY <2>1
<1> QED
  BY <1>1, <1>2, <1>3

LEMMA LoopReported ==
    ASSUME CInv, ReportsMade, pc = "done", NothingSuppressed, DistinctNames,
           NEW S \in SUBSET MutexKeys, Loop(S), OnlyConcurrent(S)
    PROVE  \E c \in reports : \E i \in DOMAIN c : c[i].from \in S /\ c[i].to \in S
<1>1. TypeOK
  BY DEF CInv
<1>2. /\ cycles \in Seq(Seq(edges)) /\ Len(cycles) \in Nat /\ DOMAIN cycles = 1..Len(cycles)
      /\ \A k \in DOMAIN cycles : cycles[k] \in Seq(edges)
  BY <1>1, StackTypes
<1>3. \A k \in DOMAIN cycles : cycles[k] # <<>>
  BY DEF CInv, CyclesReal, IsCycle
<1>4. \A k \in DOMAIN cycles : /\ Len(cycles[k]) \in Nat /\ Len(cycles[k]) > 0 /\ DOMAIN cycles[k] = 1..Len(cycles[k])
                               /\ \A r \in 1..Len(cycles[k]) : cycles[k][r] \in edges
  <2> TAKE k \in DOMAIN cycles
  <2>1. cycles[k] \in Seq(edges) /\ cycles[k] # <<>>
    BY <1>2, <1>3
  <2> QED
    BY <2>1, EmptySeq, LenProperties, ElementOfSeq
<1>5. PICK i \in DOMAIN cycles : LET closing == cycles[i][Len(cycles[i])]
                                 IN  closing.from \in S /\ closing.to \in S
  BY LoopClosed
<1> DEFINE K == {k \in DOMAIN cycles : CycleKey(cycles[k]) = CycleKey(cycles[i])}
<1>6. PICK k \in K : \A x \in K : k <= x
  <2>1. K \in SUBSET Nat /\ K # {}
    BY <1>2
  <2> HIDE DEF K
  <2> QED
    BY <2>1, LeastNatural
<1>7. k \in DOMAIN cycles /\ CycleKey(cycles[k]) = CycleKey(cycles[i])
  OBVIOUS
<1>8. cycles[k] \in deduplicateCycles(cycles)
  <2>1. ASSUME NEW j \in 1..(k - 1), CycleKey(cycles[j]) = CycleKey(cycles[k]) PROVE FALSE
    <3>1. j \in DOMAIN cycles /\ ~(k <= j)
      BY <1>2, <1>7
    <3>2. j \in K
      BY <1>7, <2>1, <3>1
    <3> QED
      BY <1>6, <3>1, <3>2
  <2> QED
    BY <1>7, <2>1 DEF deduplicateCycles
<1> HIDE DEF K
<1> DEFINE c == cycles[k]
<1> DEFINE n == Len(cycles[i])
<1>9. c \in Seq(edges) /\ c # <<>> /\ cycles[i] \in Seq(edges) /\ cycles[i] # <<>>
  BY <1>2, <1>3, <1>7
<1>10. Len(c) = n /\ n \in 1..n
  <2>1. 1..Len(c) = 1..n
    BY <1>1, <1>7, <1>9, KeyHoldsEdges
  <2>2. Len(c) \in Nat /\ n \in Nat /\ Len(c) > 0 /\ n > 0
    BY <1>4, <1>7
  <2>3. Len(c) \in 1..Len(c) /\ n \in 1..n
    BY <2>2
  <2>4. Len(c) \in 1..n /\ n \in 1..Len(c)
    BY <2>1, <2>3
  <2> QED
    BY <2>2, <2>4
<1>11. PICK d \in 1..n : CycleKey(cycles[i])[d] = Pair(cycles[i][n])
  BY <1>1, <1>9, <1>10, KeyHoldsEdges
<1>12. PICK r \in 1..n : CycleKey(c)[d] = Pair(c[r])
  <2>1. \A x \in 1..Len(c) : \E r \in 1..Len(c) : CycleKey(c)[x] = Pair(c[r])
    BY <1>1, <1>9, KeyHoldsEdges
  <2> QED
    BY <1>10, <2>1
<1>13. c[r] \in edges /\ cycles[i][n] \in edges /\ 1 \in 1..Len(c) /\ c[1] \in edges /\ r \in DOMAIN c
  BY <1>4, <1>7, <1>10
<1>14. Name(c[r].from) = Name(cycles[i][n].from) /\ Name(c[r].to) = Name(cycles[i][n].to)
  <2>1. Pair(c[r]) = Pair(cycles[i][n])
    BY <1>7, <1>11, <1>12
  <2> QED
    BY <2>1 DEF Pair
<1>15. c[r].from \in S /\ c[r].to \in S
  BY <1>1, <1>5, <1>13, <1>14, StackTypes DEF DistinctNames
<1>16. hasConcurrent(c) /\ <<c[1].fn, c[1].pos>> \notin Suppressed
  BY <1>13, <1>15 DEF hasConcurrent, OnlyConcurrent, NothingSuppressed
<1>17. c \in reports
  BY <1>8, <1>16 DEF ReportsMade, Reportable
<1> QED
  BY <1>13, <1>15, <1>17

\* A loop of locks that only concurrent functions take under one another is reported,
\* whichever of several parallel edges detectCycles met first and deduplicateCycles
\* kept, unless a suppression or two locks of one name hide it.
THEOREM LoopsAreReported == Spec => []LoopsReported
<1>1. Init => ReportsMade
  BY DEF Init, ReportsMade
<1>2. CInv /\ ReportsMade => LoopsReported
  BY LoopReported DEF LoopsReported
<1> QED
  BY <1>1, <1>2, ReportsMadeStep, CInvariant, PTL DEF Spec
=============================================================================
