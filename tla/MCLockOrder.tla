---------------------------- MODULE MCLockOrder ----------------------------
(* Small lock-order graphs for LockOrder. *)
EXTENDS LockOrder

CONSTANTS A, B, C, D, f, g

Edge(from, to, fn) == [from |-> from, to |-> to, fn |-> fn, pos |-> 1]

InOrder == [k \in MutexKeys |-> CASE k = A -> 1 [] k = B -> 2 [] k = C -> 3 [] k = D -> 4]
\* B and C are fields of types with one name, in two packages.
SameName == [InOrder EXCEPT ![C] = 2]

\* The edges that a graph may have, in the order the walk adds them.
Locks == <<A, B, C, D>>
EdgeList == [i \in 1..32 |-> Edge(Locks[((i - 1) \div 8) + 1], Locks[(((i - 1) \div 2) % 4) + 1],
                                 IF i % 2 = 1 THEN f ELSE g)]
Graph(es) == [walked |-> SelectSeq(EdgeList, LAMBDA e : e \in es), calls |-> <<>>,
              concurrent |-> Funcs, name |-> InOrder]
Call(held, acquired) == [caller |-> g, pos |-> 2, held |-> held, acquired |-> acquired]

\* Every graph on three locks, acquisitions on two instances of one type included.
Graphs3 == {Graph({Edge(p[1], p[2], f) : p \in ps}) : ps \in SUBSET ({A, B, C} \X {A, B, C})}

\* Call sites add edges that are there, are new, or would be from a lock to itself,
\* and twice what another call site has added; the functions may be concurrent or not.
WithCalls ==
    {[walked |-> <<Edge(A, B, g), [Edge(A, B, g) EXCEPT !.pos = 2]>>,
      calls |-> <<Call(held, acquired), Call({B}, acquired)>>, concurrent |-> conc,
      name |-> InOrder] :
        held, acquired \in SUBSET {A, B, C}, conc \in SUBSET Funcs}

\* Every graph on four locks without self-edges that has a way around all four.
Ring == {<<A, B>>, <<B, C>>, <<C, D>>, <<D, A>>}
Chords == {p \in {A, B, C, D} \X {A, B, C, D} : p[1] # p[2]} \ Ring
Rings == {Graph({Edge(p[1], p[2], f) : p \in Ring \cup ps}) : ps \in SUBSET Chords}

\* The graphs on three locks once more, two of the locks with the same name.
Namesakes == {[p EXCEPT !.name = SameName] : p \in Graphs3}

\* Three loops that share edges, each edge by one function, by both or by none, and only
\* some of the functions concurrent.
Parallel ==
    {[Graph(UNION {{Edge(p[1], p[2], h) : h \in by[p]} : p \in DOMAIN by}) EXCEPT !.concurrent = conc] :
        by \in [{<<A, B>>, <<B, A>>, <<B, C>>, <<C, A>>, <<A, C>>}
               -> SUBSET Funcs], conc \in SUBSET Funcs}

AllGraphs == Graphs3 \cup Namesakes \cup WithCalls \cup Rings \cup Parallel
=============================================================================
