----------------------------- MODULE MCResolver -----------------------------
(* Small SSA functions for Resolver. *)
EXTENDS Resolver

CONSTANTS p, q, r, l, k, c, x, y, ap, aq, ar, al, ax

\* A struct with two mutexes and a plain field.
Struct == <<[anonymous |-> TRUE, type |-> "Mutex"], [anonymous |-> FALSE, type |-> "other"],
            [anonymous |-> TRUE, type |-> "RWMutex"]>>

Ask1(kind, v, m) == [kind |-> kind, v |-> v, method |-> m]

\* l and k are loads of a pointer, l from the cell c; every FieldAddr has its own base.
At(v) == CASE v = ap -> p [] v = aq -> q [] v = ar -> r [] v = al -> l [] v = ax -> x

Function(edges, kx, field, questions) ==
    [edges |-> edges,
     x |-> [v \in Loads \cup FieldAddrs |-> IF v = l THEN c ELSE IF v = k THEN kx ELSE At(v)],
     field |-> field, struct |-> Struct, questions |-> questions]

\* A phi of reachable code has some operand from outside every cycle of phis.
Entered(edges) ==
    \A S \in SUBSET Phis \ {{}} :
      \E v \in S, i \in 1..2 : edges[v][i] \notin S

Pairs == {p, q, r, l, x} \X {p, q, r, l, x}
Bases == <<Ask1("field", ap, "Lock"), Ask1("field", aq, "Lock"), Ask1("field", ar, "Lock")>>

\* Every two-operand graph on three phis of a pointer, the field bases asked for in turn.
PhiGraphs ==
    {Function(edges, c, [v \in FieldAddrs |-> 2], Bases) :
        edges \in {e \in [Phis -> Pairs] : Entered(e)}}

\* Phis of the addresses of mutexes and of another field, whose type embeds one; y is a
\* parameter of type *sync.Mutex.
LockGraphs ==
    {Function([v \in Phis |-> IF v = p THEN <<a1, q>> ELSE IF v = q THEN <<a2, a3>> ELSE <<x, l>>],
              c, [v \in FieldAddrs |-> IF v = ax THEN fx ELSE 1],
              <<Ask1("lock", p, "Lock"), Ask1("lock", q, "Lock"), Ask1("lock", y, "Lock"),
                Ask1("field", q, "Lock")>>) :
        a1, a2, a3 \in {ar, al, ax}, fx \in {1, 2, 3}}

\* Receivers that embed a mutex, k being a load from a cell that r chooses.
ReceiverGraphs ==
    {[Function([v \in Phis |-> IF v = r THEN <<c1, c2>> ELSE <<l, e>>], r, [v \in FieldAddrs |-> 1],
               <<Ask1("embedded", p, m), Ask1("embedded", k, m), Ask1("embedded", l, m)>>)
        EXCEPT !.struct = s] :
        c1, c2 \in {c, x}, e \in {l, k}, m \in {"Lock", "RLock"},
        s \in {Struct, SubSeq(Struct, 1, 2), SubSeq(Struct, 2, 3), SubSeq(Struct, 2, 2)}}

AllFunctions == PhiGraphs \cup LockGraphs \cup ReceiverGraphs
=============================================================================
