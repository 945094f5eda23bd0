--------------------------- MODULE MCPropagation ---------------------------
(* Small packages for Propagation and Provenance. *)
EXTENDS Provenance, FiniteSets, SequencesExt

CONSTANTS f1, f2, f3, f4, K1, K2

Nothing == [f \in Funcs |-> {}]

\* One call for each pair of functions; records of it with different locks are those
\* of repeated walks.
Number(f) == CHOOSE i \in 1..4 : <<f1, f2, f3, f4>>[i] = f
Site(caller, callee, held) ==
    [caller |-> caller, callee |-> callee, pos |-> 10 * Number(caller) + Number(callee),
     held |-> held, prePublication |-> FALSE]

Access(f, k) == [fn |-> f, pos |-> Number(f), guard |-> k, held |-> "free", isRead |-> TRUE, constructor |-> FALSE]

\* f accesses fields of its own without their guards, and locks the same mutexes.
Package(sites, f, keys) ==
    [sites |-> sites, accesses |-> {Access(f, k) : k \in keys}, known |-> {f},
     requires |-> Nothing, acquires |-> [Nothing EXCEPT ![f] = keys], acquiresTransitive |-> Nothing]

\* Every call graph with up to three calls, each with or without the lock held.
Calls == {Site(c, d, h) : c, d \in {f1, f2, f3}, h \in {{}, {K1}}}
SmallGraphs ==
    {Package(SetToSeq(cs), f1, {K1}) : cs \in {s \in SUBSET Calls : Cardinality(s) <= 3}}

\* Chains of calls that end in f1, with a call back into the chain, in both orders.
Chain == <<Site(f2, f1, {}), Site(f3, f2, {K2}), Site(f4, f3, {})>>
Chains ==
    LET back == {<<>>} \cup {<<Site(c, d, {})>> : c, d \in {f1, f2, f3, f4}}
    IN  {Package(s, f1, {K1, K2}) : s \in UNION {{Chain \o b, Reverse(Chain \o b)} : b \in back}}

\* Constructors, calls before publication, accesses under the lock, imported facts
\* (f4 is imported) and a lock acquired by a function without requirements.
Mixed ==
    {[sites |-> <<Site(f1, f4, {}), [Site(f2, f1, {}) EXCEPT !.prePublication = pre], Site(f3, f2, {K2})>>,
      accesses |-> {[Access(f1, K1) EXCEPT !.constructor = ctor], [Access(f2, K2) EXCEPT !.held = mode]},
      known |-> {f3, f4},
      requires |-> [Nothing EXCEPT ![f4] = imported], acquires |-> [Nothing EXCEPT ![f3] = {K1}],
      acquiresTransitive |-> [Nothing EXCEPT ![f4] = {K2}]] :
        pre, ctor \in BOOLEAN, mode \in {"free", "shared"}, imported \in SUBSET {K2}}

AllPackages == SmallGraphs \cup Chains \cup Mixed
=============================================================================
