------------------------------ MODULE MCPasses ------------------------------
(* Small programs for Passes. *)
EXTENDS Passes

CONSTANTS f1, f2, f3, T1, T2

K1 == [type |-> T1, index |-> 0]
K2 == [type |-> T2, index |-> 0]
F1 == [type |-> T1, index |-> 1]      \* a field next to K1
F2 == [type |-> T2, index |-> 1]
MCMutexKeys == {K1, K2, [type |-> T1, index |-> 2]}
MCFields == {F1, F2}
MCExported == {f1, f2, T1, F1}

\* Function i is declared on lines 10i to 10i + 8.
Number(f) == CHOOSE i \in 1..3 : <<f1, f2, f3>>[i] = f
Decl(f) == [fn |-> f, line |-> 10 * Number(f), last |-> 10 * Number(f) + 8]
Site(caller, callee, held) ==
    [caller |-> caller, callee |-> callee, pos |-> 10 * Number(caller) + 3 + Number(callee),
     held |-> held, prePublication |-> FALSE]

\* Accesses on the lines after the declaration.
Obs(f, field, n, held, isRead) ==
    [field |-> field, fn |-> f, pos |-> 10 * Number(f) + n, isRead |-> isRead, constructor |-> FALSE, held |-> held]
Exclusive(i) == <<i, "exclusive">>
Shared(i) == <<i, "shared">>
Locked == {Exclusive(0)}

Nothing == [f \in Funcs |-> {}]
Acquiring(f, keys) == [Nothing EXCEPT ![f] = keys]
Source(members, decls, observations, sites, touched, acquires) ==
    [members |-> members, imports |-> {}, decls |-> decls, comments |-> {}, observations |-> observations,
     sites |-> sites, touched |-> touched, acquires |-> acquires,
     serveHTTP |-> {}, goTargets |-> {}, handlers |-> {}]

AllDecls == <<Decl(f1), Decl(f2), Decl(f3)>>
All == {f1, f2, f3, T1, T2}

\* One package: f1 accesses a field without the guard, f2 locks it; up to three calls.
Accessing(sites) ==
    Source(All, AllDecls, {Obs(f1, F1, 1, {}, FALSE), Obs(f2, F1, 1, Locked, FALSE)}, sites, {f2}, Acquiring(f2, {K1}))
Calls == {Site(c, d, h) : c, d \in {f1, f2, f3}, h \in {{}, {K1}}}
CallSeqs == UNION {[1..n -> Calls] : n \in 0..2} \cup {<<Site(f2, f1, {}), c, d>> : c, d \in Calls}
SmallPrograms ==
    {<<[Accessing(s) EXCEPT !.goTargets = go]>> : s \in CallSeqs, go \in {{}, {f1}, {f2}, {f1, f3}}}

\* Directives on every line, and entry points of every kind.
Directed ==
    {<<[Accessing(<<Site(f2, f1, {}), Site(f3, f1, {})>>) EXCEPT !.comments = {c}, !.serveHTTP = s, !.handlers = h]>> :
        c \in [kind : {"concurrent", "ignore", "nolint"}, line : 9..31], s \in {{}, {f2}}, h \in {{}, {f3}}}

\* Three packages: f1 of the first, called by f2 of the second, called by f3 of the third,
\* which imports the first one or not; the second accesses a struct of the first.
ThreePackages ==
    {<<[Source({f1, T1}, <<Decl(f1)>>, {Obs(f1, F1, 1, m1, FALSE), Obs(f1, F1, 2, Locked, FALSE)}, <<>>,
               {f1}, Acquiring(f1, {K1})) EXCEPT !.goTargets = go],
       [Source({f2, T2}, <<Decl(f2)>>, {Obs(f2, F2, 1, Locked, FALSE), Obs(f2, F2, 2, {}, TRUE), Obs(f2, F1, 3, m, r)},
               <<Site(f2, f1, held)>>, {f2}, Acquiring(f2, {K2})) EXCEPT !.imports = {1}],
       [Source({f3}, <<Decl(f3)>>, {}, <<Site(f3, f2, held3)>>, {}, Nothing)
          EXCEPT !.imports = imports, !.goTargets = go3]>> :
        go \in {{}, {f1}}, m1 \in {{}, Locked}, m \in {{}, Locked, {Shared(0)}}, r \in BOOLEAN, held \in {{}, {K1}},
        held3 \in {{}, {K1, K2}}, imports \in {{2}, {1, 2}}, go3 \in {{}, {f3}}}

\* Two packages: accesses of all kinds to an imported struct, calls before publication.
TwoPackages ==
    {<<Source({f3, T1}, <<Decl(f3)>>, {Obs(f3, F1, 1, {}, FALSE), Obs(f3, F1, 2, Locked, FALSE)}, <<>>, {f3}, Acquiring(f3, {K1})),
       [Source({f1, f2, T2}, <<Decl(f1), Decl(f2)>>, {[Obs(f1, F1, 1, m, r) EXCEPT !.constructor = c]},
               <<[Site(f2, f1, {}) EXCEPT !.prePublication = pre], Site(f1, f3, held)>>, {}, Nothing) EXCEPT !.imports = {1}]>> :
        pre, r, c \in BOOLEAN, m \in {{}, Locked, {Shared(0)}}, held \in SUBSET {K1}}

\* One field, three accesses, two mutexes: the field is number 1, the mutexes 0 and 2.
Seen(n, reads, ctors) ==
    {[Obs(f1, F1, n, h, r) EXCEPT !.constructor = c] :
        h \in {{}, {Exclusive(0)}, {Exclusive(2)}, {Exclusive(0), Exclusive(2)}}, r \in reads, c \in ctors}
Observed ==
    {<<Source(All, AllDecls, {x, y, z}, <<>>, {}, Nothing)>> :
        x \in Seen(1, BOOLEAN, BOOLEAN), y \in Seen(2, BOOLEAN, {FALSE}), z \in Seen(3, BOOLEAN, {FALSE})}

AllPrograms == SmallPrograms \cup Directed \cup ThreePackages \cup TwoPackages \cup Observed

\* A function started as a goroutine that is also called with the lock held.
CalledUnderLock == {<<[Accessing(<<Site(f2, f1, {K1})>>) EXCEPT !.goTargets = {f1}]>>}
=============================================================================
