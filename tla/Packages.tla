------------------------------- MODULE Packages ------------------------------
(***************************************************************************)
(* Packages for the model checker: every way to fill the blocks of a few   *)
(* control-flow graphs with lock operations on a mutex.                    *)
(***************************************************************************)
EXTENDS Integers, Sequences, TLC

CONSTANTS a, b, K1, K2, S1, S2, F1, F2, nopos

MCLockRefs == {a, b}
MCKeyOf == (a :> K1) @@ (b :> K2)
MCBaseOf == (a :> S1) @@ (b :> S2)
MCPositions == {nopos} \cup (1..400)

\* Control-flow graphs as the successors of each block.
Diamond == <<<<2, 3>>, <<4>>, <<4>>, <<>>>>
ThreeIn == <<<<2, 4>>, <<3, 4>>, <<4>>, <<>>>>     \* if c1 && c2: three ways in
While   == <<<<2>>, <<3, 4>>, <<2>>, <<>>>>
Break   == <<<<2>>, <<3, 4>>, <<2, 4>>, <<>>>>
Irreducible == <<<<2, 3>>, <<3, 4>>, <<2, 4>>, <<>>>>    \* goto into a loop
Returns == <<<<2, 3>>, <<>>, <<2, 4>>, <<>>>>      \* two returns
MergeLoop == <<<<2, 3>>, <<3>>, <<4>>, <<3>>>>     \* if c {...}; for {...}

Op(op, ref, mode) == [op |-> op, ref |-> ref, mode |-> mode]
L(r) == Op("lock", r, "exclusive")
R(r) == Op("lock", r, "shared")
U(r) == Op("unlock", r, "exclusive")
D(r) == Op("deferUnlock", r, "exclusive")
ReadOf(r) == [op |-> "access", isRead |-> TRUE,
              chain |-> <<[field |-> F1, base |-> MCBaseOf[r]], [field |-> F2, base |-> MCBaseOf[r]]>>]
CallTo(f) == [op |-> "call", callee |-> f]
Ret == [op |-> "return"]
DL(r) == [op |-> "deferLock", ref |-> r]
Nop == [op |-> "other"]

AtPos(i, pos) == [pos |-> pos] @@ i

\* Code with source positions, all different; a block without successors ends in a
\* return statement.  The last one of the function may be implicit, without a position.
Positioned(f, n, code) == [i \in DOMAIN code |-> AtPos(code[i], 100 * f + 10 * n + i)]
Return1(f, n, explicit) == AtPos(Ret, IF explicit THEN 100 * f + 10 * n + 9 ELSE nopos)
Fill(f, shape, codes, explicit) ==
    [n \in DOMAIN shape |->
       [instrs |-> Positioned(f, n, codes[n])
                     \o IF shape[n] = <<>> THEN <<Return1(f, n, explicit \/ n < Len(shape))>> ELSE <<>>,
        succs  |-> shape[n]]]

\* All functions with the given shapes and block codes, as function number f.
Fills(f, shapes, codes, explicit) ==
    UNION {{Fill(f, s, c, explicit) : c \in [DOMAIN s -> codes]} : s \in shapes}
Single(functions) == {<<body>> : body \in functions}

Shapes == {Diamond, ThreeIn, While, Break, Irreducible, Returns}

\* One RWMutex, locked in both modes.
OneMutex == Single(Fills(1, Shapes, {<<>>, <<L(a)>>, <<R(a)>>, <<U(a)>>, <<D(a)>>}, TRUE))

\* Plain mutexes, one and two of them; accesses to the struct of one.
PlainMutex == Single(Fills(1, Shapes, {<<>>, <<L(a)>>, <<U(a)>>, <<D(a)>>, <<CallTo(1), U(a)>>}, TRUE))
TwoMutexes == Single(Fills(1, {Diamond, ThreeIn, While, Irreducible},
                           {<<>>, <<L(a)>>, <<L(b)>>, <<CallTo(1), U(a), L(b)>>}, TRUE))
\* Accesses, deferred locks and instructions that the walk passes over.
OtherCode == Single(Fills(1, {Diamond, Returns}, {<<L(a), ReadOf(a)>>, <<U(a), DL(b), Nop>>}, FALSE))
\* Loops whose header is a merge: re-walks of blocks that change other locks than the
\* ones the visits differ in, some of them without an end.
MergedLoops == Single(Fills(1, {MergeLoop}, {<<>>, <<L(a)>>, <<L(b)>>, <<U(a), L(b)>>, <<U(a), U(b)>>}, TRUE))
\* Merges of paths that have locked, deferred the unlock, or neither.
DeferredMerges == Single(Fills(1, {ThreeIn}, {<<L(a)>>, <<L(b)>>, <<D(b)>>, <<U(a)>>}, TRUE))
AllFunctions == OneMutex \cup PlainMutex \cup TwoMutexes \cup OtherCode \cup MergedLoops \cup DeferredMerges
Accesses == Single(Fills(1, {Diamond, While}, {<<>>, <<L(a)>>, <<ReadOf(a)>>, <<U(a)>>}, TRUE))

\* go/ssa gives a function with a defer a Recover block: no block leads to it, and it
\* ends in a return without a position.  The walk never gets there; Leaks counts it.
Defers(body) == \E n \in DOMAIN body : \E i \in DOMAIN body[n].instrs :
                   body[n].instrs[i].op \in {"deferUnlock", "deferLock"}
WithRecover(body) ==
    IF Defers(body) THEN Append(body, [instrs |-> <<AtPos(Ret, nopos)>>, succs |-> <<>>]) ELSE body

\* Packages of three functions, the second one without a body (declared only).
Straight == <<<<>>>>
ThreeFunctions(explicit1, explicit3) ==
    {<<WithRecover(f), <<>>, WithRecover(g)>> :
       f \in Fills(1, {While, Returns}, {<<L(a), ReadOf(a)>>, <<U(a), DL(b), Nop>>}, explicit1),
       g \in Fills(3, {Straight, Diamond}, {<<L(b), D(b)>>, <<CallTo(1), L(a)>>}, explicit3)}
ImplicitReturns == ThreeFunctions(FALSE, FALSE)

\* Helpers that lock, on some or all paths, and callers that unlock or do not; the
\* fourth function belongs to another package.
Fork == <<<<2, 3>>, <<>>, <<>>>>
Helpers == Fills(1, {While}, {<<>>, <<L(a)>>, <<D(a)>>}, TRUE)
             \cup Fills(1, {Fork}, {<<>>, <<L(a)>>, <<L(b)>>, <<D(a)>>}, TRUE)
             \cup Fills(1, {Straight}, {<<L(a), L(b)>>, <<ReadOf(a), L(a)>>, <<L(a), DL(a)>>, <<L(a), U(a)>>}, TRUE)
Callers == Fills(3, {Straight}, {<<>>, <<CallTo(1)>>, <<CallTo(1), U(a)>>, <<CallTo(1), D(a)>>, <<CallTo(4)>>,
                                 <<CallTo(1), L(a)>>, <<L(a), CallTo(1), U(b)>>, <<CallTo(4), U(a)>>,
                                 <<CallTo(4), U(b)>>, <<Nop, CallTo(1), ReadOf(a)>>}, TRUE)
             \cup Fills(3, {Fork}, {<<CallTo(1)>>, <<U(a), Nop>>}, TRUE)
HelpersAndCallers == {<<WithRecover(f), <<>>, WithRecover(g)>> : f \in Helpers, g \in Callers}

LeakPackages == ThreeFunctions(TRUE, TRUE) \cup ThreeFunctions(TRUE, FALSE) \cup ImplicitReturns
                  \cup HelpersAndCallers

MCFuncPos == [f \in 1..4 |-> 100 * f]
MCGuardOf == (F1 :> K1) @@ (F2 :> K1)
\* The third function is a constructor of the accessed struct, and its call in second
\* place precedes the publication.
MCConstructorLike == {<<3, F1>>, <<3, F2>>}
MCPrePublication == {<<3, 312>>}
MCImported == [f \in 1..4 |-> IF f = 4 THEN {K1} ELSE {}]
MCImportedRequires == [f \in 1..4 |-> IF f = 4 THEN {K2} ELSE {}]
IgnoredCalls == {<<3, 311>>, <<1, 129>>}
=============================================================================
