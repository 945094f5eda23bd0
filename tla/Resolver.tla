------------------------------ MODULE Resolver ------------------------------
(***************************************************************************)
(* How the walk names a lock or the base of a field access: the SSA value  *)
(* is traced back to where it comes from (pkg/analyzer/resolver.go).       *)
(*                                                                         *)
(* resolvePhiIfUniform and unwrapSSAValueVisited call each other: an       *)
(* activation of the first is a frame of `stack', and `val' is the value   *)
(* that the running activation of the second looks at.                     *)
(***************************************************************************)
EXTENDS Integers, Sequences

CONSTANTS
    Phis,          \* *ssa.Phi
    Loads,         \* *ssa.UnOp with the operation token.MUL
    FieldAddrs,    \* *ssa.FieldAddr
    Others,        \* any other ssa.Value: an Alloc, a Parameter, a Global...
    Functions      \* the functions to resolve values of

Values == Phis \cup Loads \cup FieldAddrs \cup Others

\* A field of a struct: whether it is embedded, and of which of the types of sync.
StructFields == [anonymous : BOOLEAN, type : {"Mutex", "RWMutex", "other"}]

\* The three ways in: resolveLockRef, resolveEmbeddedMutexRef for a method, resolveFieldAccess.
Questions == [kind : {"lock", "embedded", "field"}, v : Values, method : {"Lock", "RLock"}]

\* edges: the operands of each phi; x: the address that a load reads, the struct whose
\* field a FieldAddr names; field: that field; struct: the fields of the one struct type.
Inputs == [edges : [Phis -> Seq(Values) \ {<<>>}], x : [Loads \cup FieldAddrs -> Values],
           field : [FieldAddrs -> Nat], struct : Seq(StructFields), questions : Seq(Questions)]

\* A value is an instruction of one kind.
ASSUME ResolverAssumption ==
    /\ Functions \subseteq Inputs
    /\ Phis \cap Loads = {} /\ (Phis \cup Loads) \cap FieldAddrs = {}

VARIABLES
    fn,        \* the input, never modified
    next,      \* the question being answered
    pc,        \* "ask", "unwrap", "edges", "done"
    val, stack, visited,      \* unwrapSSAValue
    index,     \* the field of the lockRef once it is known (else <<>>): canonicalizeBase runs
    seen,      \* canonicalizeBase
    answers    \* what was returned: a sequence of lockRefs, or of <<>> for nil

vars == <<fn, next, pc, val, stack, visited, index, seen, answers>>

-----------------------------------------------------------------------------
Question == fn.questions[next]
Top == stack[Len(stack)]

isMutexType(i) == fn.struct[i].type \in {"Mutex", "RWMutex"}
isRWMutexType(i) == fn.struct[i].type = "RWMutex"
isRWLockMethod(m) == m = "RLock"

\* unwrapSSAValue(v): the set of visited phis is a new one.
Unwrap(v) == val' = v /\ visited' = {} /\ stack' = <<>> /\ pc' = "unwrap"

\* The question is answered.
Return(answer) ==
    /\ answers' = Append(answers, answer)
    /\ next' = next + 1
    /\ pc' = "ask"
    /\ index' = <<>> /\ seen' = {} /\ UNCHANGED <<fn, val, stack, visited>>

\* resolveFieldAccess takes a FieldAddr as it is; the other two unwrap the value first.
Ask ==
    /\ pc = "ask" /\ next <= Len(fn.questions)
    /\ CASE Question.kind = "field" /\ Question.v \notin FieldAddrs -> Return(<<>>)
         [] Question.kind = "field" /\ Question.v \in FieldAddrs ->
              /\ Unwrap(fn.x[Question.v])
              /\ index' = <<fn.field[Question.v]>>
              /\ UNCHANGED <<fn, next, seen, answers>>
         [] OTHER -> Unwrap(Question.v) /\ UNCHANGED <<fn, next, index, seen, answers>>

Finish ==
    /\ pc = "ask" /\ next > Len(fn.questions)
    /\ pc' = "done"
    /\ UNCHANGED <<fn, next, val, stack, visited, index, seen, answers>>

-----------------------------------------------------------------------------
(* unwrapSSAValueVisited and resolvePhiIfUniform *)

EnterPhi ==
    /\ pc = "unwrap" /\ val \in Phis \ visited
    /\ visited' = visited \cup {val}
    /\ stack' = Append(stack, [phi |-> val, edge |-> 1, unique |-> <<>>])
    /\ pc' = "edges"
    /\ UNCHANGED <<fn, next, val, index, seen, answers>>

NextEdge ==
    /\ pc = "edges" /\ Top.edge <= Len(fn.edges[Top.phi])
    /\ val' = fn.edges[Top.phi][Top.edge]
    /\ pc' = "unwrap"
    /\ UNCHANGED <<fn, next, stack, visited, index, seen, answers>>

\* Mutant of Uniform: unwrapping goes on with a new set of visited phis (unwrapSSAValue).
UniformAnew ==
    /\ pc = "edges" /\ Top.edge > Len(fn.edges[Top.phi])
    /\ val' = Top.unique[1]
    /\ stack' = SubSeq(stack, 1, Len(stack) - 1)
    /\ visited' = {}
    /\ pc' = "unwrap"
    /\ UNCHANGED <<fn, next, index, seen, answers>>

\* All edges agree: unwrapping goes on from their value.
Uniform ==
    /\ pc = "edges" /\ Top.edge > Len(fn.edges[Top.phi])
    /\ val' = Top.unique[1]
    /\ stack' = SubSeq(stack, 1, Len(stack) - 1)
    /\ pc' = "unwrap"
    /\ UNCHANGED <<fn, next, visited, index, seen, answers>>

\* val is what unwrapping returns: not a phi, or one that was visited before.
Unwrapped == pc = "unwrap" /\ val \notin Phis \ visited

\* Mutant of EdgesAgree: a visited phi agrees with whatever the other edges are.
EdgesAgreeVisited == Top.unique \in {<<>>, <<val>>} \/ val \in Phis

EdgesAgree == Top.unique \in {<<>>, <<val>>}

EdgeAgrees ==
    /\ Unwrapped /\ stack # <<>> /\ EdgesAgree
    /\ stack' = [stack EXCEPT ![Len(stack)].unique = <<val>>, ![Len(stack)].edge = @ + 1]
    /\ pc' = "edges"
    /\ UNCHANGED <<fn, next, val, visited, index, seen, answers>>

\* The edges diverge: unwrapping the phi returns the phi.
EdgeDiverges ==
    /\ Unwrapped /\ stack # <<>> /\ ~EdgesAgree
    /\ val' = Top.phi
    /\ stack' = SubSeq(stack, 1, Len(stack) - 1)
    /\ UNCHANGED <<fn, next, pc, visited, index, seen, answers>>

-----------------------------------------------------------------------------
(* What the callers do with the unwrapped value. *)

\* The embedded mutex that a method of the struct is promoted from.
EmbeddedFields(m) ==
    {i \in DOMAIN fn.struct : /\ fn.struct[i].anonymous /\ isMutexType(i)
                              /\ isRWLockMethod(m) => isRWMutexType(i)}
FirstOf(S) == CHOOSE i \in S : \A j \in S : i <= j

\* resolveLockRef: the field must be a mutex; its struct is what canonicalizeBase is for.
FindLock ==
    /\ Unwrapped /\ stack = <<>> /\ index = <<>> /\ Question.kind = "lock"
    /\ IF val \in FieldAddrs /\ fn.field[val] \in DOMAIN fn.struct /\ isMutexType(fn.field[val])
         THEN /\ Unwrap(fn.x[val])
              /\ index' = <<fn.field[val]>>
              /\ UNCHANGED <<fn, next, seen, answers>>
         ELSE Return(<<>>)

\* resolveEmbeddedMutexRef: canonicalizeBase starts from the unwrapped receiver.
FindEmbedded ==
    /\ Unwrapped /\ stack = <<>> /\ index = <<>> /\ Question.kind = "embedded"
    /\ IF EmbeddedFields(Question.method) # {}
         THEN /\ Unwrap(val)
              /\ index' = <<FirstOf(EmbeddedFields(Question.method))>>
              /\ UNCHANGED <<fn, next, seen, answers>>
         ELSE Return(<<>>)

\* canonicalizeBase: through a load, to the cell it reads.
ThroughLoad ==
    /\ Unwrapped /\ stack = <<>> /\ index # <<>> /\ val \in Loads \ seen
    /\ Unwrap(fn.x[val])
    /\ seen' = seen \cup {val}
    /\ UNCHANGED <<fn, next, index, answers>>

BaseFound ==
    /\ Unwrapped /\ stack = <<>> /\ index # <<>> /\ val \notin Loads \ seen
    /\ Return([base |-> val, field |-> index[1]])

-----------------------------------------------------------------------------
Init ==
    /\ fn \in Functions
    /\ next = 1 /\ pc = "ask"
    /\ val = fn.questions[1].v /\ stack = <<>> /\ visited = {}
    /\ index = <<>> /\ seen = {} /\ answers = <<>>

Next ==
    \/ Ask \/ Finish
    \/ EnterPhi \/ NextEdge \/ Uniform \/ EdgeAgrees \/ EdgeDiverges
    \/ FindLock \/ FindEmbedded \/ ThroughLoad \/ BaseFound

Spec == Init /\ [][Next]_vars

-----------------------------------------------------------------------------
\* Where the value of v may come from, one step back.
Sources(v) ==
    CASE v \in Phis -> {fn.edges[v][i] : i \in DOMAIN fn.edges[v]}
      [] v \in Loads -> {fn.x[v]}
      [] OTHER -> {}

\* Every way back from v through values of T comes by b.
OnlyWay(v, b, T) ==
    v # b => \E S \in SUBSET T : v \in S /\ \A u \in S : Sources(u) \subseteq S \cup {b}

\* ref is a lock or a field of the struct that question q is about.
Denotes(ref, q) ==
    \/ q.kind = "embedded" /\ OnlyWay(q.v, ref.base, Phis \cup Loads)
    \/ q.kind # "embedded" /\ \E a \in FieldAddrs :
         /\ OnlyWay(q.v, a, Phis) /\ ref.field = fn.field[a]
         /\ OnlyWay(fn.x[a], ref.base, Phis \cup Loads)

\* A lockRef stands for the value it was found for: whatever operand of a phi the
\* execution came by, the value went through the base.  The visited set, which cuts a
\* cycle of phis at a place that depends on where the trace came in, never makes one
\* operand speak for the others.
BaseSound ==
    \A i \in DOMAIN answers : answers[i] # <<>> => Denotes(answers[i], fn.questions[i])

\* The struct that a question on one FieldAddr, or on a receiver, is about.
Asked(q) ==
    CASE q.kind = "embedded" -> {q.v}
      [] q.v \in FieldAddrs -> {fn.x[q.v]}
      [] OTHER -> {}

\* A base is its own base: a lock taken through a value and released through the base
\* of that value is one lock, although the second trace enters the phis elsewhere.
BaseStable ==
    \A i, j \in DOMAIN answers : (answers[i] # <<>> /\ answers[j] # <<>>) =>
      (Asked(fn.questions[j]) = {answers[i].base} => answers[j].base = answers[i].base)

\* The recursion of resolvePhiIfUniform and unwrapSSAValueVisited ends on every cycle of
\* phis ("the visited set prevents infinite recursion"): no phi is resolved within its own
\* resolution, although unwrapping goes on from the value that the operands agree on.
NoPhiWithinItself ==
    \A i, j \in DOMAIN stack : stack[i].phi = stack[j].phi => i = j
=============================================================================
