---------------------------- MODULE Publication ----------------------------
(***************************************************************************)
(* A constructor that calls a method of the struct it builds: the call is  *)
(* exempt from the method's lock requirement when no instruction at an     *)
(* earlier source position publishes the receiver                          *)
(* (isPrePublicationConstructorCall in pkg/analyzer/interprocedural.go).   *)
(*                                                                         *)
(* The state is that of an execution of the constructor; the judgement on  *)
(* its calls is the operator isPrePublicationConstructorCall.              *)
(***************************************************************************)
EXTENDS Integers, Sequences

CONSTANTS
    Values,          \* ssa.Value
    LocalAllocs,     \* the values isLocalAlloc accepts: an Alloc that is not of the heap
    Constructors     \* the functions to execute: [code, succs], the instructions of each
                     \* basic block and the blocks that may follow it; an instruction is
                     \* [op, value, pos], a "store" with the addr it stores to

VARIABLES
    fn,           \* the constructor, never modified
    block, pc,    \* where the execution is
    published     \* the values that shared state refers to

vars == <<fn, block, pc, published>>

-----------------------------------------------------------------------------
isLocalAlloc(v) == v \in LocalAllocs

\* inst stores v into a map, or into something else that is not local.
Publishes(inst, v) ==
    \/ inst.op = "map" /\ inst.value = v
    \/ inst.op = "store" /\ inst.value = v /\ inst.addr # v /\ ~isLocalAlloc(inst.addr)

\* The scan of the caller's blocks.  (The callee is a method on a pointer to the struct
\* that the caller constructs, and a position of 0 is no position.)
isPrePublicationConstructorCall(call) ==
    /\ call.pos # 0
    /\ \A b \in DOMAIN fn.code : \A i \in DOMAIN fn.code[b] :
         LET inst == fn.code[b][i]
         IN  ~(inst.pos # 0 /\ inst.pos < call.pos /\ Publishes(inst, call.value))

-----------------------------------------------------------------------------
(* The execution. *)

Instr == fn.code[block][pc]

Execute ==
    /\ pc <= Len(fn.code[block])
    /\ published' = published \cup {v \in Values : Publishes(Instr, v)}
    /\ pc' = pc + 1
    /\ UNCHANGED <<fn, block>>

Branch(b) ==
    /\ pc > Len(fn.code[block]) /\ b \in fn.succs[block]
    /\ block' = b /\ pc' = 1
    /\ UNCHANGED <<fn, published>>

Init == fn \in Constructors /\ block = 1 /\ pc = 1 /\ published = {}

Next == Execute \/ \E b \in DOMAIN fn.code : Branch(b)

Spec == Init /\ [][Next]_vars

-----------------------------------------------------------------------------
\* "It may treat some pre-publication calls as post-publication (still reporting
\* violations), but never the reverse": a call judged to come before the publication
\* is never executed on a struct that has been published.
NeverTheReverse ==
    (pc <= Len(fn.code[block]) /\ Instr.op = "call" /\ isPrePublicationConstructorCall(Instr)) =>
       Instr.value \notin published
=============================================================================
