--------------------------- MODULE ResolverProofs ---------------------------
(***************************************************************************)
(* What the resolver answers is right, for every graph of phis and loads:  *)
(* the set of visited phis, which makes the answer depend on where a trace *)
(* enters a cycle, can leave a phi unresolved but never resolves it wrong. *)
(***************************************************************************)
EXTENDS Resolver, StackLemmas

Frames == [phi : Phis, edge : Nat \ {0}, unique : {<<>>} \cup {<<v>> : v \in Values}]
Refs == [base : Values, field : Nat]

Running == pc \in {"unwrap", "edges"}

\* The types of the variables, and which question is being answered.
RTypeOK ==
    /\ fn \in Inputs
    /\ next \in Nat \ {0}
    /\ pc \in {"ask", "unwrap", "edges", "done"}
    /\ stack \in Seq(Frames)
    /\ index \in Seq(Nat)
    /\ answers \in Seq({<<>>} \cup Refs) /\ Len(answers) = next - 1
    /\ Running => next <= Len(fn.questions) /\ val \in Values
    /\ ~Running => index = <<>>
    /\ pc = "edges" => stack # <<>>

\* The operand that the activation of frame f is looking at.
Operand(f) == fn.edges[f.phi][f.edge]

\* The operands looked at so far all come from the value that the frame keeps.
Agreed(f) ==
    /\ f.edge > 1 => f.unique # <<>>
    /\ \A j \in DOMAIN fn.edges[f.phi] : j < f.edge => OnlyWay(fn.edges[f.phi][j], f.unique[1], Phis)

\* What activation i of unwrapSSAValueVisited was called for: r, the first time.
Wanted(r, i) == IF i = 0 THEN r ELSE Operand(stack[i])

\* Each open activation has come from what it was called for to its phi, the last to val.
Traced(r) ==
    /\ \A i \in 1..Len(stack) : Agreed(stack[i])
    /\ \A i \in 1..Len(stack) :
         (i < Len(stack) \/ pc = "unwrap") => stack[i].edge <= Len(fn.edges[stack[i].phi])
    /\ \A i \in 1..Len(stack) : OnlyWay(Wanted(r, i - 1), stack[i].phi, Phis)
    /\ pc = "unwrap" => OnlyWay(Wanted(r, Len(stack)), val, Phis)

\* unwrapSSAValue was called for the value of the question or, from canonicalizeBase, for
\* one that would answer the question.
Called(r) ==
    /\ index = <<>> => Question.kind # "field" /\ r = Question.v
    /\ index # <<>> => Denotes([base |-> r, field |-> index[1]], Question)

RInv == RTypeOK /\ BaseSound /\ (Running => \E r \in Values : Called(r) /\ Traced(r))

-----------------------------------------------------------------------------
(* Ways back from a value. *)

\* Whatever is in T comes from a value of T or from b.
Closed(T, b) == \A u \in T : Sources(u) \subseteq T \cup {b}

LEMMA ThereAlready ==
    ASSUME NEW v, NEW T PROVE OnlyWay(v, v, T)
BY DEF OnlyWay

LEMMA ClosedUnion ==
    ASSUME NEW b, NEW c, NEW S, NEW T, Closed(S, b), Closed(T, c), b = c \/ b \in T
    PROVE  Closed(S \cup T, c)
BY DEF Closed

LEMMA OneWayOn ==
    ASSUME NEW v, NEW b, NEW c, NEW T, OnlyWay(v, b, T), OnlyWay(b, c, T)
    PROVE  OnlyWay(v, c, T)
<1>1. CASE v = b \/ v = c \/ b = c
  BY <1>1 DEF OnlyWay
<1>2. CASE v # b /\ v # c /\ b # c
  <2>1. PICK S1 \in SUBSET T : v \in S1 /\ Closed(S1, b)
    BY <1>2 DEF OnlyWay, Closed
  <2>2. PICK S2 \in SUBSET T : b \in S2 /\ Closed(S2, c)
    BY <1>2 DEF OnlyWay, Closed
  <2>3. Closed(S1 \cup S2, c)
    BY <2>1, <2>2, ClosedUnion
  <2>4. S1 \cup S2 \in SUBSET T /\ v \in S1 \cup S2
    BY <2>1, <2>2
  <2> QED
    BY <2>3, <2>4 DEF OnlyWay, Closed
<1> QED
  BY <1>1, <1>2

LEMMA OneWayWider ==
    ASSUME NEW v, NEW b, NEW T, NEW U, T \subseteq U, OnlyWay(v, b, T)
    PROVE  OnlyWay(v, b, U)
<1>1. SUBSET T \subseteq SUBSET U
  OBVIOUS
<1> QED
  BY <1>1 DEF OnlyWay

LEMMA SourcesOfPhi ==
    ASSUME NEW p \in Phis PROVE Sources(p) = {fn.edges[p][i] : i \in DOMAIN fn.edges[p]}
BY ResolverAssumption DEF Sources

LEMMA SourcesOfLoad ==
    ASSUME NEW l \in Loads PROVE Sources(l) = {fn.x[l]}
BY ResolverAssumption DEF Sources

\* resolvePhiIfUniform: if all the operands come by u, so does the phi.
LEMMA PhiOneWay ==
    ASSUME NEW p \in Phis, NEW u, \A j \in DOMAIN fn.edges[p] : OnlyWay(fn.edges[p][j], u, Phis)
    PROVE  OnlyWay(p, u, Phis)
<1> DEFINE C == {T \in SUBSET Phis : Closed(T, u)}
           S == {p} \cup UNION C
<1>1. S \in SUBSET Phis /\ p \in S
  OBVIOUS
<1>2. ASSUME NEW w \in UNION C PROVE Sources(w) \subseteq S \cup {u}
  BY <1>2 DEF Closed
<1>3. Sources(p) \subseteq S \cup {u}
  <2> SUFFICES ASSUME NEW j \in DOMAIN fn.edges[p], fn.edges[p][j] # u PROVE fn.edges[p][j] \in UNION C
    BY SourcesOfPhi
  <2>1. PICK T \in SUBSET Phis : fn.edges[p][j] \in T /\ Closed(T, u)
    BY DEF OnlyWay, Closed
  <2> QED
    BY <2>1
<1>4. \A w \in S : Sources(w) \subseteq S \cup {u}
  BY <1>2, <1>3
<1> QED
  <2> HIDE DEF S
  <2> QED
    BY <1>1, <1>4 DEF OnlyWay

LEMMA LoadOneWay ==
    ASSUME NEW l \in Loads PROVE OnlyWay(l, fn.x[l], Phis \cup Loads)
<1>1. {l} \in SUBSET (Phis \cup Loads) /\ l \in {l}
  OBVIOUS
<1>2. \A w \in {l} : Sources(w) \subseteq {l} \cup {fn.x[l]}
  BY SourcesOfLoad
<1> QED
  BY <1>1, <1>2 DEF OnlyWay

\* The function is only read.
LEMMA SameFunction ==
    ASSUME fn' = fn
    PROVE  /\ \A v, b, T : OnlyWay(v, b, T)' <=> OnlyWay(v, b, T)
           /\ \A ref, q : Denotes(ref, q)' <=> Denotes(ref, q)
<1>1. \A v : Sources(v)' = Sources(v)
  BY DEF Sources
<1>2. \A v, b, T : OnlyWay(v, b, T)' <=> OnlyWay(v, b, T)
  BY <1>1 DEF OnlyWay
<1>3. \A ref, q : Denotes(ref, q)' <=> Denotes(ref, q)
  BY <1>2 DEF Denotes
<1> QED
  BY <1>2, <1>3

\* An answer that is a step further back is an answer too.
LEMMA DenotesOn ==
    ASSUME NEW q, NEW b, NEW c, NEW f,
           Denotes([base |-> b, field |-> f], q), OnlyWay(b, c, Phis \cup Loads)
    PROVE  Denotes([base |-> c, field |-> f], q)
<1>1. CASE q.kind = "embedded"
  BY <1>1, OneWayOn DEF Denotes
<1>2. CASE q.kind # "embedded"
  <2>1. PICK a \in FieldAddrs :
          /\ OnlyWay(q.v, a, Phis) /\ f = fn.field[a]
          /\ OnlyWay(fn.x[a], b, Phis \cup Loads)
    BY <1>2 DEF Denotes
  <2>2. OnlyWay(fn.x[a], c, Phis \cup Loads)
    BY <2>1, OneWayOn
  <2> QED
    BY <1>2, <2>1, <2>2 DEF Denotes
<1> QED
  BY <1>1, <1>2

-----------------------------------------------------------------------------
(* Types. *)

LEMMA InputTypes ==
    ASSUME fn \in Inputs
    PROVE  /\ \A p \in Phis : /\ fn.edges[p] \in Seq(Values) /\ fn.edges[p] # <<>>
                              /\ Len(fn.edges[p]) \in Nat \ {0}
                              /\ DOMAIN fn.edges[p] = 1..Len(fn.edges[p])
                              /\ \A i \in 1..Len(fn.edges[p]) : fn.edges[p][i] \in Values
           /\ \A v \in Loads \cup FieldAddrs : fn.x[v] \in Values
           /\ \A a \in FieldAddrs : fn.field[a] \in Nat
           /\ fn.questions \in Seq(Questions) /\ Len(fn.questions) \in Nat
           /\ \A i \in 1..Len(fn.questions) : fn.questions[i] \in Questions
           /\ fn.struct \in Seq(StructFields)
<1>1. /\ fn.edges \in [Phis -> Seq(Values) \ {<<>>}] /\ fn.x \in [Loads \cup FieldAddrs -> Values]
      /\ fn.field \in [FieldAddrs -> Nat] /\ fn.struct \in Seq(StructFields) /\ fn.questions \in Seq(Questions)
  BY DEF Inputs
<1>2. \A p \in Phis : fn.edges[p] \in Seq(Values) /\ fn.edges[p] # <<>>
  BY <1>1
<1>3. \A p \in Phis : /\ Len(fn.edges[p]) \in Nat \ {0}
                      /\ DOMAIN fn.edges[p] = 1..Len(fn.edges[p])
                      /\ \A i \in 1..Len(fn.edges[p]) : fn.edges[p][i] \in Values
  <2> SUFFICES ASSUME NEW s \in Seq(Values), s # <<>>
               PROVE  /\ Len(s) \in Nat \ {0} /\ DOMAIN s = 1..Len(s)
                      /\ \A i \in 1..Len(s) : s[i] \in Values
    BY <1>2
  <2> QED
    BY EmptySeq
<1>4. Len(fn.questions) \in Nat /\ \A i \in 1..Len(fn.questions) : fn.questions[i] \in Questions
  BY <1>1
<1> QED
  BY <1>1, <1>2, <1>3, <1>4

\* The question is one of the function's.
LEMMA QuestionType ==
    ASSUME RTypeOK, next <= Len(fn.questions)
    PROVE  /\ Question \in Questions /\ Question.v \in Values
           /\ Question.kind \in {"lock", "embedded", "field"}
<1>1. next \in 1..Len(fn.questions)
  BY InputTypes DEF RTypeOK
<1>2. Question \in Questions
  BY <1>1, InputTypes DEF RTypeOK, Question
<1> QED
  BY <1>2 DEF Questions

LEMMA EmbeddedIndex ==
    ASSUME fn \in Inputs, NEW m, EmbeddedFields(m) # {}
    PROVE  FirstOf(EmbeddedFields(m)) \in Nat
<1>1. EmbeddedFields(m) \in SUBSET Nat
  <2>1. fn.struct \in Seq(StructFields)
    BY InputTypes
  <2>2. DOMAIN fn.struct \subseteq Nat
    BY <2>1
  <2> QED
    BY <2>2 DEF EmbeddedFields
<1>2. PICK i \in EmbeddedFields(m) : \A j \in EmbeddedFields(m) : i <= j
  BY <1>1, LeastNatural
<1>3. FirstOf(EmbeddedFields(m)) \in EmbeddedFields(m)
  BY <1>2 DEF FirstOf
<1> QED
  BY <1>1, <1>3

\* The frame on top of the stack.
LEMMA TopType ==
    ASSUME RTypeOK, stack # <<>>
    PROVE  /\ Len(stack) \in Nat \ {0} /\ Top \in Frames
           /\ Top.phi \in Phis /\ Top.edge \in Nat \ {0}
<1>1. stack \in Seq(Frames)
  BY DEF RTypeOK
<1>2. Len(stack) \in Nat \ {0}
  BY <1>1, EmptySeq
<1>3. Top \in Frames
  BY <1>1, <1>2 DEF Top
<1> QED
  BY <1>2, <1>3 DEF Frames

\* The operand that resolvePhiIfUniform looks at next, and what it has found in the end.
LEMMA TopTraced ==
    ASSUME RTypeOK, NEW r, Traced(r), stack # <<>>
    PROVE  /\ Agreed(Top)
           /\ pc = "unwrap" => Top.edge <= Len(fn.edges[Top.phi])
           /\ Top.edge <= Len(fn.edges[Top.phi]) => Operand(Top) \in Values
           /\ Top.edge > Len(fn.edges[Top.phi]) => Top.unique # <<>> /\ Top.unique[1] \in Values
<1>1. Len(stack) \in 1..Len(stack)
  BY TopType
<1>2. Agreed(Top) /\ (pc = "unwrap" => Top.edge <= Len(fn.edges[Top.phi]))
  BY <1>1, TopType DEF Traced, Top
<1>3. /\ Len(fn.edges[Top.phi]) \in Nat \ {0}
      /\ \A i \in 1..Len(fn.edges[Top.phi]) : fn.edges[Top.phi][i] \in Values
  BY TopType, InputTypes DEF RTypeOK
<1>4. Top.edge <= Len(fn.edges[Top.phi]) => Operand(Top) \in Values
  BY <1>3, TopType DEF Operand
<1>5. ASSUME Top.edge > Len(fn.edges[Top.phi]) PROVE Top.unique # <<>> /\ Top.unique[1] \in Values
  <2>1. Top.unique # <<>>
    BY <1>2, <1>3, <1>5, TopType DEF Agreed
  <2> QED
    BY <2>1, TopType DEF Frames
<1> QED
  BY <1>2, <1>4, <1>5

-----------------------------------------------------------------------------
(* unwrapSSAValue starts. *)

LEMMA UnwrapStarts ==
    ASSUME NEW v \in Values, Unwrap(v)
    PROVE  Traced(v)' /\ stack' \in Seq(Frames) /\ pc' = "unwrap" /\ val' \in Values
<1>1. stack' = <<>> /\ pc' = "unwrap" /\ val' = v
  BY DEF Unwrap
<1>2. stack' \in Seq(Frames) /\ Len(stack') = 0
  BY <1>1
<1>3. OnlyWay(v, v, Phis)'
  BY DEF OnlyWay
<1> QED
  BY <1>1, <1>2, <1>3 DEF Traced, Wanted

\* An answer: the trace is over.
LEMMA ReturnKeeps ==
    ASSUME RInv, NEW answer \in {<<>>} \cup Refs, Return(answer), next <= Len(fn.questions),
           answer # <<>> => Denotes(answer, Question)
    PROVE  RInv'
<1>1. /\ fn' = fn /\ next' = next + 1 /\ pc' = "ask" /\ stack' = stack /\ index' = <<>>
      /\ answers' = Append(answers, answer)
  BY DEF Return
<1>2. RTypeOK /\ BaseSound
  BY DEF RInv
<1>3. /\ answers' \in Seq({<<>>} \cup Refs) /\ Len(answers') = Len(answers) + 1
      /\ \A k \in 1..(Len(answers) + 1) : answers'[k] = IF k = Len(answers) + 1 THEN answer ELSE answers[k]
  BY <1>1, <1>2, Push DEF RTypeOK
<1>4. RTypeOK'
  BY <1>1, <1>2, <1>3 DEF RTypeOK, Running
<1>5. BaseSound'
  <2> SUFFICES ASSUME NEW k \in DOMAIN answers', answers'[k] # <<>>
               PROVE  Denotes(answers'[k], fn.questions[k])
    BY <1>1, SameFunction DEF BaseSound
  <2>1. Len(answers) = next - 1 /\ next \in Nat /\ answers \in Seq({<<>>} \cup Refs) /\ k \in 1..(Len(answers) + 1)
    BY <1>2, <1>3 DEF RTypeOK
  <2>2. CASE k = Len(answers) + 1
    <3>1. k = next
      BY <2>1, <2>2
    <3> QED
      BY <1>3, <2>1, <2>2, <3>1 DEF Question
  <2>3. CASE k # Len(answers) + 1
    <3>1. k \in DOMAIN answers /\ answers'[k] = answers[k]
      BY <1>3, <2>1, <2>3
    <3> QED
      BY <1>2, <3>1 DEF BaseSound
  <2> QED
    BY <2>2, <2>3
<1> QED
  BY <1>1, <1>4, <1>5 DEF RInv, Running

\* A step that goes on with the question.
LEMMA GoesOn ==
    ASSUME RInv, fn' = fn, next' = next, answers' = answers, next <= Len(fn.questions),
           stack' \in Seq(Frames), index' \in Seq(Nat), pc' \in {"unwrap", "edges"}, val' \in Values,
           pc' = "edges" => stack' # <<>>,
           NEW r \in Values, Called(r)', Traced(r)'
    PROVE  RInv'
<1>1. RTypeOK'
  BY DEF RInv, RTypeOK, Running
<1>2. BaseSound'
  BY SameFunction DEF RInv, BaseSound
<1> QED
  BY <1>1, <1>2 DEF RInv

-----------------------------------------------------------------------------
(* The steps of unwrapSSAValueVisited and resolvePhiIfUniform. *)

LEMMA CalledStill ==
    ASSUME UNCHANGED <<fn, next, index>>, NEW r, Called(r) PROVE Called(r)'
BY SameFunction DEF Called, Question

LEMMA AgreedStill ==
    ASSUME UNCHANGED fn, NEW f PROVE (Agreed(f)' <=> Agreed(f)) /\ Operand(f)' = Operand(f)
BY SameFunction DEF Agreed, Operand

LEMMA EnterPhiTraced ==
    ASSUME RInv, EnterPhi PROVE RInv'
<1>1. RTypeOK /\ pc = "unwrap" /\ val \in Phis
  BY DEF RInv, EnterPhi
<1>2. PICK r \in Values : Called(r) /\ Traced(r)
  BY <1>1 DEF RInv, Running
<1> DEFINE f == [phi |-> val, edge |-> 1, unique |-> <<>>]
<1>3. f \in Frames
  BY <1>1 DEF Frames
<1>4. /\ stack' = Append(stack, f) /\ pc' = "edges" /\ UNCHANGED <<fn, next, val, index, answers>>
  BY DEF EnterPhi
<1>5. /\ stack' \in Seq(Frames) /\ Len(stack') = Len(stack) + 1 /\ Len(stack) \in Nat
      /\ \A k \in 1..(Len(stack) + 1) : stack'[k] = IF k = Len(stack) + 1 THEN f ELSE stack[k]
  BY <1>1, <1>3, <1>4, Push DEF RTypeOK
<1>6. Agreed(f)
  <2>1. \A j \in DOMAIN fn.edges[f.phi] : j \in Nat /\ j >= 1
    BY <1>1, InputTypes DEF RTypeOK
  <2> QED
    BY <2>1 DEF Agreed
<1>7. Traced(r)'
  <2>1. \A i \in 1..Len(stack') : Agreed(stack'[i])
    BY <1>2, <1>5, <1>6 DEF Traced
  <2>2. ASSUME NEW i \in 1..Len(stack'), i < Len(stack')
        PROVE  stack'[i].edge <= Len(fn.edges[stack'[i].phi])
    <3>1. i \in 1..Len(stack) /\ stack'[i] = stack[i]
      BY <1>5, <2>2
    <3> QED
      BY <1>1, <1>2, <3>1 DEF Traced
  <2>3. ASSUME NEW i \in 1..Len(stack')
        PROVE  OnlyWay(IF i - 1 = 0 THEN r ELSE Operand(stack'[i - 1]), stack'[i].phi, Phis)
    <3>1. (IF i - 1 = 0 THEN r ELSE Operand(stack'[i - 1])) = Wanted(r, i - 1)
      <4>1. i - 1 # 0 => i - 1 \in 1..Len(stack)
        BY <1>5
      <4> QED
        BY <1>5, <4>1 DEF Wanted
    <3>2. CASE i = Len(stack')
      <4>1. stack'[i].phi = val /\ i - 1 = Len(stack)
        BY <1>5, <3>2
      <4> QED
        BY <1>1, <1>2, <3>1, <4>1 DEF Traced
    <3>3. CASE i # Len(stack')
      <4>1. i \in 1..Len(stack) /\ stack'[i] = stack[i]
        BY <1>5, <3>3
      <4> QED
        BY <1>2, <3>1, <4>1 DEF Traced
    <3> QED
      BY <3>2, <3>3
  <2>4. pc' = "edges"
    BY <1>4
  <2> QED
    BY <1>4, <2>1, <2>2, <2>3, <2>4, AgreedStill, SameFunction DEF Traced, Wanted
<1>8. val' \in Values /\ next <= Len(fn.questions) /\ index' \in Seq(Nat) /\ stack' # <<>>
  BY <1>1, <1>4, <1>5 DEF RTypeOK, Running
<1>9. Called(r)'
  BY <1>2, <1>4, CalledStill
<1> QED
  BY <1>4, <1>5, <1>7, <1>8, <1>9, GoesOn

LEMMA NextEdgeTraced ==
    ASSUME RInv, NextEdge PROVE RInv'
<1>1. RTypeOK /\ pc = "edges" /\ stack # <<>> /\ Top.edge <= Len(fn.edges[Top.phi])
  BY DEF RInv, RTypeOK, NextEdge
<1>2. PICK r \in Values : Called(r) /\ Traced(r)
  BY <1>1 DEF RInv, Running
<1>3. val' = Operand(Top) /\ pc' = "unwrap" /\ UNCHANGED <<fn, next, stack, index, answers>>
  BY DEF NextEdge, Operand
<1>4. Len(stack) \in Nat \ {0} /\ val' \in Values
  BY <1>1, <1>2, <1>3, TopType, TopTraced
<1>5. Traced(r)'
  <2>1. OnlyWay(Wanted(r, Len(stack)), val', Phis)
    BY <1>3, <1>4, ThereAlready DEF Wanted, Top
  <2>2. \A i \in 1..Len(stack) : stack[i].edge <= Len(fn.edges[stack[i].phi])
    BY <1>1, <1>2, <1>4 DEF Traced, Top
  <2>3. \A i : Wanted(r, i)' = Wanted(r, i)
    BY <1>3 DEF Wanted, Operand
  <2> QED
    BY <1>2, <1>3, <2>1, <2>2, <2>3, AgreedStill, SameFunction DEF Traced
<1>6. next <= Len(fn.questions) /\ index' \in Seq(Nat) /\ stack' \in Seq(Frames)
  BY <1>1, <1>3 DEF RTypeOK, Running
<1>7. Called(r)'
  BY <1>2, <1>3, CalledStill
<1> QED
  BY <1>3, <1>4, <1>5, <1>6, <1>7, GoesOn

\* resolvePhiIfUniform returns, and unwrapping goes on from w.
LEMMA PopTraced ==
    ASSUME RInv, Running, stack # <<>>, NEW w \in Values, OnlyWay(Top.phi, w, Phis),
           stack' = SubSeq(stack, 1, Len(stack) - 1), val' = w, pc' = "unwrap",
           UNCHANGED <<fn, next, index, answers>>
    PROVE  RInv'
<1>1. RTypeOK
  BY DEF RInv
<1>2. PICK r \in Values : Called(r) /\ Traced(r)
  BY DEF RInv
<1>3. /\ stack' \in Seq(Frames) /\ Len(stack') = Len(stack) - 1 /\ Len(stack) \in Nat \ {0}
      /\ \A k \in 1..(Len(stack) - 1) : stack'[k] = stack[k]
  BY <1>1, Pop, TopType DEF RTypeOK
<1>4. Traced(r)'
  <2>1. \A i \in 1..Len(stack') : i \in 1..Len(stack) /\ i < Len(stack) /\ stack'[i] = stack[i]
    BY <1>3
  <2>2. \A i \in 0..Len(stack') : Wanted(r, i)' = Wanted(r, i)
    BY <1>3, <2>1, AgreedStill DEF Wanted
  <2>3. \A i \in 1..Len(stack') : Agreed(stack'[i]) /\ stack'[i].edge <= Len(fn.edges[stack'[i].phi])
    BY <1>2, <2>1 DEF Traced
  <2>4. \A i \in 1..Len(stack') : OnlyWay(Wanted(r, i - 1)', stack'[i].phi, Phis)
    <3>1. \A i \in 1..Len(stack') : i - 1 \in 0..Len(stack')
      BY <1>3
    <3> QED
      BY <1>2, <2>1, <2>2, <3>1 DEF Traced
  <2>5. OnlyWay(Wanted(r, Len(stack')), w, Phis)
    <3>1. OnlyWay(Wanted(r, Len(stack) - 1), Top.phi, Phis)
      BY <1>2, <1>3 DEF Traced, Top
    <3> QED
      BY <1>3, <3>1, OneWayOn
  <2>6. (Wanted(r, Len(stack)))' = Wanted(r, Len(stack'))
    <3>1. PICK n : n = Len(stack')
      OBVIOUS
    <3>2. n \in 0..Len(stack')
      BY <1>3, <3>1
    <3> QED
      BY <2>2, <3>1, <3>2
  <2> QED
    BY <2>3, <2>4, <2>5, <2>6, AgreedStill, SameFunction DEF Traced
<1>5. next <= Len(fn.questions) /\ index' \in Seq(Nat)
  BY <1>1 DEF RTypeOK
<1>6. Called(r)'
  BY <1>2, CalledStill
<1> QED
  BY <1>3, <1>4, <1>5, <1>6, GoesOn

LEMMA UniformTraced ==
    ASSUME RInv, Uniform PROVE RInv'
<1>1. RTypeOK /\ Running /\ stack # <<>> /\ Top.edge > Len(fn.edges[Top.phi])
  BY DEF RInv, RTypeOK, Uniform, Running
<1>2. PICK r \in Values : Called(r) /\ Traced(r)
  BY <1>1 DEF RInv
<1>3. Top.unique[1] \in Values /\ Agreed(Top)
  BY <1>1, <1>2, TopTraced
<1>4. \A j \in DOMAIN fn.edges[Top.phi] : OnlyWay(fn.edges[Top.phi][j], Top.unique[1], Phis)
  <2>1. \A j \in DOMAIN fn.edges[Top.phi] : j < Top.edge
    BY <1>1, TopType, InputTypes DEF RTypeOK
  <2> QED
    BY <1>3, <2>1 DEF Agreed
<1>5. OnlyWay(Top.phi, Top.unique[1], Phis)
  BY <1>1, <1>4, TopType, PhiOneWay
<1> QED
  BY <1>1, <1>3, <1>5, PopTraced DEF Uniform

LEMMA EdgeDivergesTraced ==
    ASSUME RInv, EdgeDiverges PROVE RInv'
<1>1. RTypeOK /\ Running /\ stack # <<>> /\ pc = "unwrap"
  BY DEF RInv, EdgeDiverges, Unwrapped, Running
<1>2. Top.phi \in Values /\ OnlyWay(Top.phi, Top.phi, Phis)
  BY <1>1, TopType, ThereAlready DEF Values
<1> QED
  BY <1>1, <1>2, PopTraced DEF EdgeDiverges

LEMMA EdgeAgreesTraced ==
    ASSUME RInv, EdgeAgrees PROVE RInv'
<1>1. RTypeOK /\ Running /\ stack # <<>> /\ pc = "unwrap" /\ Top.unique \in {<<>>, <<val>>}
  BY DEF RInv, EdgeAgrees, Unwrapped, EdgesAgree, Running
<1>2. PICK r \in Values : Called(r) /\ Traced(r)
  BY <1>1 DEF RInv
<1>3. Len(stack) \in Nat \ {0} /\ Top \in Frames /\ val \in Values
  BY <1>1, TopType DEF RTypeOK
<1> DEFINE f == [phi |-> Top.phi, edge |-> Top.edge + 1, unique |-> <<val>>]
<1>4. f \in Frames
  BY <1>3 DEF Frames
<1>5. stack' = [stack EXCEPT ![Len(stack)] = f]
  <2>1. stack' = [stack EXCEPT ![Len(stack)] = [[stack[Len(stack)] EXCEPT !.unique = <<val>>] EXCEPT !.edge = @ + 1]]
    BY <1>1, <1>3 DEF EdgeAgrees, RTypeOK
  <2>2. [[Top EXCEPT !.unique = <<val>>] EXCEPT !.edge = @ + 1] = f
    <3>1. PICK p, n, u : Top = [phi |-> p, edge |-> n, unique |-> u]
      BY <1>3 DEF Frames
    <3>2. Top.phi = p /\ Top.edge = n
      BY <3>1
    <3>3. [[[phi |-> p, edge |-> n, unique |-> u] EXCEPT !.unique = <<val>>] EXCEPT !.edge = @ + 1]
            = [phi |-> p, edge |-> n + 1, unique |-> <<val>>]
      <4>1. [[phi |-> p, edge |-> n, unique |-> u] EXCEPT !.unique = <<val>>]
              = [phi |-> p, edge |-> n, unique |-> <<val>>]
        OBVIOUS
      <4>2. [[phi |-> p, edge |-> n, unique |-> <<val>>] EXCEPT !.edge = @ + 1]
              = [phi |-> p, edge |-> n + 1, unique |-> <<val>>]
        OBVIOUS
      <4> QED
        BY <4>1, <4>2
    <3> QED
      BY <3>1, <3>2, <3>3
  <2> QED
    BY <2>1, <2>2 DEF Top
<1>6. pc' = "edges" /\ UNCHANGED <<fn, next, val, index, answers>>
  BY DEF EdgeAgrees
<1>7. /\ stack' \in Seq(Frames) /\ Len(stack') = Len(stack)
      /\ \A k \in 1..Len(stack) : stack'[k] = IF k = Len(stack) THEN f ELSE stack[k]
  BY <1>1, <1>4, <1>5, ReplaceTop DEF RTypeOK
<1>8. Agreed(f)
  <2>1. OnlyWay(Operand(Top), val, Phis)
    BY <1>1, <1>2, <1>3 DEF Traced, Wanted, Top
  <2>2. Agreed(Top) /\ Top.edge \in Nat \ {0}
    BY <1>1, <1>2, TopTraced, TopType
  <2>3. ASSUME NEW j \in DOMAIN fn.edges[f.phi], j < f.edge
        PROVE  OnlyWay(fn.edges[f.phi][j], val, Phis)
    <3>1. j \in Nat /\ j >= 1
      BY <1>1, TopType, InputTypes DEF RTypeOK
    <3>2. CASE j = Top.edge
      BY <2>1, <3>2 DEF Operand
    <3>3. CASE j # Top.edge
      <4>1. j < Top.edge /\ Top.edge > 1
        BY <2>2, <2>3, <3>1, <3>3
      <4>2. Top.unique[1] = val
        BY <1>1, <2>2, <4>1 DEF Agreed
      <4> QED
        BY <2>2, <4>1, <4>2 DEF Agreed
    <3> QED
      BY <3>2, <3>3
  <2>4. f.unique # <<>> /\ f.unique[1] = val
    OBVIOUS
  <2> QED
    BY <2>3, <2>4 DEF Agreed
<1>9. Traced(r)'
  <2>1. \A i \in 1..Len(stack') : Agreed(stack'[i])
    BY <1>2, <1>7, <1>8 DEF Traced
  <2>2. \A i \in 1..Len(stack') : i < Len(stack') => stack'[i].edge <= Len(fn.edges[stack'[i].phi])
    BY <1>1, <1>2, <1>3, <1>7 DEF Traced
  <2>3. \A i \in 1..Len(stack') : stack'[i].phi = stack[i].phi
    BY <1>3, <1>7 DEF Top
  <2>4. \A i \in 0..(Len(stack) - 1) : Wanted(r, i)' = Wanted(r, i)
    BY <1>3, <1>6, <1>7, AgreedStill DEF Wanted
  <2>5. \A i \in 1..Len(stack') : OnlyWay(Wanted(r, i - 1)', stack'[i].phi, Phis)
    <3>1. \A i \in 1..Len(stack') : i - 1 \in 0..(Len(stack) - 1) /\ i \in 1..Len(stack)
      BY <1>3, <1>7
    <3> QED
      BY <1>2, <2>3, <2>4, <3>1 DEF Traced
  <2> QED
    BY <1>6, <2>1, <2>2, <2>5, AgreedStill, SameFunction DEF Traced
<1>10. /\ next <= Len(fn.questions) /\ index' \in Seq(Nat) /\ stack' # <<>>
  BY <1>1, <1>3, <1>6, <1>7 DEF RTypeOK, Running
<1>11. Called(r)'
  BY <1>2, <1>6, CalledStill
<1> QED
  BY <1>3, <1>6, <1>7, <1>9, <1>10, <1>11, GoesOn

-----------------------------------------------------------------------------
(* The callers of unwrapSSAValue. *)

LEMMA AskTraced ==
    ASSUME RInv, Ask PROVE RInv'
<1>1. RTypeOK /\ pc = "ask" /\ next <= Len(fn.questions)
  BY DEF RInv, Ask
<1>2. Question.v \in Values
  BY <1>1, QuestionType
<1>3. CASE Question.kind = "field" /\ Question.v \notin FieldAddrs
  <2>1. Return(<<>>)
    BY <1>3 DEF Ask
  <2> QED
    BY <1>1, <2>1, ReturnKeeps
<1>4. CASE Question.kind = "field" /\ Question.v \in FieldAddrs
  <2>1. PICK a \in FieldAddrs : a = Question.v
    BY <1>4
  <2>2. PICK v : v = fn.x[a]
    OBVIOUS
  <2>3. v \in Values /\ fn.field[a] \in Nat
    BY <1>1, <2>1, <2>2, InputTypes DEF RTypeOK
  <2>4. Unwrap(v) /\ index' = <<fn.field[a]>> /\ UNCHANGED <<fn, next, answers>>
    BY <1>4, <2>1, <2>2 DEF Ask
  <2>5. Traced(v)' /\ stack' \in Seq(Frames) /\ pc' = "unwrap" /\ val' \in Values
    BY <2>3, <2>4, UnwrapStarts
  <2>6. index' \in Seq(Nat) /\ index' # <<>> /\ index'[1] = fn.field[a]
    BY <2>3, <2>4
  <2>7. Denotes([base |-> v, field |-> index'[1]], Question)
    BY <1>4, <2>1, <2>2, <2>6, ThereAlready DEF Denotes
  <2>8. Called(v)'
    BY <2>4, <2>6, <2>7, SameFunction DEF Called, Question
  <2> QED
    BY <1>1, <2>3, <2>4, <2>5, <2>6, <2>8, GoesOn
<1>5. CASE Question.kind # "field"
  <2>1. PICK v : v = Question.v
    OBVIOUS
  <2>2. Unwrap(v) /\ UNCHANGED <<fn, next, index, answers>>
    BY <1>5, <2>1 DEF Ask
  <2>3. Traced(v)' /\ stack' \in Seq(Frames) /\ pc' = "unwrap" /\ val' \in Values
    BY <1>2, <2>1, <2>2, UnwrapStarts
  <2>4. index = <<>>
    BY <1>1 DEF RTypeOK, Running
  <2>5. Called(v)'
    BY <1>5, <2>1, <2>2, <2>4 DEF Called, Question
  <2> QED
    BY <1>1, <1>2, <2>1, <2>2, <2>3, <2>5, GoesOn DEF RTypeOK
<1> QED
  BY <1>3, <1>4, <1>5

\* What has been unwrapped, once the recursion is over.
LEMMA UnwrappedTraced ==
    ASSUME RInv, Unwrapped, stack = <<>>
    PROVE  /\ RTypeOK /\ next <= Len(fn.questions) /\ val \in Values
           /\ \E r \in Values : Called(r) /\ OnlyWay(r, val, Phis)
<1>1. RTypeOK /\ Running /\ pc = "unwrap" /\ Len(stack) = 0
  BY DEF RInv, Unwrapped, Running
<1>2. PICK r \in Values : Called(r) /\ Traced(r)
  BY <1>1 DEF RInv
<1>3. OnlyWay(r, val, Phis)
  BY <1>1, <1>2 DEF Traced, Wanted
<1> QED
  BY <1>1, <1>2, <1>3 DEF RTypeOK

LEMMA FindLockTraced ==
    ASSUME RInv, FindLock PROVE RInv'
<1>1. Unwrapped /\ stack = <<>> /\ index = <<>> /\ Question.kind = "lock"
  BY DEF FindLock
<1>2. RTypeOK /\ next <= Len(fn.questions)
  BY <1>1, UnwrappedTraced
<1>3. OnlyWay(Question.v, val, Phis)
  BY <1>1, UnwrappedTraced DEF Called
<1>4. CASE val \in FieldAddrs /\ fn.field[val] \in DOMAIN fn.struct /\ isMutexType(fn.field[val])
  <2>1. PICK a \in FieldAddrs : a = val
    BY <1>4
  <2>2. PICK v : v = fn.x[a]
    OBVIOUS
  <2>3. v \in Values /\ fn.field[a] \in Nat
    BY <1>2, <2>2, InputTypes DEF RTypeOK
  <2>4. Unwrap(v) /\ index' = <<fn.field[a]>> /\ UNCHANGED <<fn, next, answers>>
    BY <1>4, <2>1, <2>2 DEF FindLock
  <2>5. Traced(v)' /\ stack' \in Seq(Frames) /\ pc' = "unwrap" /\ val' \in Values
    BY <2>3, <2>4, UnwrapStarts
  <2>6. index' \in Seq(Nat) /\ index' # <<>> /\ index'[1] = fn.field[a]
    BY <2>3, <2>4
  <2>7. Denotes([base |-> v, field |-> index'[1]], Question)
    BY <1>1, <1>3, <2>1, <2>2, <2>6, ThereAlready DEF Denotes
  <2>8. Called(v)'
    BY <2>4, <2>6, <2>7, SameFunction DEF Called, Question
  <2> QED
    BY <1>2, <2>3, <2>4, <2>5, <2>6, <2>8, GoesOn
<1>5. CASE ~(val \in FieldAddrs /\ fn.field[val] \in DOMAIN fn.struct /\ isMutexType(fn.field[val]))
  <2>1. Return(<<>>)
    BY <1>5 DEF FindLock
  <2> QED
    BY <1>2, <2>1, ReturnKeeps
<1> QED
  BY <1>4, <1>5

LEMMA FindEmbeddedTraced ==
    ASSUME RInv, FindEmbedded PROVE RInv'
<1>1. Unwrapped /\ stack = <<>> /\ index = <<>> /\ Question.kind = "embedded"
  BY DEF FindEmbedded
<1>2. RTypeOK /\ next <= Len(fn.questions) /\ val \in Values
  BY <1>1, UnwrappedTraced
<1>3. OnlyWay(Question.v, val, Phis \cup Loads)
  BY <1>1, UnwrappedTraced, OneWayWider DEF Called
<1>4. CASE EmbeddedFields(Question.method) # {}
  <2>1. PICK v : v = val
    OBVIOUS
  <2>2. PICK n : n = FirstOf(EmbeddedFields(Question.method))
    OBVIOUS
  <2>3. n \in Nat
    BY <1>2, <1>4, <2>2, EmbeddedIndex DEF RTypeOK
  <2>4. Unwrap(v) /\ index' = <<n>> /\ UNCHANGED <<fn, next, answers>>
    BY <1>4, <2>1, <2>2 DEF FindEmbedded
  <2>5. Traced(v)' /\ stack' \in Seq(Frames) /\ pc' = "unwrap" /\ val' \in Values
    BY <1>2, <2>1, <2>4, UnwrapStarts
  <2>6. index' \in Seq(Nat) /\ index' # <<>> /\ index'[1] = n
    BY <2>3, <2>4
  <2>7. Denotes([base |-> v, field |-> index'[1]], Question)
    BY <1>1, <1>3, <2>1 DEF Denotes
  <2>8. Called(v)'
    BY <2>4, <2>6, <2>7, SameFunction DEF Called, Question
  <2> QED
    BY <1>2, <2>1, <2>4, <2>5, <2>6, <2>8, GoesOn
<1>5. CASE EmbeddedFields(Question.method) = {}
  <2>1. Return(<<>>)
    BY <1>5 DEF FindEmbedded
  <2> QED
    BY <1>2, <2>1, ReturnKeeps
<1> QED
  BY <1>4, <1>5

\* What canonicalizeBase has come to would answer the question.
LEMMA WouldAnswer ==
    ASSUME RInv, Unwrapped, stack = <<>>, index # <<>>
    PROVE  Denotes([base |-> val, field |-> index[1]], Question)
<1>1. PICK r \in Values : Called(r) /\ OnlyWay(r, val, Phis)
  BY UnwrappedTraced
<1>2. OnlyWay(r, val, Phis \cup Loads)
  BY <1>1, OneWayWider
<1> QED
  BY <1>1, <1>2, DenotesOn DEF Called

LEMMA ThroughLoadTraced ==
    ASSUME RInv, ThroughLoad PROVE RInv'
<1>1. Unwrapped /\ stack = <<>> /\ index # <<>> /\ val \in Loads
  BY DEF ThroughLoad
<1>2. RTypeOK /\ next <= Len(fn.questions)
  BY <1>1, UnwrappedTraced
<1>3. PICK v : v = fn.x[val]
  OBVIOUS
<1>4. v \in Values
  BY <1>1, <1>2, <1>3, InputTypes DEF RTypeOK
<1>5. Unwrap(v) /\ UNCHANGED <<fn, next, index, answers>>
  BY <1>3 DEF ThroughLoad
<1>6. Traced(v)' /\ stack' \in Seq(Frames) /\ pc' = "unwrap" /\ val' \in Values
  BY <1>4, <1>5, UnwrapStarts
<1>7. Denotes([base |-> v, field |-> index[1]], Question)
  BY <1>1, <1>3, WouldAnswer, LoadOneWay, DenotesOn
<1>8. Called(v)'
  BY <1>1, <1>5, <1>7, SameFunction DEF Called, Question
<1>9. index' \in Seq(Nat)
  BY <1>2, <1>5 DEF RTypeOK
<1> QED
  BY <1>2, <1>4, <1>5, <1>6, <1>8, <1>9, GoesOn

LEMMA BaseFoundTraced ==
    ASSUME RInv, BaseFound PROVE RInv'
<1>1. Unwrapped /\ stack = <<>> /\ index # <<>>
  BY DEF BaseFound
<1>2. RTypeOK /\ next <= Len(fn.questions) /\ val \in Values
  BY <1>1, UnwrappedTraced
<1>3. index[1] \in Nat
  BY <1>1, <1>2, EmptySeq DEF RTypeOK
<1>4. [base |-> val, field |-> index[1]] \in Refs
  BY <1>2, <1>3 DEF Refs
<1>5. Return([base |-> val, field |-> index[1]])
  BY DEF BaseFound
<1> QED
  BY <1>1, <1>2, <1>4, <1>5, WouldAnswer, ReturnKeeps

LEMMA FinishTraced ==
    ASSUME RInv, Finish \/ UNCHANGED vars PROVE RInv'
<1>1. UNCHANGED <<fn, next, val, stack, index, answers>> /\ RTypeOK /\ BaseSound
  BY DEF Finish, vars, RInv
<1>2. (pc = "ask" /\ pc' = "done") \/ pc' = pc
  BY DEF Finish, vars
<1>3. RTypeOK'
  BY <1>1, <1>2 DEF RTypeOK, Running
<1>4. BaseSound'
  BY <1>1, SameFunction DEF BaseSound
<1>5. ASSUME Running' PROVE \E r \in Values : Called(r)' /\ Traced(r)'
  <2>1. pc' = pc /\ Running
    BY <1>2, <1>5 DEF Running
  <2>2. PICK r \in Values : Called(r) /\ Traced(r)
    BY <2>1 DEF RInv
  <2>3. Called(r)'
    BY <1>1, <2>2, CalledStill
  <2>4. \A i : Wanted(r, i)' = Wanted(r, i)
    BY <1>1 DEF Wanted, Operand
  <2>5. Traced(r)'
    BY <1>1, <2>1, <2>2, <2>4, AgreedStill, SameFunction DEF Traced
  <2> QED
    BY <2>3, <2>5
<1> QED
  BY <1>3, <1>4, <1>5 DEF RInv

-----------------------------------------------------------------------------
LEMMA TracedInvariant == Spec => []RInv
<1>1. Init => RInv
  <2> SUFFICES ASSUME Init PROVE RInv
    OBVIOUS
  <2>1. /\ fn \in Inputs /\ next = 1 /\ pc = "ask" /\ stack = <<>> /\ index = <<>> /\ answers = <<>>
    BY ResolverAssumption DEF Init
  <2>2. RTypeOK /\ ~Running
    BY <2>1 DEF RTypeOK, Running
  <2>3. BaseSound
    BY <2>1 DEF BaseSound
  <2> QED
    BY <2>2, <2>3 DEF RInv
<1>2. RInv /\ [Next]_vars => RInv'
  BY AskTraced, EnterPhiTraced, NextEdgeTraced, UniformTraced, EdgeAgreesTraced, EdgeDivergesTraced,
     FindLockTraced, FindEmbeddedTraced, ThroughLoadTraced, BaseFoundTraced, FinishTraced DEF Next
<1> QED
  BY <1>1, <1>2, PTL DEF Spec

\* An answer of the resolver stands for the value it was asked about, whatever cycles of
\* phis and loads there are: whichever operands an execution takes, the value comes by the base.
THEOREM BasesAreSound == Spec => []BaseSound
<1>1. RInv => BaseSound
  BY DEF RInv
<1> QED
  BY <1>1, TracedInvariant, PTL

-----------------------------------------------------------------------------
(* The recursion on a cycle of phis. *)

\* The phis being resolved have all been visited, which keeps each from a second entry.
OpenVisited == \A i \in DOMAIN stack : stack[i].phi \in visited

LEMMA OpenStep ==
    ASSUME RTypeOK, OpenVisited, NoPhiWithinItself, [Next]_vars
    PROVE  OpenVisited' /\ NoPhiWithinItself'
<1>1. CASE EnterPhi
  <2> DEFINE f == [phi |-> val, edge |-> 1, unique |-> <<>>]
  <2>1. stack' = Append(stack, f) /\ val \notin visited /\ visited' = visited \cup {val}
    BY <1>1 DEF EnterPhi
  <2>2. f.phi = val /\ f \in Frames
    BY <1>1 DEF EnterPhi, Frames
  <2>3. /\ DOMAIN stack = 1..Len(stack) /\ DOMAIN stack' = 1..(Len(stack) + 1) /\ Len(stack) \in Nat
        /\ \A k \in 1..Len(stack) : stack'[k] = stack[k]
        /\ stack'[Len(stack) + 1].phi = val
    <3> HIDE DEF f
    <3> QED
      BY <2>1, <2>2 DEF RTypeOK
  <2> QED
    BY <2>1, <2>3 DEF OpenVisited, NoPhiWithinItself
<1>2. CASE Uniform \/ EdgeDiverges
  <2>1. stack' = SubSeq(stack, 1, Len(stack) - 1) /\ stack # <<>> /\ visited' = visited
    BY <1>2 DEF Uniform, EdgeDiverges, RTypeOK
  <2>2. /\ Len(stack) \in Nat \ {0} /\ DOMAIN stack = 1..Len(stack) /\ DOMAIN stack' = 1..(Len(stack) - 1)
        /\ \A k \in 1..(Len(stack) - 1) : stack'[k] = stack[k]
    BY <2>1, Pop DEF RTypeOK
  <2> QED
    BY <2>1, <2>2 DEF OpenVisited, NoPhiWithinItself
<1>3. CASE EdgeAgrees
  <2>1. /\ stack' = [stack EXCEPT ![Len(stack)].unique = <<val>>, ![Len(stack)].edge = @ + 1]
        /\ visited' = visited
    BY <1>3 DEF EdgeAgrees
  <2>2. DOMAIN stack' = DOMAIN stack /\ \A k \in DOMAIN stack : stack[k] \in Frames
    BY <2>1 DEF RTypeOK
  <2>3. \A k \in DOMAIN stack : stack'[k].phi = stack[k].phi
    BY <2>1, <2>2 DEF Frames
  <2> QED
    BY <2>1, <2>2, <2>3 DEF OpenVisited, NoPhiWithinItself
<1>4. CASE ~EnterPhi /\ ~Uniform /\ ~EdgeDiverges /\ ~EdgeAgrees
  <2>1. stack' = <<>> \/ UNCHANGED <<stack, visited>>
    BY <1>4 DEF Next, Ask, Finish, NextEdge, FindLock, FindEmbedded, ThroughLoad, BaseFound, Unwrap,
                Return, vars
  <2> QED
    BY <2>1 DEF OpenVisited, NoPhiWithinItself
<1> QED
  BY <1>1, <1>2, <1>3, <1>4

\* unwrapSSAValueVisited never resolves a phi within its own resolution, whatever the phis
\* are to each other: the depth of its recursion is at most their number.
THEOREM RecursionIsBounded == Spec => []NoPhiWithinItself
<1>1. Init => OpenVisited /\ NoPhiWithinItself
  BY DEF Init, OpenVisited, NoPhiWithinItself
<1>2. RInv /\ OpenVisited /\ NoPhiWithinItself /\ [Next]_vars => (OpenVisited /\ NoPhiWithinItself)'
  BY OpenStep DEF RInv
<1> QED
  BY <1>1, <1>2, TracedInvariant, PTL DEF Spec
=============================================================================
