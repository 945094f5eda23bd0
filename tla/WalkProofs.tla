---------------------------- MODULE WalkProofs -----------------------------
(***************************************************************************)
(* Proofs about SsaWalk and WalkSound, for every package, mutex and        *)
(* control-flow graph: the types of the walk, and that its lock states are *)
(* real on the path of the stack.                                          *)
(***************************************************************************)
EXTENDS WalkSound, StackLemmas

-----------------------------------------------------------------------------
(* The operations of lockstate.go stay within lock states. *)

LEMMA LockStateTypes ==
    ASSUME NEW ls \in LockStates
    PROVE  /\ newLockState \in LockStates
           /\ \A r \in LockRefs, m \in Modes : lock(ls, r, m) \in LockStates
           /\ \A r \in LockRefs : unlock(ls, r) \in LockStates
           /\ \A r \in LockRefs : deferUnlock(ls, r) \in LockStates
           /\ \A other \in LockStates : intersect(ls, other) \in LockStates
BY DEF LockStates, newLockState, lock, unlock, deferUnlock, intersect, Modes

LEMMA IntersectBelow ==
    ASSUME NEW ls \in LockStates, NEW other \in LockStates
    PROVE  Below(intersect(ls, other), ls) /\ Below(intersect(ls, other), other)
BY DEF LockStates, intersect, Below, Keys, Modes

\* The fields of an instruction, by its kind.
LEMMA InstrTypes ==
    ASSUME NEW i \in Instrs
    PROVE  /\ i.op \in {"lock", "unlock", "deferUnlock"} => i.ref \in LockRefs /\ i.mode \in Modes
           /\ i.op = "deferLock" => i.ref \in LockRefs
           /\ i.op = "call" => i.callee \in FuncIds
           /\ i.pos \in Positions
BY DEF Instrs, LockInstrs, TypoInstrs, CallInstrs, AccessInstrs, ReturnInstrs, OtherInstrs

-----------------------------------------------------------------------------
(* The graph of the function being walked. *)

LEMMA BodyTypes ==
    ASSUME TypeOK, fn > 0
    PROVE  /\ fn \in Nat /\ fn \in DOMAIN prog /\ fn \in 1..Len(prog)
           /\ Body \in Bodies
           /\ DOMAIN Body = 1..Len(Body) /\ Len(Body) \in Nat
           /\ \A b \in DOMAIN Body :
                /\ Code(b) \in Seq(Instrs) /\ Len(Code(b)) \in Nat
                /\ Succs(b) \in Seq(Nat) /\ Len(Succs(b)) \in Nat
                /\ DOMAIN Succs(b) = 1..Len(Succs(b))
                /\ \A i \in DOMAIN Succs(b) : Succs(b)[i] \in DOMAIN Body
<1>1. fn \in Nat /\ fn \in 1..Len(prog) /\ prog \in Seq(Bodies)
  BY DEF TypeOK
<1>2. Body \in Bodies
  BY <1>1 DEF Body
<1>3. Body \in Seq([instrs : Seq(Instrs), succs : Seq(Nat)])
  BY <1>2 DEF Bodies
<1>4. \A b \in DOMAIN Body : \A i \in DOMAIN Succs(b) : Succs(b)[i] \in DOMAIN Body
  BY <1>2 DEF Bodies, Succs
<1>5. \A b \in DOMAIN Body : Body[b] \in [instrs : Seq(Instrs), succs : Seq(Nat)]
  BY <1>3, ElementOfSeq, LenProperties
<1> QED
  BY <1>1, <1>2, <1>3, <1>4, <1>5 DEF Code, Succs

LEMMA TopTypes ==
    ASSUME TypeOK, stack # <<>>
    PROVE  /\ fn > 0
           /\ stack \in Seq(Frames) /\ Len(stack) \in Nat /\ Len(stack) > 0
           /\ Len(stack) \in DOMAIN stack
           /\ Top \in Frames /\ Top.block \in DOMAIN Body /\ Top.ls \in LockStates
           /\ Top.ip \in Nat /\ Top.ip > 0 /\ Top.succ \in Nat
           /\ Top.block \in DOMAIN entryStates
           /\ Top.ip <= Len(Code(Top.block)) + 1
           /\ Top.succ <= Len(Succs(Top.block)) + 1
           /\ Top.succ > 0 => Top.ip = Len(Code(Top.block)) + 1
<1>1. fn > 0
  BY DEF TypeOK
<1>2. stack \in Seq(Frames) /\ Len(stack) \in Nat /\ Len(stack) > 0 /\ Len(stack) \in DOMAIN stack
  BY <1>1 DEF TypeOK
<1>3. Top \in Frames
  BY <1>2, ElementOfSeq DEF Top
<1>4. /\ Top.block \in DOMAIN Body /\ Top.ls \in LockStates
      /\ Top.ip \in Nat /\ Top.succ \in Nat
      /\ Top.ip \in 1..(Len(Code(Top.block)) + 1)
      /\ Top.succ \in 0..(Len(Succs(Top.block)) + 1)
      /\ Top.succ > 0 => Top.ip = Len(Code(Top.block)) + 1
  BY <1>3 DEF Frames
<1>5. Len(Code(Top.block)) \in Nat /\ Len(Succs(Top.block)) \in Nat
  BY <1>1, <1>4, BodyTypes
<1>6. Top.block \in DOMAIN entryStates
  BY <1>1, <1>2 DEF TypeOK, Top
<1> QED
  BY <1>1, <1>2, <1>3, <1>4, <1>5, <1>6
-----------------------------------------------------------------------------
(* Type correctness. *)

\* What a frame may become.
LEMMA FrameUpdates ==
    ASSUME NEW f \in Frames,
           Len(Code(f.block)) \in Nat, Len(Succs(f.block)) \in Nat
    PROVE  /\ \A ls \in LockStates : f.ip <= Len(Code(f.block)) =>
                LET g == [f EXCEPT !.ls = ls, !.ip = @ + 1]
                IN  g \in Frames /\ g.block = f.block /\ g.shared = f.shared /\ g.ls = ls /\ g.ip = f.ip + 1 /\ g.succ = f.succ /\ g.succ = 0
           /\ (f.succ <= Len(Succs(f.block)) /\ f.ip = Len(Code(f.block)) + 1) =>
                LET g == [f EXCEPT !.succ = @ + 1]
                IN  g \in Frames /\ g.block = f.block /\ g.shared = f.shared /\ g.ls = f.ls /\ g.ip = f.ip /\ g.succ = f.succ + 1
<1>1. /\ f \in [block : DOMAIN Body, ls : LockStates, shared : BOOLEAN, ip : Nat, succ : Nat]
      /\ f.ip \in 1..(Len(Code(f.block)) + 1)
      /\ f.succ \in 0..(Len(Succs(f.block)) + 1)
      /\ f.succ > 0 => f.ip = Len(Code(f.block)) + 1
  BY DEF Frames
<1>2. ASSUME NEW ls \in LockStates, f.ip <= Len(Code(f.block)),
             NEW g, g = [f EXCEPT !.ls = ls, !.ip = @ + 1]
      PROVE  g \in Frames /\ g.block = f.block /\ g.shared = f.shared /\ g.ls = ls /\ g.ip = f.ip + 1 /\ g.succ = f.succ /\ g.succ = 0
  <2>0. g = [block |-> f.block, ls |-> ls, shared |-> f.shared, ip |-> f.ip + 1, succ |-> f.succ]
    BY <1>1, <1>2
  <2>1. g \in [block : DOMAIN Body, ls : LockStates, shared : BOOLEAN, ip : Nat, succ : Nat]
    BY <1>1, <2>0
  <2>2. g.block = f.block /\ g.shared = f.shared /\ g.ls = ls /\ g.ip = f.ip + 1 /\ g.succ = f.succ
    BY <1>1, <1>2
  <2>3. g.succ = 0 /\ g.ip \in 1..(Len(Code(g.block)) + 1)
    BY <1>1, <1>2, <2>2
  <2> QED
    BY <2>1, <2>2, <2>3, <1>1 DEF Frames
<1>3. ASSUME f.succ <= Len(Succs(f.block)), f.ip = Len(Code(f.block)) + 1,
             NEW g, g = [f EXCEPT !.succ = @ + 1]
      PROVE  g \in Frames /\ g.block = f.block /\ g.shared = f.shared /\ g.ls = f.ls /\ g.ip = f.ip /\ g.succ = f.succ + 1
  <2>1. g \in [block : DOMAIN Body, ls : LockStates, shared : BOOLEAN, ip : Nat, succ : Nat]
    BY <1>1, <1>3
  <2>2. g.block = f.block /\ g.shared = f.shared /\ g.ls = f.ls /\ g.ip = f.ip /\ g.succ = f.succ + 1
    BY <1>1, <1>3
  <2>3. g.succ \in 0..(Len(Succs(g.block)) + 1) /\ g.ip = Len(Code(g.block)) + 1
    BY <1>1, <1>3, <2>2
  <2> QED
    BY <2>1, <2>2, <2>3, <1>1 DEF Frames
<1> QED
  BY <1>2, <1>3

\* An instruction handler that goes on with lock state ls.
LEMMA AdvanceTypes ==
    ASSUME TypeOK, stack # <<>>, Top.ip <= Len(Code(Top.block)),
           NEW ls \in LockStates, Advance(ls),
           acquires' \in [FuncIds -> SUBSET MutexKeys],
           releases' \in [FuncIds -> SUBSET MutexKeys]
    PROVE  TypeOK'
<1> DEFINE top == [Top EXCEPT !.ls = ls, !.ip = @ + 1]
<1>1. /\ Top \in Frames /\ stack \in Seq(Frames) /\ fn > 0 /\ Top.block \in DOMAIN entryStates
      /\ Len(stack) \in Nat /\ Len(stack) > 0
      /\ Top.ip \in Nat /\ Top.ip > 0
  BY TopTypes
<1>2. Len(Code(Top.block)) \in Nat /\ Len(Succs(Top.block)) \in Nat
  BY <1>1, TopTypes, BodyTypes
<1>3. top \in Frames /\ top.block = Top.block /\ top.shared = Top.shared /\ top.ls = ls
  BY <1>1, <1>2, FrameUpdates
<1>4. stack' = [stack EXCEPT ![Len(stack)] = top]
  BY DEF Advance, Top
<1>5. /\ prog' = prog /\ fn' = fn
      /\ entryStates' = IF Top.shared THEN Put(entryStates, Top.block, ls) ELSE entryStates
  BY DEF Advance
<1>9. /\ DOMAIN entryStates \subseteq DOMAIN Body
      /\ \A b \in DOMAIN entryStates : entryStates[b] \in LockStates
  BY <1>1 DEF TypeOK
<1>10. /\ DOMAIN entryStates' = DOMAIN entryStates
       /\ \A b \in DOMAIN entryStates : entryStates'[b] \in LockStates
       /\ Top.shared => entryStates'[Top.block] = ls
  BY <1>1, <1>5, <1>9 DEF Put
<1>6. Frames' = Frames /\ Body' = Body
  BY <1>5 DEF Frames, Body, Code, Succs
<1> HIDE DEF top
<1>7. /\ stack' \in Seq(Frames) /\ Len(stack') = Len(stack) /\ stack' # <<>>
      /\ \A k \in 1..Len(stack) : stack'[k] = IF k = Len(stack) THEN top ELSE stack[k]
  BY <1>1, <1>3, <1>4, ReplaceTop, EmptySeq
<1>8. \A k \in 1..Len(stack') :
        /\ stack'[k].block \in DOMAIN entryStates'
        /\ k < Len(stack') => stack'[k].succ > 0
  <2> SUFFICES ASSUME NEW k \in 1..Len(stack)
               PROVE  /\ stack'[k].block \in DOMAIN entryStates
                      /\ k < Len(stack) => stack'[k].succ > 0
    BY <1>10, <1>7
  <2>1. stack[k].block \in DOMAIN entryStates /\ (k < Len(stack) => stack[k].succ > 0)
    BY <1>1 DEF TypeOK
  <2>2. CASE k = Len(stack)
    BY <1>1, <1>3, <1>7, <2>2
  <2>3. CASE k # Len(stack)
    BY <1>7, <2>1, <2>3
  <2> QED
    BY <2>2, <2>3
<1>11. Top' = top
  BY <1>1, <1>7 DEF Top
<1>12. (stack' # <<>> /\ Top'.shared /\ Top'.succ = 0) => entryStates'[Top'.block] = Top'.ls
  BY <1>3, <1>10, <1>11
<1> QED
  BY <1>1, <1>5, <1>6, <1>7, <1>8, <1>9, <1>10, <1>12 DEF TypeOK

\* A frame that goes on to its next successor.
LEMMA ReturnedTypes ==
    ASSUME TypeOK, HasNextSucc
    PROVE  /\ Returned \in Seq(Frames) /\ Len(Returned) = Len(stack)
           /\ NextSucc \in DOMAIN Body
           /\ \A k \in 1..Len(stack) :
                /\ Returned[k].block = stack[k].block
                /\ Returned[k].ls = stack[k].ls
                /\ Returned[k].shared = stack[k].shared
                /\ Returned[k].ip = stack[k].ip
                /\ Returned[k].succ = IF k = Len(stack) THEN Top.succ + 1 ELSE stack[k].succ
                /\ Returned[k].succ > 0
<1> DEFINE top == [Top EXCEPT !.succ = @ + 1]
<1>1. /\ Top \in Frames /\ stack \in Seq(Frames) /\ fn > 0
      /\ Len(stack) \in Nat /\ Len(stack) > 0 /\ stack # <<>>
  BY TopTypes DEF HasNextSucc
<1>2. /\ Len(Code(Top.block)) \in Nat /\ Len(Succs(Top.block)) \in Nat
      /\ DOMAIN Succs(Top.block) = 1..Len(Succs(Top.block))
      /\ NextSucc \in DOMAIN Body
  BY <1>1, TopTypes, BodyTypes DEF HasNextSucc, NextSucc
<1>3. Top.succ \in 1..Len(Succs(Top.block)) /\ Top.ip = Len(Code(Top.block)) + 1
  BY <1>1, <1>2, TopTypes DEF HasNextSucc
<1>4. /\ top \in Frames /\ top.block = Top.block /\ top.ls = Top.ls /\ top.shared = Top.shared
      /\ top.ip = Top.ip /\ top.succ = Top.succ + 1
  <2>1. Top.succ <= Len(Succs(Top.block))
    BY <1>2, <1>3
  <2> QED
    BY <1>1, <1>2, <1>3, <2>1, FrameUpdates, Zenon
<1>5. Returned = [stack EXCEPT ![Len(stack)] = top]
  BY DEF Returned, Top
<1> HIDE DEF top
<1>6. /\ Returned \in Seq(Frames) /\ Len(Returned) = Len(stack)
      /\ \A k \in 1..Len(stack) : Returned[k] = IF k = Len(stack) THEN top ELSE stack[k]
  BY <1>1, <1>4, <1>5, ReplaceTop
<1>7. \A k \in 1..Len(stack) : k < Len(stack) => stack[k].succ > 0
  BY <1>1 DEF TypeOK
<1> QED
  BY <1>1, <1>2, <1>3, <1>4, <1>6, <1>7 DEF Top

\* A recursive call that walks block NextSucc with lock state ls.
LEMMA EnteredTypes ==
    ASSUME TypeOK, HasNextSucc, NEW ls \in LockStates, NEW sh \in BOOLEAN
    PROVE  /\ Entered(NextSucc, ls, sh) \in Seq(Frames)
           /\ Len(Entered(NextSucc, ls, sh)) = Len(stack) + 1
           /\ Entered(NextSucc, ls, sh)[Len(stack) + 1] = Frame(NextSucc, ls, sh)
           /\ \A k \in 1..(Len(stack) + 1) :
                Entered(NextSucc, ls, sh)[k] = IF k = Len(stack) + 1 THEN Frame(NextSucc, ls, sh) ELSE Returned[k]
<1>1. /\ Returned \in Seq(Frames) /\ Len(Returned) = Len(stack) /\ NextSucc \in DOMAIN Body
  BY ReturnedTypes
<1>2. fn > 0
  BY TopTypes DEF HasNextSucc
<1>3. Frame(NextSucc, ls, sh) \in Frames
  BY <1>1, <1>2, BodyTypes DEF Frames, Frame
<1>4. Len(stack) \in Nat
  BY TopTypes DEF HasNextSucc
<1> QED
  BY <1>1, <1>3, <1>4, Push DEF Entered

\* The part of TypeOK that steps of WalkBlock have to re-establish.
LEMMA StackTypes ==
    ASSUME TypeOK, fn > 0,
           prog' = prog, fn' = fn, acquires' = acquires, releases' = releases,
           stack' \in Seq(Frames),
           \A k \in 1..Len(stack') :
             /\ stack'[k].block \in DOMAIN entryStates'
             /\ k < Len(stack') => stack'[k].succ > 0,
           (stack' # <<>> /\ Top'.shared /\ Top'.succ = 0) => entryStates'[Top'.block] = Top'.ls,
           DOMAIN entryStates' \subseteq DOMAIN Body,
           \A b \in DOMAIN entryStates' : entryStates'[b] \in LockStates
    PROVE  TypeOK'
<1>1. Frames' = Frames /\ Body' = Body
  BY DEF Frames, Body, Code, Succs
<1> QED
  BY <1>1 DEF TypeOK
\* The two ways in which a recursive call ends up.
LEMMA EnterTypes ==
    ASSUME TypeOK, HasNextSucc, NEW ls \in LockStates, NEW sh \in BOOLEAN,
           prog' = prog, fn' = fn, acquires' = acquires, releases' = releases,
           entryStates' = Put(entryStates, NextSucc, ls),
           stack' = Entered(NextSucc, ls, sh)
    PROVE  TypeOK'
<1>1. fn > 0 /\ Len(stack) \in Nat
  BY TopTypes DEF HasNextSucc
<1>2. /\ stack' \in Seq(Frames) /\ Len(stack') = Len(stack) + 1
      /\ \A k \in 1..(Len(stack) + 1) :
           stack'[k] = IF k = Len(stack) + 1 THEN Frame(NextSucc, ls, sh) ELSE Returned[k]
  BY EnteredTypes
<1>3. /\ NextSucc \in DOMAIN Body
      /\ \A k \in 1..Len(stack) : Returned[k].block = stack[k].block /\ Returned[k].succ > 0
  BY ReturnedTypes
<1>4. /\ DOMAIN entryStates' = DOMAIN entryStates \cup {NextSucc}
      /\ \A b \in DOMAIN entryStates' : entryStates'[b] = IF b = NextSucc THEN ls ELSE entryStates[b]
  BY DEF Put
<1>5. /\ DOMAIN entryStates \subseteq DOMAIN Body
      /\ \A b \in DOMAIN entryStates : entryStates[b] \in LockStates
      /\ \A k \in 1..Len(stack) : stack[k].block \in DOMAIN entryStates
  BY <1>1 DEF TypeOK
<1>6. \A k \in 1..Len(stack') : /\ stack'[k].block \in DOMAIN entryStates'
                                /\ k < Len(stack') => stack'[k].succ > 0
  BY <1>1, <1>2, <1>3, <1>4, <1>5 DEF Frame
<1>7. /\ DOMAIN entryStates' \subseteq DOMAIN Body
      /\ \A b \in DOMAIN entryStates' : entryStates'[b] \in LockStates
  BY <1>3, <1>4, <1>5
<1>8. Top' = Frame(NextSucc, ls, sh)
  BY <1>1, <1>2 DEF Top
<1>9. entryStates'[Top'.block] = Top'.ls
  BY <1>4, <1>8 DEF Frame
<1> QED
  BY <1>1, <1>2, <1>6, <1>7, <1>9, StackTypes

LEMMA ReturnTypes ==
    ASSUME TypeOK, HasNextSucc,
           prog' = prog, fn' = fn, acquires' = acquires, releases' = releases,
           entryStates' = entryStates, stack' = Returned
    PROVE  TypeOK'
<1>1. fn > 0 /\ Len(stack) \in Nat
  BY TopTypes DEF HasNextSucc
<1>2. /\ stack' \in Seq(Frames) /\ Len(stack') = Len(stack)
      /\ \A k \in 1..Len(stack) : stack'[k].block = stack[k].block /\ stack'[k].succ > 0
  BY ReturnedTypes
<1>3. /\ DOMAIN entryStates \subseteq DOMAIN Body
      /\ \A b \in DOMAIN entryStates : entryStates[b] \in LockStates
      /\ \A k \in 1..Len(stack) : stack[k].block \in DOMAIN entryStates
  BY <1>1 DEF TypeOK
<1>4. stack' # <<>> => Top'.succ > 0
  BY <1>2, LenProperties, EmptySeq DEF Top
<1>5. ~(stack' # <<>> /\ Top'.shared /\ Top'.succ = 0)
  BY <1>4
<1> QED
  BY <1>1, <1>2, <1>3, <1>5, StackTypes

LEMMA TypeInit == Init => TypeOK
BY WalkAssumption DEF Init, TypeOK

\* The facts about the instruction at hand.
LEMMA AtTypes ==
    ASSUME TypeOK, NEW ops, At(ops)
    PROVE  /\ stack # <<>> /\ Top.ip <= Len(Code(Top.block)) /\ fn \in FuncIds
           /\ Top.ls \in LockStates /\ Instr \in Instrs /\ Instr.op \in ops
           /\ Top.ip \in 1..Len(Code(Top.block)) /\ Top.succ = 0
<1>1. stack # <<>> /\ Top.ip <= Len(Code(Top.block)) /\ Instr.op \in ops
  BY DEF At
<1>2. /\ fn > 0 /\ Top.block \in DOMAIN Body /\ Top.ls \in LockStates
      /\ Top.ip \in Nat /\ Top.ip > 0 /\ Top.succ \in Nat
      /\ Top.succ > 0 => Top.ip = Len(Code(Top.block)) + 1
  BY <1>1, TopTypes
<1>3. Code(Top.block) \in Seq(Instrs) /\ Len(Code(Top.block)) \in Nat /\ fn \in DOMAIN prog
  BY <1>2, BodyTypes
<1>4. Top.ip \in 1..Len(Code(Top.block)) /\ Top.succ = 0
  BY <1>1, <1>2, <1>3
<1>5. Instr \in Instrs
  BY <1>3, <1>4, ElementOfSeq DEF Instr
<1>6. fn \in FuncIds
  BY <1>3 DEF TypeOK
<1> QED
  BY <1>1, <1>2, <1>4, <1>5, <1>6

\* A function's set of keys may grow by the key of a reference.
LEMMA KeySetTypes ==
    ASSUME NEW m \in [FuncIds -> SUBSET MutexKeys], NEW ref \in LockRefs
    PROVE  [m EXCEPT ![fn] = @ \cup KeySet(ref)] \in [FuncIds -> SUBSET MutexKeys]
BY WalkAssumption DEF KeySet

LEMMA TypeStep == TypeOK /\ [Next]_vars => TypeOK'
<1> SUFFICES ASSUME TypeOK, [Next]_vars PROVE TypeOK'
  OBVIOUS
<1>0. acquires \in [FuncIds -> SUBSET MutexKeys] /\ releases \in [FuncIds -> SUBSET MutexKeys]
  BY DEF TypeOK
<1>1. CASE WalkFunction
  <2>1. /\ fn \in Nat /\ fn' = fn + 1 /\ fn + 1 \in 1..Len(prog) /\ prog' = prog
        /\ prog \in Seq(Bodies) /\ fn + 1 > 0 /\ acquires' = acquires /\ releases' = releases
    BY <1>1, LenProperties DEF TypeOK, WalkFunction, passVars
  <2>2. Body' = prog[fn + 1] /\ prog[fn + 1] \in Bodies
    BY <2>1, ElementOfSeq DEF Body
  <2>3. prog[fn + 1] \in Seq([instrs : Seq(Instrs), succs : Seq(Nat)])
    BY <2>2 DEF Bodies
  <2>4. newLockState \in LockStates
    BY DEF newLockState, LockStates, Modes
  <2>5. /\ DOMAIN entryStates' \subseteq DOMAIN Body'
        /\ \A b \in DOMAIN entryStates' : entryStates'[b] \in LockStates
    BY <1>1, <2>2, <2>4 DEF WalkFunction
  <2>6. CASE prog[fn + 1] = <<>>
    <3>1. stack' = <<>>
      BY <1>1, <2>6 DEF WalkFunction
    <3>2. stack' \in Seq(Frames') /\ Len(stack') = 0
      BY <3>1, EmptySeq
    <3> QED
      BY <1>0, <2>1, <2>5, <3>1, <3>2 DEF TypeOK
  <2>7. CASE prog[fn + 1] # <<>>
    <3>1. stack' = <<Frame(1, newLockState, FALSE)>>
      BY <1>1, <2>7 DEF WalkFunction
    <3>2. Len(prog[fn + 1]) \in Nat \ {0} /\ DOMAIN prog[fn + 1] = 1..Len(prog[fn + 1])
      BY <2>3, <2>7, EmptySeq, LenProperties
    <3>3. 1 \in DOMAIN Body' /\ 1 \in DOMAIN entryStates'
      BY <1>1, <2>2, <3>2 DEF WalkFunction
    <3>4. Body'[1] \in [instrs : Seq(Instrs), succs : Seq(Nat)]
      <4>1. 1 \in 1..Len(prog[fn + 1])
        BY <3>2
      <4>2. prog[fn + 1][1] \in [instrs : Seq(Instrs), succs : Seq(Nat)]
        BY <2>3, <4>1, ElementOfSeq
      <4> QED
        BY <2>2, <4>2
    <3>5. Len(Body'[1].instrs) \in Nat /\ Len(Body'[1].succs) \in Nat
      BY <3>4, LenProperties
    <3>6. Frame(1, newLockState, FALSE) \in Frames'
      BY <2>4, <3>3, <3>5 DEF Frame, Frames, Code, Succs
    <3>7. stack' \in Seq(Frames') /\ Len(stack') = 1 /\ stack'[1].block = 1 /\ ~Top'.shared
      BY <3>1, <3>6 DEF Frame, Top
    <3> QED
      BY <1>0, <2>1, <2>5, <3>3, <3>7 DEF TypeOK
  <2> QED
    BY <2>6, <2>7
<1>2. CASE Lock
  <2>1. /\ Instr.ref \in LockRefs /\ Instr.mode \in Modes /\ Top.ls \in LockStates
        /\ stack # <<>> /\ Top.ip <= Len(Code(Top.block))
    BY <1>2, AtTypes, InstrTypes DEF Lock
  <2>2. lock(Top.ls, Instr.ref, Instr.mode) \in LockStates
    BY <2>1, LockStateTypes
  <2>3. acquires' \in [FuncIds -> SUBSET MutexKeys] /\ releases' = releases
    BY <1>0, <1>2, <2>1, KeySetTypes DEF Lock
  <2> QED
    BY <1>0, <1>2, <2>1, <2>2, <2>3, AdvanceTypes DEF Lock
<1>3. CASE Unlock
  <2>1. /\ Instr.ref \in LockRefs /\ Top.ls \in LockStates
        /\ stack # <<>> /\ Top.ip <= Len(Code(Top.block))
    BY <1>3, AtTypes, InstrTypes DEF Unlock
  <2>2. unlock(Top.ls, Instr.ref) \in LockStates
    BY <2>1, LockStateTypes
  <2>3. releases' \in [FuncIds -> SUBSET MutexKeys] /\ acquires' = acquires
    BY <1>0, <1>3, <2>1, KeySetTypes DEF Unlock
  <2> QED
    BY <1>0, <1>3, <2>1, <2>2, <2>3, AdvanceTypes DEF Unlock
<1>4. CASE DeferUnlock
  <2>1. /\ Instr.ref \in LockRefs /\ Top.ls \in LockStates
        /\ stack # <<>> /\ Top.ip <= Len(Code(Top.block))
    BY <1>4, AtTypes, InstrTypes DEF DeferUnlock
  <2>2. deferUnlock(Top.ls, Instr.ref) \in LockStates
    BY <2>1, LockStateTypes
  <2>3. releases' \in [FuncIds -> SUBSET MutexKeys] /\ acquires' = acquires
    BY <1>0, <1>4, <2>1, KeySetTypes DEF DeferUnlock
  <2> QED
    BY <1>0, <1>4, <2>1, <2>2, <2>3, AdvanceTypes DEF DeferUnlock
<1>5. CASE DeferLock \/ Return \/ Access \/ Call \/ Skip
  <2>1. /\ Advance(Top.ls) /\ acquires' = acquires /\ releases' = releases
        /\ \E ops : At(ops)
    BY <1>5 DEF DeferLock, Return, Access, Call, Skip, passVars
  <2> QED
    BY <1>0, <2>1, AtTypes, AdvanceTypes
<1>6. CASE ExitBlock
  <2>1. /\ stack # <<>> /\ Top.succ = 0 /\ prog' = prog /\ fn' = fn
        /\ entryStates' = entryStates /\ acquires' = acquires /\ releases' = releases
        /\ stack' = [stack EXCEPT ![Len(stack)] = [Top EXCEPT !.succ = 1]]
    BY <1>6 DEF ExitBlock, passVars, Top
  <2>2. /\ Top \in Frames /\ stack \in Seq(Frames) /\ fn > 0 /\ Len(stack) \in Nat
        /\ Top.block \in DOMAIN Body /\ Top.ip \in Nat /\ Top.ip <= Len(Code(Top.block)) + 1
    BY <2>1, TopTypes
  <2>3. Len(Code(Top.block)) \in Nat /\ Len(Succs(Top.block)) \in Nat
    BY <2>2, BodyTypes
  <2>4. Top.ip = Len(Code(Top.block)) + 1 /\ Top.succ <= Len(Succs(Top.block))
    BY <1>6, <2>1, <2>2, <2>3 DEF ExitBlock
  <2>5. /\ [Top EXCEPT !.succ = Top.succ + 1] \in Frames
        /\ [Top EXCEPT !.succ = Top.succ + 1].block = Top.block
    BY <2>2, <2>3, <2>4, FrameUpdates, Zenon
  <2>6. Top.succ + 1 = 1
    BY <2>1
  <2> DEFINE top == [Top EXCEPT !.succ = 1]
  <2>7. top \in Frames /\ top.block = Top.block /\ top.succ = 1
    BY <2>2, <2>5, <2>6 DEF Frames
  <2>8. stack' = [stack EXCEPT ![Len(stack)] = top]
    BY <2>1
  <2>12. top \in Frames
    BY <2>7
  <2> HIDE DEF top
  <2>9. /\ stack' \in Seq(Frames) /\ Len(stack') = Len(stack)
        /\ \A k \in 1..Len(stack) : stack'[k] = IF k = Len(stack) THEN top ELSE stack[k]
    BY <2>1, <2>2, <2>12, <2>8, ReplaceTop
  <2>10. \A k \in 1..Len(stack') : /\ stack'[k].block \in DOMAIN entryStates'
                                   /\ k < Len(stack') => stack'[k].succ > 0
    BY <2>1, <2>2, <2>7, <2>9 DEF TypeOK, Top
  <2>11. Top'.succ # 0
    BY <2>1, <2>2, <2>7, <2>9, EmptySeq DEF Top
  <2> QED
    BY <2>1, <2>2, <2>9, <2>10, <2>11, StackTypes DEF TypeOK
<1>7. CASE VisitBlock
  <2>1. /\ HasNextSucc /\ prog' = prog /\ fn' = fn /\ acquires' = acquires /\ releases' = releases
        /\ entryStates' = Put(entryStates, NextSucc, Top.ls)
        /\ stack' = Entered(NextSucc, Top.ls, FALSE)
    BY <1>7 DEF VisitBlock, passVars
  <2>2. fn > 0 /\ Top.ls \in LockStates
    BY <2>1, TopTypes DEF HasNextSucc
  <2> QED
    BY <2>1, <2>2, EnterTypes
<1>8. CASE RevisitEqual
  <2>1. /\ HasNextSucc /\ prog' = prog /\ fn' = fn /\ acquires' = acquires /\ releases' = releases
        /\ entryStates' = entryStates /\ stack' = Returned
    BY <1>8 DEF RevisitEqual, passVars
  <2> QED
    BY <2>1, ReturnTypes
<1>9. CASE RevisitMerge
  <2> DEFINE merged == intersect(entryStates[NextSucc], Top.ls)
  <2>1. /\ HasNextSucc /\ prog' = prog /\ fn' = fn /\ acquires' = acquires /\ releases' = releases
        /\ NextSucc \in DOMAIN entryStates
        /\ \/ entryStates' = entryStates /\ stack' = Returned
           \/ /\ entryStates' = Put(entryStates, NextSucc, merged)
              /\ stack' = Entered(NextSucc, merged, TRUE)
    BY <1>9 DEF RevisitMerge
  <2>2. fn > 0 /\ Top.ls \in LockStates
    BY <2>1, TopTypes DEF HasNextSucc
  <2>3. merged \in LockStates
    BY <2>1, <2>2, LockStateTypes DEF TypeOK
  <2> HIDE DEF merged
  <2> QED
    BY <2>1, <2>2, <2>3, EnterTypes, ReturnTypes
<1>10. CASE LeaveBlock
  <2>1. /\ stack # <<>> /\ prog' = prog /\ fn' = fn /\ entryStates' = entryStates
        /\ acquires' = acquires /\ releases' = releases
        /\ stack' = SubSeq(stack, 1, Len(stack) - 1)
    BY <1>10 DEF LeaveBlock, passVars
  <2>2. /\ stack \in Seq(Frames) /\ fn > 0 /\ Len(stack) \in Nat /\ Len(stack) > 0
    BY <2>1, TopTypes
  <2>3. /\ stack' \in Seq(Frames) /\ Len(stack') = Len(stack) - 1
        /\ \A k \in 1..(Len(stack) - 1) : stack'[k] = stack[k]
    BY <2>1, <2>2, Pop
  <2>4. \A k \in 1..Len(stack') : /\ stack'[k].block \in DOMAIN entryStates'
                                  /\ k < Len(stack') => stack'[k].succ > 0
    BY <2>1, <2>2, <2>3 DEF TypeOK
  <2>5. stack' # <<>> => Top'.succ # 0
    <3> SUFFICES ASSUME stack' # <<>> PROVE Top'.succ # 0
      OBVIOUS
    <3>1. Len(stack') \in 1..(Len(stack) - 1) /\ Len(stack') < Len(stack)
      BY <2>2, <2>3, EmptySeq
    <3>2. Top' = stack[Len(stack')] /\ Len(stack') \in 1..Len(stack)
      BY <2>2, <2>3, <3>1 DEF Top
    <3> QED
      BY <2>2, <3>1, <3>2 DEF TypeOK
  <2> QED
    BY <2>1, <2>2, <2>3, <2>4, <2>5, StackTypes DEF TypeOK
<1>11. CASE UNCHANGED vars
  BY <1>11 DEF vars, walkVars, passVars, TypeOK, Frames, Body, Code, Succs, Top
<1> QED
  BY <1>1, <1>2, <1>3, <1>4, <1>5, <1>6, <1>7, <1>8, <1>9, <1>10, <1>11
     DEF Next, ProcessInstruction, WalkBlock

\* Type correctness of the walk, for every package: in particular a frame never
\* points outside its block and no block on the stack lacks an entry state.
THEOREM TypeCorrect == Spec => []TypeOK
<1>1. Init => TypeOK
  BY TypeInit
<1>2. TypeOK /\ [Next]_vars => TypeOK'
  BY TypeStep
<1> QED
  BY <1>1, <1>2, PTL DEF Spec

-----------------------------------------------------------------------------
(* The order on lock states and the effect of instructions. *)

LEMMA BelowRefl ==
    ASSUME NEW ls \in LockStates PROVE Below(ls, ls)
BY DEF Below

LEMMA BelowTrans ==
    ASSUME NEW s \in LockStates, NEW t \in LockStates, NEW u \in LockStates,
           Below(s, t), Below(t, u)
    PROVE  Below(s, u)
BY DEF Below

LEMMA EqualHeldBelow ==
    ASSUME NEW s, NEW t, equalHeld(s, t)
    PROVE  Below(s, t) /\ Below(t, s)
BY DEF equalHeld, Below

LEMMA EffectTypes ==
    ASSUME NEW i \in Instrs, NEW ls \in LockStates
    PROVE  Effect(i, ls) \in LockStates
<1>1. CASE i.op = "lock"
  BY <1>1, InstrTypes DEF Effect, LockStates
<1>2. CASE i.op = "unlock"
  BY <1>2, InstrTypes DEF Effect, LockStates
<1>3. CASE i.op = "deferUnlock"
  BY <1>3, InstrTypes DEF Effect, LockStates
<1>4. CASE i.op \notin {"lock", "unlock", "deferUnlock"}
  BY <1>4 DEF Effect
<1> QED
  BY <1>1, <1>2, <1>3, <1>4

\* An instruction preserves the order: what the walk knows to be held it still
\* knows after the instruction, and rightly so.
LEMMA EffectMonotone ==
    ASSUME NEW i \in Instrs, NEW s \in LockStates, NEW t \in LockStates, Below(s, t)
    PROVE  Below(Effect(i, s), Effect(i, t))
<1>1. CASE i.op = "lock"
  BY <1>1, InstrTypes DEF Effect, LockStates, Below, Keys, Modes
<1>2. CASE i.op = "unlock"
  BY <1>2, InstrTypes DEF Effect, LockStates, Below, Keys, Modes
<1>3. CASE i.op = "deferUnlock"
  BY <1>3, InstrTypes DEF Effect, LockStates, Below, Keys, Modes
<1>4. CASE i.op \notin {"lock", "unlock", "deferUnlock"}
  BY <1>4 DEF Effect
<1> QED
  BY <1>1, <1>2, <1>3, <1>4

LEMMA EffectWithin ==
    ASSUME NEW i \in Instrs, NEW s \in LockStates, NEW t \in LockStates, Within(s, t)
    PROVE  Within(Effect(i, s), Effect(i, t))
<1>1. CASE i.op = "lock"
  BY <1>1, InstrTypes DEF Effect, LockStates, Within, Modes
<1>2. CASE i.op = "unlock"
  BY <1>2, InstrTypes DEF Effect, LockStates, Within, Modes
<1>3. CASE i.op = "deferUnlock"
  BY <1>3, InstrTypes DEF Effect, LockStates, Within, Modes
<1>4. CASE i.op \notin {"lock", "unlock", "deferUnlock"}
  BY <1>4 DEF Effect
<1> QED
  BY <1>1, <1>2, <1>3, <1>4

\* Every instruction handler of the walk goes on with the effect of its instruction.
LEMMA HandlerEffect ==
    ASSUME TypeOK, ProcessInstruction
    PROVE  /\ \E ops : At(ops)
           /\ Advance(Effect(Instr, Top.ls))
<1>1. CASE Lock
  <2>1. Effect(Instr, Top.ls) = lock(Top.ls, Instr.ref, Instr.mode) /\ Instr.op = "lock"
    BY <1>1 DEF Lock, At, Effect, lock
  <2> QED
    BY <1>1, <2>1 DEF Lock
<1>2. CASE Unlock
  <2>1. Effect(Instr, Top.ls) = unlock(Top.ls, Instr.ref) /\ Instr.op = "unlock"
    BY <1>2 DEF Unlock, At, Effect, unlock
  <2> QED
    BY <1>2, <2>1 DEF Unlock
<1>3. CASE DeferUnlock
  <2>1. Effect(Instr, Top.ls) = deferUnlock(Top.ls, Instr.ref) /\ Instr.op = "deferUnlock"
    BY <1>3 DEF DeferUnlock, At, Effect, deferUnlock
  <2> QED
    BY <1>3, <2>1 DEF DeferUnlock
<1>4. CASE DeferLock \/ Return \/ Access \/ Call \/ Skip
  <2>1. Instr.op \in {"deferLock", "return", "access", "call", "other"}
    BY <1>4 DEF DeferLock, Return, Access, Call, Skip, At
  <2>2. Effect(Instr, Top.ls) = Top.ls
    BY <2>1 DEF Effect
  <2> QED
    BY <1>4, <2>1, <2>2 DEF DeferLock, Return, Access, Call, Skip, passVars
<1> QED
  BY <1>1, <1>2, <1>3, <1>4 DEF ProcessInstruction

\* The graph does not change while a function is walked.
LEMMA SameGraph ==
    ASSUME prog' = prog, fn' = fn
    PROVE  /\ Body' = Body
           /\ \A b : Code(b)' = Code(b)
           /\ \A b : Succs(b)' = Succs(b)
BY DEF Body, Code, Succs

\* The stack after an instruction.
LEMMA AdvanceStack ==
    ASSUME TypeOK, NEW ops, At(ops), NEW ls \in LockStates, Advance(ls)
    PROVE  /\ Len(stack') = Len(stack) /\ stack' # <<>> /\ Top' = stack'[Len(stack)]
           /\ \A k \in 1..Len(stack) :
                /\ stack'[k].block = stack[k].block
                /\ stack'[k].succ = stack[k].succ
                /\ k < Len(stack) => stack'[k] = stack[k]
           /\ Top'.block = Top.block /\ Top'.succ = 0 /\ Top'.ls = ls /\ Top'.ip = Top.ip + 1
           /\ Top'.shared = Top.shared
<1> DEFINE top == [Top EXCEPT !.ls = ls, !.ip = @ + 1]
<1>1. /\ stack # <<>> /\ Top.ip <= Len(Code(Top.block)) /\ Top \in Frames /\ stack \in Seq(Frames)
      /\ Len(stack) \in Nat /\ Len(stack) > 0 /\ fn > 0 /\ Top.succ = 0 /\ Top.block \in DOMAIN Body
  BY AtTypes, TopTypes
<1>2. Len(Code(Top.block)) \in Nat /\ Len(Succs(Top.block)) \in Nat
  BY <1>1, BodyTypes
<1>3. /\ top \in Frames /\ top.block = Top.block /\ top.ls = ls
      /\ top.ip = Top.ip + 1 /\ top.succ = Top.succ /\ top.shared = Top.shared
  BY <1>1, <1>2, FrameUpdates
<1>4. stack' = [stack EXCEPT ![Len(stack)] = top]
  BY DEF Advance, Top
<1> HIDE DEF top
<1>5. /\ stack' \in Seq(Frames) /\ Len(stack') = Len(stack)
      /\ \A k \in 1..Len(stack) : stack'[k] = IF k = Len(stack) THEN top ELSE stack[k]
  BY <1>1, <1>3, <1>4, ReplaceTop
<1>6. Top' = stack'[Len(stack)] /\ Top' = top /\ stack' # <<>>
  BY <1>1, <1>5, EmptySeq DEF Top
<1>7. \A k \in 1..Len(stack) : k = Len(stack) => stack[k] = Top
  BY DEF Top
<1> QED
  BY <1>1, <1>3, <1>5, <1>6, <1>7

\* The length of the stack after a call of walkBlock that enters the block.
LEMMA EntersWhen ==
    ASSUME TypeOK, HasNextSucc
    PROVE  /\ stack' = Returned => ~Enters
           /\ \A ls \in LockStates, sh \in BOOLEAN : stack' = Entered(NextSucc, ls, sh) =>
                Enters /\ stack'[Len(stack')].ls = ls
<1>1. Len(stack) \in Nat
  BY TopTypes DEF HasNextSucc
<1>2. stack' = Returned => ~Enters
  BY <1>1, ReturnedTypes DEF Enters
<1>3. ASSUME NEW ls \in LockStates, NEW sh \in BOOLEAN, stack' = Entered(NextSucc, ls, sh)
      PROVE  Enters /\ stack'[Len(stack')].ls = ls
  <2>1. Len(stack') = Len(stack) + 1 /\ stack'[Len(stack) + 1] = Frame(NextSucc, ls, sh)
    BY <1>1, <1>3, EnteredTypes
  <2> QED
    BY <1>1, <2>1 DEF Enters, Frame
<1> QED
  BY <1>2, <1>3

\* Every step of SSpec is a step of the walk or leaves the walk alone.
LEMMA StepOfWalk == [SNext]_svars => [Next]_vars
BY DEF SNext, svars, StartFunction, StepInstruction, StepBlock, Begin, Execute, Branch, Next
-----------------------------------------------------------------------------
(* What the walk knows to be held is held on the path it has taken. *)

PathsOK == TypeOK /\ paths \in Seq(LockStates) /\ HeldOnPath

LEMMA IntersectWithin ==
    ASSUME NEW s \in LockStates, NEW t \in LockStates, NEW u \in LockStates, Within(t, u)
    PROVE  Within(intersect(s, t), u)
BY DEF LockStates, Within, intersect

LEMMA PathsStep == PathsOK /\ [SNext]_svars => PathsOK'
<1> SUFFICES ASSUME PathsOK, [SNext]_svars PROVE PathsOK'
  OBVIOUS
<1>0. TypeOK /\ TypeOK' /\ paths \in Seq(LockStates) /\ HeldOnPath
  BY StepOfWalk, TypeStep DEF PathsOK
<1>1. CASE StartFunction
  <2>1. newLockState \in LockStates /\ Within(newLockState, newLockState)
    BY DEF newLockState, LockStates, Modes, Within
  <2>2. \/ stack' = <<>> /\ paths' = <<>>
        \/ stack' = <<Frame(1, newLockState, FALSE)>> /\ paths' = <<newLockState>>
    BY <1>1 DEF StartFunction, WalkFunction
  <2>3. CASE stack' = <<>> /\ paths' = <<>>
    BY <1>0, <2>3, EmptySeq DEF PathsOK, HeldOnPath
  <2>4. CASE stack' = <<Frame(1, newLockState, FALSE)>> /\ paths' = <<newLockState>>
    <3>1. /\ paths' \in Seq(LockStates) /\ Len(paths') = Len(stack') /\ DOMAIN stack' = {1}
          /\ stack'[1].ls = newLockState /\ paths'[1] = newLockState
      BY <2>1, <2>4 DEF Frame
    <3> QED
      BY <1>0, <2>1, <3>1 DEF PathsOK, HeldOnPath, Within
  <2> QED
    BY <2>2, <2>3, <2>4
<1>2. ASSUME stack # <<>>
      PROVE  /\ stack \in Seq(Frames) /\ Len(stack) \in Nat /\ Len(stack) > 0 /\ DOMAIN stack = 1..Len(stack)
             /\ Len(paths) = Len(stack) /\ DOMAIN paths = 1..Len(stack) /\ paths # <<>>
             /\ \A k \in 1..Len(stack) : Within(stack[k].ls, paths[k]) /\ paths[k] \in LockStates
             /\ Within(Top.ls, paths[Len(stack)]) /\ Top.ls \in LockStates
  <2>1. /\ stack \in Seq(Frames) /\ Len(stack) \in Nat /\ Len(stack) > 0 /\ DOMAIN stack = 1..Len(stack)
        /\ Top.ls \in LockStates
    BY <1>0, <1>2, TopTypes, LenProperties
  <2>2. Len(paths) = Len(stack) /\ DOMAIN paths = 1..Len(stack) /\ paths # <<>>
    BY <1>0, <2>1, LenProperties, EmptySeq DEF HeldOnPath
  <2>3. \A k \in 1..Len(stack) : Within(stack[k].ls, paths[k]) /\ paths[k] \in LockStates
    BY <1>0, <2>1, <2>2, ElementOfSeq DEF HeldOnPath
  <2>4. Len(stack) \in 1..Len(stack)
    BY <2>1
  <2> QED
    BY <2>1, <2>2, <2>3, <2>4 DEF Top
\* What has to be shown of the two sequences after a step.
<1>3. ASSUME paths' \in Seq(LockStates), Len(paths') = Len(stack'), DOMAIN stack' = 1..Len(stack'),
             \A k \in 1..Len(stack') : Within(stack'[k].ls, paths'[k])
      PROVE  PathsOK'
  BY <1>0, <1>3 DEF PathsOK, HeldOnPath, Within
<1>4. ASSUME TypeOK', fn' > 0 PROVE DOMAIN stack' = 1..Len(stack')
  BY <1>4, LenProperties DEF TypeOK
<1>5. CASE StepInstruction
  <2>0. PICK n, new, exact : /\ n = Len(stack) /\ new = Effect(Instr, Top.ls)
                             /\ exact = Effect(Instr, paths[Len(stack)])
    OBVIOUS
  <2>1. PICK ops : At(ops)
    BY <1>0, <1>5, HandlerEffect DEF StepInstruction
  <2>2. stack # <<>> /\ Instr \in Instrs /\ Advance(new)
    BY <1>0, <1>5, <2>0, <2>1, HandlerEffect, AtTypes DEF StepInstruction
  <2>3. /\ n \in Nat /\ n > 0 /\ Len(paths) = n /\ paths # <<>> /\ fn > 0
        /\ \A k \in 1..n : Within(stack[k].ls, paths[k])
        /\ paths[n] \in LockStates /\ Within(Top.ls, paths[n]) /\ Top.ls \in LockStates
    BY <1>0, <1>2, <2>0, <2>2, TopTypes
  <2>4. new \in LockStates /\ exact \in LockStates /\ Within(new, exact)
    BY <2>0, <2>2, <2>3, EffectTypes, EffectWithin
  <2>5. /\ Len(stack') = n
        /\ \A k \in 1..n : k < n => stack'[k] = stack[k]
        /\ stack'[n].ls = new
    BY <1>0, <2>0, <2>1, <2>2, <2>4, AdvanceStack
  <2>6. paths' = [paths EXCEPT ![Len(paths)] = exact]
    BY <1>5, <2>0, <2>3 DEF StepInstruction
  <2>7. /\ paths' \in Seq(LockStates) /\ Len(paths') = n
        /\ \A k \in 1..n : paths'[k] = IF k = n THEN exact ELSE paths[k]
    BY <1>0, <2>3, <2>4, <2>6, ReplaceTop
  <2>8. \A k \in 1..n : Within(stack'[k].ls, paths'[k])
    BY <2>3, <2>4, <2>5, <2>7
  <2>9. DOMAIN stack' = 1..Len(stack')
    BY <1>0, <1>4, <2>2, <2>3 DEF Advance
  <2> QED
    BY <1>3, <2>5, <2>7, <2>8, <2>9
<1>6. CASE StepBlock
  <2>0. PICK n : n = Len(stack)
    OBVIOUS
  <2>1. /\ paths' = IF Enters THEN Append(paths, paths[n]) ELSE SubSeq(paths, 1, Len(stack'))
        /\ stack # <<>> /\ fn' = fn
    BY <1>6, <2>0 DEF StepBlock, WalkBlock, VisitBlock, RevisitEqual, RevisitMerge, ExitBlock,
                      LeaveBlock, HasNextSucc
  <2>2. /\ stack \in Seq(Frames) /\ n \in Nat /\ n > 0 /\ Len(paths) = n /\ paths # <<>>
        /\ \A k \in 1..n : Within(stack[k].ls, paths[k]) /\ paths[k] \in LockStates
        /\ Within(Top.ls, paths[n]) /\ Top.ls \in LockStates /\ fn > 0
    BY <1>0, <1>2, <2>0, <2>1, TopTypes
  <2>3. DOMAIN stack' = 1..Len(stack')
    BY <1>0, <1>4, <2>1, <2>2
  \* A step that does not enter a block.
  <2>4. ASSUME Len(stack') \in {n - 1, n}, \A k \in 1..Len(stack') : stack'[k].ls = stack[k].ls
        PROVE  PathsOK'
    <3>1. ~Enters /\ paths' = SubSeq(paths, 1, Len(stack'))
      BY <2>0, <2>1, <2>2, <2>4 DEF Enters
    <3>2. CASE Len(stack') = n
      <4>1. paths' = paths
        BY <1>0, <2>2, <3>1, <3>2, SubSeqFull
      <4> QED
        BY <1>0, <1>3, <2>2, <2>3, <2>4, <3>2, <4>1
    <3>3. CASE Len(stack') = n - 1
      <4>1. /\ paths' \in Seq(LockStates) /\ Len(paths') = n - 1
            /\ \A k \in 1..(n - 1) : paths'[k] = paths[k]
        BY <1>0, <2>2, <3>1, <3>3, Pop
      <4>2. \A k \in 1..Len(stack') : Within(stack'[k].ls, paths'[k])
        BY <2>2, <2>4, <3>3, <4>1
      <4> QED
        BY <1>3, <2>3, <3>3, <4>1, <4>2
    <3> QED
      BY <2>4, <3>2, <3>3
  <2>5. ASSUME NEW ls \in LockStates, NEW sh \in BOOLEAN, HasNextSucc, stack' = Entered(NextSucc, ls, sh),
               Within(ls, paths[n])
        PROVE  PathsOK'
    <3>1. Enters /\ paths' = Append(paths, paths[n])
      BY <1>0, <2>1, <2>5, EntersWhen
    <3>2. /\ Len(stack') = n + 1
          /\ \A k \in 1..n : stack'[k] = Returned[k]
          /\ stack'[n + 1] = Frame(NextSucc, ls, sh)
      BY <1>0, <2>0, <2>2, <2>5, EnteredTypes
    <3>3. \A k \in 1..n : Returned[k].ls = stack[k].ls
      BY <1>0, <2>0, <2>5, ReturnedTypes
    <3>4. paths[n] \in LockStates
      BY <2>2
    <3>5. /\ paths' \in Seq(LockStates) /\ Len(paths') = n + 1
          /\ \A k \in 1..n : paths'[k] = paths[k]
          /\ paths'[n + 1] = paths[n]
      BY <1>0, <2>2, <3>1, <3>4, AppendProperties
    <3>6. stack'[n + 1].ls = ls
      BY <3>2 DEF Frame
    <3>7. \A k \in 1..n : Within(stack'[k].ls, paths'[k])
      BY <2>2, <3>2, <3>3, <3>5
    <3>8. Within(stack'[n + 1].ls, paths'[n + 1])
      BY <2>5, <3>5, <3>6
    <3>9. \A k \in 1..(n + 1) : Within(stack'[k].ls, paths'[k])
      BY <2>2, <3>7, <3>8
    <3> QED
      BY <1>3, <2>3, <3>2, <3>5, <3>9
  <2>6. ASSUME HasNextSucc, stack' = Returned PROVE PathsOK'
    BY <1>0, <2>0, <2>4, <2>6, ReturnedTypes
  <2>7. CASE VisitBlock
    BY <1>0, <2>2, <2>5, <2>7 DEF VisitBlock
  <2>8. CASE RevisitEqual
    BY <2>6, <2>8 DEF RevisitEqual
  <2>9. CASE RevisitMerge
    <3>0. PICK prev, merged : prev = entryStates[NextSucc] /\ merged = intersect(prev, Top.ls)
      OBVIOUS
    <3>1. /\ HasNextSucc /\ NextSucc \in DOMAIN entryStates
          /\ stack' = Returned \/ stack' = Entered(NextSucc, merged, TRUE)
      BY <2>9, <3>0 DEF RevisitMerge
    <3>2. prev \in LockStates
      BY <1>0, <2>2, <3>0, <3>1 DEF TypeOK
    <3>3. merged \in LockStates /\ Within(merged, paths[n])
      <4>1. paths[n] \in LockStates
        BY <2>2
      <4> QED
        BY <2>2, <3>0, <3>2, <4>1, LockStateTypes, IntersectWithin
    <3> QED
      BY <2>5, <2>6, <3>1, <3>3
  <2>10. CASE ExitBlock
    <3>1. stack' = [stack EXCEPT ![Len(stack)].succ = 1]
      BY <2>10 DEF ExitBlock
    <3>2. DOMAIN stack = 1..n
      BY <2>0, <2>2, LenProperties
    <3>3. \A k \in 1..n : stack[k] \in Frames
      BY <2>0, <2>2, ElementOfSeq
    <3>4. Len(stack') = n
      BY <2>0, <3>1
    <3>5. \A k \in 1..n : stack'[k].ls = stack[k].ls
      BY <2>0, <3>1, <3>2, <3>3 DEF Frames
    <3> QED
      BY <2>4, <3>4, <3>5
  <2>11. CASE LeaveBlock
    <3>1. stack' = SubSeq(stack, 1, Len(stack) - 1)
      BY <2>11 DEF LeaveBlock
    <3>2. Len(stack') = n - 1 /\ \A k \in 1..(n - 1) : stack'[k] = stack[k]
      BY <2>0, <2>1, <2>2, <3>1, Pop
    <3> QED
      BY <2>4, <3>2
  <2> QED
    BY <1>6, <2>7, <2>8, <2>9, <2>10, <2>11 DEF StepBlock, WalkBlock
<1>7. CASE Begin \/ Execute \/ Branch \/ UNCHANGED svars
  <2>1. stack' = stack /\ paths' = paths
    BY <1>7 DEF Begin, Execute, Branch, svars, vars, walkVars
  <2> QED
    BY <1>0, <2>1 DEF PathsOK, HeldOnPath, Within
<1> QED
  BY <1>1, <1>5, <1>6, <1>7 DEF SNext

\* In every package, the lock state of a running walkBlock is real, in the same
\* modes, on the path of blocks that led to it.
THEOREM HeldIsReal == SSpec => []HeldOnPath
<1>1. SInit => PathsOK
  BY TypeInit, EmptySeq DEF SInit, Init, PathsOK, HeldOnPath
<1>2. PathsOK => HeldOnPath
  BY DEF PathsOK
<1> QED
  BY <1>1, <1>2, PathsStep, PTL DEF SSpec
=============================================================================
