-------------------------- MODULE ProvenanceProofs --------------------------
(***************************************************************************)
(* For every package and every order of the ranges: the reasons that       *)
(* verbose mode gives for a requirement are true and lead to a cause.      *)
(***************************************************************************)
EXTENDS Provenance, PropagationProofs, StackLemmas

-----------------------------------------------------------------------------
(* The inductive invariant. *)

OTypeOK ==
    /\ origins \in [Funcs -> [MutexKeys -> SUBSET Origins]]
    /\ first \in [Funcs -> [MutexKeys -> Origins \cup {NoOrigin}]]

\* An origin of f for lock k is true.
TrueOrigin(f, k, o) ==
    IF o = AccessOrigin THEN k \in Direct(pkg, f)
    ELSE /\ k \in requires[o.viaCallee]
         /\ \E cs \in CallSites(pkg) :
              /\ cs.caller = f /\ cs.callee = o.viaCallee /\ cs.pos = o.viaCallPos
              /\ ~callerHoldsMutex(cs, k) /\ ~cs.prePublication

\* The first origin is one of the origins; a requirement without origins is imported,
\* and what is not required has none.
FirstNoted ==
    \A f \in Funcs : \A k \in MutexKeys :
      /\ first[f][k] # NoOrigin => first[f][k] \in origins[f][k]
      /\ (k \in requires[f] /\ first[f][k] = NoOrigin) => k \in pkg.requires[f]
      /\ origins[f][k] # {} => k \in requires[f] /\ pc # "derive"
      /\ \A o \in origins[f][k] : TrueOrigin(f, k, o)

Outside(f, k, S) == Root(f, k) \/ (first[f][k] \in origins[f][k] /\ first[f][k].viaCallee \notin S)

\* Following first origins leaves any set of functions that require the lock.
Grounded ==
    pc # "derive" => \A k \in MutexKeys :
      \A S \in SUBSET {f \in Funcs : k \in requires[f]} : S # {} => \E f \in S : Outside(f, k, S)

OInv == PInv /\ pkg \in Packages /\ OTypeOK /\ FirstNoted /\ Grounded

LEMMA OInvReasons == OInv => ReasonsGrounded
BY DEF OInv, FirstNoted, TrueOrigin, Grounded, Outside, ReasonsGrounded

-----------------------------------------------------------------------------
LEMMA OInvInit == OInit => OInv
<1> SUFFICES ASSUME OInit PROVE OInv
  OBVIOUS
<1>1. PInv /\ pkg \in Packages /\ pc = "derive" /\ requires = pkg.requires
  BY PInit DEF OInit, Init
<1>2. OTypeOK
  BY DEF OInit, OTypeOK
<1>3. FirstNoted
  BY <1>1 DEF OInit, FirstNoted
<1> QED
  BY <1>1, <1>2, <1>3 DEF OInv, Grounded

LEMMA DeriveOriginsStep ==
    ASSUME OInv, DeriveWithOrigins
    PROVE  OInv'
<1>1. /\ pc = "derive" /\ pc' = "requires" /\ pkg' = pkg
      /\ requires' = [f \in Funcs |-> requires[f] \cup Direct(pkg, f)]
      /\ origins' = [f \in Funcs |-> [k \in MutexKeys |-> IF k \in Direct(pkg, f) THEN {AccessOrigin} ELSE {}]]
      /\ first' = [f \in Funcs |-> [k \in MutexKeys |-> IF k \in Direct(pkg, f) THEN AccessOrigin ELSE NoOrigin]]
  BY DEF DeriveWithOrigins, DeriveInitialRequirements
<1>2. PInv' /\ pkg' \in Packages
  BY <1>1, DeriveStep DEF OInv, DeriveWithOrigins
<1>3. OTypeOK'
  BY <1>1 DEF OTypeOK, Origins
<1>4. \A f \in Funcs : \A k \in MutexKeys :
        /\ requires'[f] = requires[f] \cup Direct(pkg, f)
        /\ origins'[f][k] = IF k \in Direct(pkg, f) THEN {AccessOrigin} ELSE {}
        /\ first'[f][k] = IF k \in Direct(pkg, f) THEN AccessOrigin ELSE NoOrigin
        /\ k \in requires[f] => k \in pkg.requires[f]
        /\ Direct(pkg, f)' = Direct(pkg, f)
  <2>1. \A f \in Funcs : \A k \in MutexKeys : k \in requires[f] => k \in pkg.requires[f]
    BY <1>1 DEF OInv, FirstNoted
  <2> QED
    BY <1>1, <2>1 DEF Direct
<1>5. AccessOrigin # NoOrigin
  BY ProvenanceAssumption DEF Origins
<1>6. FirstNoted'
  BY <1>1, <1>4, <1>5 DEF FirstNoted, TrueOrigin
<1>7. Grounded'
  BY <1>1, <1>4 DEF Grounded, Outside, Root
<1> QED
  BY <1>2, <1>3, <1>6, <1>7 DEF OInv

\* What the range notes when it visits a callee.
LEMMA PassingTypes ==
    ASSUME OInv, NEW f \in Funcs, NEW k \in MutexKeys, NEW callee \in Funcs
    PROVE  /\ k \in FromCallee(f, callee) <=> Passing(f, k, callee) # {}
           /\ Passing(f, k, callee) # {} => k \in requires[callee] /\ k \notin pkg.requires[f]
           /\ \A i \in Passing(f, k, callee) :
                /\ pkg.sites[i] \in CallSites(pkg)
                /\ Via(i) \in CallOrigins /\ Via(i).viaCallee = callee /\ Via(i).viaCallPos = pkg.sites[i].pos
                /\ pkg.sites[i].caller = f /\ pkg.sites[i].callee = callee
                /\ ~callerHoldsMutex(pkg.sites[i], k) /\ ~pkg.sites[i].prePublication
           /\ \/ FirstOrigin(f, k, callee) = first[f][k] /\ (Passing(f, k, callee) = {} \/ first[f][k] # NoOrigin)
              \/ /\ first[f][k] = NoOrigin /\ Passing(f, k, callee) # {}
                 /\ \E i \in Passing(f, k, callee) : FirstOrigin(f, k, callee) = Via(i)
<1>1. /\ pkg \in Inputs /\ pkg.sites \in Seq(Sites) /\ Len(pkg.sites) \in Nat /\ DOMAIN pkg.sites = 1..Len(pkg.sites)
      /\ CallSites(pkg) \subseteq Sites /\ \A i \in 1..Len(pkg.sites) : pkg.sites[i] \in CallSites(pkg)
  <2>1. pkg \in Inputs
    BY DEF OInv, PInv, TypeOK
  <2> QED
    BY <2>1, InputTypes, LenProperties DEF CallSites
<1>2. ASSUME NEW i \in Passing(f, k, callee)
      PROVE  /\ i \in 1..Len(pkg.sites) /\ pkg.sites[i] \in CallSites(pkg)
             /\ Via(i) \in CallOrigins /\ Via(i).viaCallee = callee /\ Via(i).viaCallPos = pkg.sites[i].pos
             /\ pkg.sites[i].caller = f /\ pkg.sites[i].callee = callee
             /\ ~callerHoldsMutex(pkg.sites[i], k) /\ ~pkg.sites[i].prePublication
             /\ k \in requires[callee] /\ k \notin pkg.requires[f]
  <2>1. /\ i \in 1..Len(pkg.sites) /\ pkg.sites[i].caller = f /\ pkg.sites[i].callee = callee
        /\ k \in PassedOn(pkg.sites[i], requires[callee])
    BY <1>1 DEF Passing
  <2>2. pkg.sites[i] \in Sites /\ pkg.sites[i].pos \in Nat /\ pkg.sites[i] \in CallSites(pkg)
    BY <1>1, <2>1 DEF Sites
  <2>3. pkg.requires[f] = {}
    BY <2>1, <2>2, ImportedAssumption DEF OInv
  <2>4. Via(i) \in CallOrigins /\ Via(i).viaCallee = callee /\ Via(i).viaCallPos = pkg.sites[i].pos
    BY <2>1, <2>2 DEF Via, CallOrigins
  <2> QED
    BY <2>1, <2>2, <2>3, <2>4 DEF PassedOn
<1>3. ASSUME k \in FromCallee(f, callee) PROVE Passing(f, k, callee) # {}
  <2>1. PICK cs \in CallSites(pkg) : cs.caller = f /\ cs.callee = callee /\ k \in PassedOn(cs, requires[callee])
    BY <1>3, FromCalleeTypes
  <2>2. PICK i \in 1..Len(pkg.sites) : pkg.sites[i] = cs
    BY DEF CallSites
  <2>3. i \in Passing(f, k, callee)
    BY <1>1, <2>1, <2>2 DEF Passing
  <2> QED
    BY <2>3
<1>4. ASSUME NEW i \in Passing(f, k, callee) PROVE k \in FromCallee(f, callee)
  <2>1. k \in PassedOn(pkg.sites[i], requires[callee])
    BY DEF Passing
  <2> QED
    BY <1>2, <2>1, FromCalleeTypes
<1>5. ASSUME Passing(f, k, callee) # {}
      PROVE  \E i \in Passing(f, k, callee) : i = CHOOSE j \in Passing(f, k, callee) : \A l \in Passing(f, k, callee) : j <= l
  <2>1. Passing(f, k, callee) \in SUBSET Nat
    BY <1>1, <1>2
  <2>2. \E j \in Passing(f, k, callee) : \A l \in Passing(f, k, callee) : j <= l
    BY <1>5, <2>1, LeastNatural
  <2> QED
    BY <2>2
<1>6. \/ FirstOrigin(f, k, callee) = first[f][k] /\ (Passing(f, k, callee) = {} \/ first[f][k] # NoOrigin)
      \/ /\ first[f][k] = NoOrigin /\ Passing(f, k, callee) # {}
         /\ \E i \in Passing(f, k, callee) : FirstOrigin(f, k, callee) = Via(i)
  BY <1>5 DEF FirstOrigin
<1> QED
  BY <1>2, <1>3, <1>4, <1>6

LEMMA VisitOriginsStep ==
    ASSUME OInv, NEW callee \in Funcs, VisitWithOrigins(callee)
    PROVE  OInv'
<1>1. /\ pc = "range" /\ pc' = "range" /\ pkg' = pkg
      /\ requires' = [f \in Funcs |-> requires[f] \cup FromCallee(f, callee)]
      /\ origins' = [f \in Funcs |-> [k \in MutexKeys |->
                        origins[f][k] \cup {Via(i) : i \in Passing(f, k, callee)}]]
      /\ first' = [f \in Funcs |-> [k \in MutexKeys |-> FirstOrigin(f, k, callee)]]
  BY DEF VisitWithOrigins, VisitCallee
<1>2. PInv' /\ pkg' \in Packages
  BY <1>1, VisitCalleeStep DEF OInv, VisitWithOrigins
<1>3. \A f \in Funcs : \A k \in MutexKeys :
        /\ requires'[f] = requires[f] \cup FromCallee(f, callee)
        /\ origins'[f][k] = origins[f][k] \cup {Via(i) : i \in Passing(f, k, callee)}
        /\ first'[f][k] = FirstOrigin(f, k, callee)
        /\ Direct(pkg, f)' = Direct(pkg, f)
  BY <1>1 DEF Direct
<1>4. CallSites(pkg)' = CallSites(pkg)
  BY <1>1 DEF CallSites
<1>5. NoOrigin \notin CallOrigins /\ AccessOrigin \notin CallOrigins
  BY ProvenanceAssumption DEF Origins
<1>6. ASSUME NEW f \in Funcs, NEW k \in MutexKeys
      PROVE  origins'[f][k] \in SUBSET Origins /\ first'[f][k] \in Origins \cup {NoOrigin}
  <2>1. origins[f][k] \in SUBSET Origins /\ first[f][k] \in Origins \cup {NoOrigin}
    BY DEF OInv, OTypeOK
  <2> QED
    BY <1>3, <2>1, PassingTypes DEF Origins
<1>7. OTypeOK'
  BY <1>1, <1>3, <1>6 DEF OTypeOK
<1>8. ASSUME NEW f \in Funcs, NEW k \in MutexKeys
      PROVE  /\ first'[f][k] # NoOrigin => first'[f][k] \in origins'[f][k]
             /\ (k \in requires'[f] /\ first'[f][k] = NoOrigin) => k \in pkg.requires[f]
             /\ origins'[f][k] # {} => k \in requires'[f] /\ pc' # "derive"
  BY <1>1, <1>3, <1>5, PassingTypes DEF OInv, FirstNoted
<1>9. ASSUME NEW f \in Funcs, NEW k \in MutexKeys, NEW o \in origins'[f][k]
      PROVE  TrueOrigin(f, k, o)'
  <2>1. CASE o \in origins[f][k]
    <3>1. TrueOrigin(f, k, o)
      BY <2>1 DEF OInv, FirstNoted
    <3>2. CASE o = AccessOrigin
      BY <1>3, <3>1, <3>2 DEF TrueOrigin
    <3>3. CASE o # AccessOrigin
      <4>1. o \in CallOrigins
        BY <2>1, <3>3 DEF OInv, OTypeOK, Origins
      <4>2. o.viaCallee \in Funcs
        BY <4>1 DEF CallOrigins
      <4> QED
        BY <1>3, <1>4, <3>1, <3>3, <4>2 DEF TrueOrigin
    <3> QED
      BY <3>2, <3>3
  <2>2. CASE o \notin origins[f][k]
    <3>1. PICK i \in Passing(f, k, callee) : o = Via(i)
      BY <1>3, <1>9, <2>2
    <3>2. /\ pkg.sites[i] \in CallSites(pkg) /\ o \in CallOrigins /\ o.viaCallee = callee
          /\ o.viaCallPos = pkg.sites[i].pos /\ k \in requires[callee]
          /\ pkg.sites[i].caller = f /\ pkg.sites[i].callee = callee
          /\ ~callerHoldsMutex(pkg.sites[i], k) /\ ~pkg.sites[i].prePublication
      BY <3>1, PassingTypes
    <3>3. o # AccessOrigin /\ k \in requires'[o.viaCallee]
      BY <1>3, <1>5, <3>2
    <3> QED
      BY <1>4, <3>2, <3>3 DEF TrueOrigin
  <2> QED
    BY <2>1, <2>2
<1>10. FirstNoted'
  BY <1>1, <1>8, <1>9 DEF FirstNoted
<1>11. Grounded'
  <2> SUFFICES ASSUME NEW k \in MutexKeys, NEW S \in SUBSET {f \in Funcs : k \in requires'[f]}, S # {}
               PROVE  \E f \in S : Outside(f, k, S)'
    BY DEF Grounded
  <2> DEFINE T == {f \in S : k \in requires[f]}
  <2>1. CASE T = {}
    <3>1. PICK f \in S : f \in Funcs /\ k \in requires'[f] /\ k \notin requires[f]
      BY <2>1
    <3>2. k \in FromCallee(f, callee)
      BY <1>3, <3>1
    <3>3. first[f][k] = NoOrigin
      BY <3>1 DEF OInv, FirstNoted
    <3>4. PICK i \in Passing(f, k, callee) : first'[f][k] = Via(i)
      BY <1>3, <3>1, <3>2, <3>3, PassingTypes
    <3>5. Via(i).viaCallee = callee /\ k \in requires[callee] /\ Via(i) \in origins'[f][k]
      BY <1>3, <3>1, <3>4, PassingTypes
    <3>6. callee \notin S
      BY <2>1, <3>5
    <3> QED
      BY <3>4, <3>5, <3>6 DEF Outside
  <2>2. CASE T # {}
    <3>1. T \in SUBSET {f \in Funcs : k \in requires[f]}
      OBVIOUS
    <3>2. PICK f \in T : Outside(f, k, T)
      BY <1>1, <2>2, <3>1 DEF OInv, Grounded
    <3>3. f \in S /\ f \in Funcs
      OBVIOUS
    <3>4. CASE first[f][k] = NoOrigin
      <4>1. k \in pkg.requires[f]
        BY <3>3, <3>4 DEF OInv, FirstNoted
      <4>2. Passing(f, k, callee) = {}
        BY <3>3, <4>1, PassingTypes
      <4>3. first'[f][k] = NoOrigin
        BY <1>3, <3>3, <3>4, <4>2, PassingTypes
      <4> QED
        BY <1>1, <3>3, <4>1, <4>3 DEF Outside, Root
    <3>5. CASE first[f][k] # NoOrigin
      <4>1. first'[f][k] = first[f][k] /\ origins[f][k] \subseteq origins'[f][k]
        BY <1>3, <3>3, <3>5, PassingTypes
      <4>2. CASE first[f][k] = AccessOrigin
        BY <3>3, <4>1, <4>2 DEF Outside, Root
      <4>3. CASE first[f][k] # AccessOrigin
        <5>1. first[f][k] \in origins[f][k] /\ first[f][k].viaCallee \notin T
          BY <3>2, <3>5, <4>3 DEF Outside, Root
        <5>2. k \in requires[first[f][k].viaCallee]
          <6>1. TrueOrigin(f, k, first[f][k])
            BY <3>3, <5>1 DEF OInv, FirstNoted
          <6> QED
            BY <4>3, <6>1 DEF TrueOrigin
        <5>3. first[f][k].viaCallee \notin S
          BY <5>1, <5>2
        <5> QED
          BY <3>3, <4>1, <5>1, <5>3 DEF Outside
      <4> QED
        BY <4>2, <4>3
    <3> QED
      BY <3>4, <3>5
  <2> QED
    BY <2>1, <2>2
<1> QED
  BY <1>2, <1>7, <1>10, <1>11 DEF OInv

LEMMA OtherOriginsStep ==
    ASSUME OInv, OtherStep \/ UNCHANGED ovars
    PROVE  OInv'
<1>1. pkg' = pkg /\ requires' = requires /\ origins' = origins /\ first' = first /\ [Next]_vars
      /\ (pc = "derive" <=> pc' = "derive")
  BY DEF OtherStep, ovars, originVars, vars, Next, StartRange, EndRange, SeedAcquires, StartSites, VisitSite, EndSites, Finish
<1>2. PInv' /\ pkg' \in Packages
  BY <1>1, PStep DEF OInv
<1>3. OTypeOK'
  BY <1>1 DEF OInv, OTypeOK
<1>4. FirstNoted'
  BY <1>1 DEF OInv, FirstNoted, TrueOrigin, Direct, CallSites
<1>5. Grounded'
  BY <1>1 DEF OInv, Grounded, Outside, Root
<1> QED
  BY <1>2, <1>3, <1>4, <1>5 DEF OInv

LEMMA OInvStep == OInv /\ [ONext]_ovars => OInv'
BY DeriveOriginsStep, VisitOriginsStep, OtherOriginsStep DEF ONext

LEMMA OInvariant == OSpec => []OInv
BY OInvInit, OInvStep, PTL DEF OSpec

\* Whatever the order in which propagateRequirements visits funcFacts, each origin that
\* it notes is true, and a chain of first origins never goes round in a circle.
THEOREM ReasonsAreGrounded == OSpec => []ReasonsGrounded
BY OInvReasons, OInvariant, PTL

-----------------------------------------------------------------------------
(* The chains that formatSingleOrigin follows. *)

\* From one line of an explanation to the next.
Follow(k, x) == IF x[2] \in CallOrigins THEN <<x[2].viaCallee, first[x[2].viaCallee][k]>> ELSE x

\* g holds the lines of an explanation that begins with x.
Lines(g, k, x) == g = [d \in 0..(MaxDepth - 1) |-> IF d = 0 THEN x ELSE Follow(k, g[d - 1])]
IsChain(g, k, x) == g[0] = x /\ \A d \in 1..(MaxDepth - 1) : g[d] = Follow(k, g[d - 1])

\* The recursion of formatSingleOrigin is well founded.
LEMMA LinesExist ==
    ASSUME NEW k, NEW x
    PROVE  \E g : Lines(g, k, x)
<1> DEFINE Good(n) == \E g : g = [d \in 0..n |-> IF d = 0 THEN x ELSE Follow(k, g[d - 1])]
<1> DEFINE Bad == {n \in Nat : ~Good(n)}
<1>1. Good(0)
  <2>1. \A d \in 0..0 : d = 0
    OBVIOUS
  <2> DEFINE g == [d \in 0..0 |-> x]
  <2>2. g = [d \in 0..0 |-> IF d = 0 THEN x ELSE Follow(k, g[d - 1])]
    BY <2>1
  <2> QED
    BY <2>2
<1>2. ASSUME NEW n \in Nat, Good(n) PROVE Good(n + 1)
  <2>1. PICK g : g = [d \in 0..n |-> IF d = 0 THEN x ELSE Follow(k, g[d - 1])]
    BY <1>2
  <2> DEFINE h == [d \in 0..(n + 1) |-> IF d = n + 1 THEN Follow(k, g[n]) ELSE g[d]]
  <2>2. ASSUME NEW d \in 0..(n + 1) PROVE h[d] = IF d = 0 THEN x ELSE Follow(k, h[d - 1])
    <3>1. CASE d = n + 1
      <4>1. d # 0 /\ d - 1 = n /\ n \in 0..(n + 1) /\ n # n + 1
        BY <3>1
      <4> QED
        BY <3>1, <4>1
    <3>2. CASE d # n + 1 /\ d = 0
      <4>1. 0 \in 0..n
        OBVIOUS
      <4>2. g[0] = x
        BY <2>1, <4>1
      <4> QED
        BY <3>2, <4>2
    <3>3. CASE d # n + 1 /\ d # 0
      <4>1. d \in 0..n /\ d - 1 \in 0..(n + 1) /\ d - 1 # n + 1
        BY <3>3
      <4>2. h[d] = g[d] /\ h[d - 1] = g[d - 1]
        BY <3>3, <4>1
      <4>3. g[d] = Follow(k, g[d - 1])
        BY <2>1, <3>3, <4>1
      <4> QED
        BY <3>3, <4>2, <4>3
    <3> QED
      BY <3>1, <3>2, <3>3
  <2>3. h = [d \in 0..(n + 1) |-> h[d]]
    OBVIOUS
  <2> HIDE DEF h
  <2>4. h = [d \in 0..(n + 1) |-> IF d = 0 THEN x ELSE Follow(k, h[d - 1])]
    BY <2>2, <2>3
  <2> QED
    BY <2>4
<1> HIDE DEF Good
<1>3. Bad = {}
  <2> SUFFICES ASSUME Bad # {} PROVE FALSE
    OBVIOUS
  <2>1. Bad \in SUBSET Nat
    OBVIOUS
  <2>2. PICK n \in Bad : \A j \in Bad : n <= j
    BY <2>1, LeastNatural
  <2>3. n # 0 /\ n - 1 \in Nat /\ ~(n <= n - 1)
    BY <1>1
  <2>4. Good(n - 1)
    BY <2>2, <2>3
  <2>5. Good((n - 1) + 1) /\ (n - 1) + 1 = n
    BY <1>2, <2>3, <2>4
  <2> QED
    BY <2>5
<1>4. Good(MaxDepth - 1)
  <2>1. MaxDepth - 1 \in Nat
    BY ProvenanceAssumption
  <2> QED
    BY <1>3, <2>1
<1> QED
  BY <1>4 DEF Good, Lines

\* The last line is the last of a chain.
LEMMA LastLine ==
    ASSUME NEW f, NEW k, NEW o
    PROVE  \E g : /\ IsChain(g, k, <<f, o>>)
                  /\ formatSingleOrigin(f, k, o) = g[MaxDepth - 1]
<1>1. MaxDepth - 1 \in Nat
  BY ProvenanceAssumption
<1>3. \E g : Lines(g, k, <<f, o>>)
  BY LinesExist
<1> DEFINE line[d \in 0..(MaxDepth - 1)] ==
             IF d = 0 THEN <<f, o>>
             ELSE LET p == line[d - 1][2]
                  IN  IF p \in CallOrigins THEN <<p.viaCallee, first[p.viaCallee][k]>> ELSE line[d - 1]
<1>2. formatSingleOrigin(f, k, o) = line[MaxDepth - 1]
  BY DEF formatSingleOrigin
<1>4. line = [d \in 0..(MaxDepth - 1) |-> IF d = 0 THEN <<f, o>> ELSE Follow(k, line[d - 1])]
  BY <1>3 DEF Follow, Lines
<1> HIDE DEF line
<1>5. 0 \in 0..(MaxDepth - 1) /\ \A d \in 1..(MaxDepth - 1) : d \in 0..(MaxDepth - 1) /\ d # 0
  BY <1>1
<1>6. line[0] = <<f, o>> /\ \A d \in 1..(MaxDepth - 1) : line[d] = Follow(k, line[d - 1])
  BY <1>4, <1>5
<1> QED
  BY <1>2, <1>6 DEF IsChain

\* The functions that require k.
Requirers(k) == {f \in Funcs : k \in requires[f]}

\* Fewer functions require a lock than an explanation has lines.
ChainsFit == \A k \in MutexKeys : IsFiniteSet(Requirers(k)) /\ Cardinality(Requirers(k)) < MaxDepth

\* A line of an explanation: a function that requires k and an origin of it, or none.
IsLine(k, x) ==
    /\ x[1] \in Requirers(k)
    /\ x[2] \in origins[x[1]][k] \/ (x[2] = NoOrigin /\ first[x[1]][k] = NoOrigin)

LEMMA FollowLine ==
    ASSUME OInv, NEW k \in MutexKeys, NEW x, IsLine(k, x)
    PROVE  /\ IsLine(k, Follow(k, x))
           /\ x[2] \in CallOrigins => /\ Follow(k, x)[1] = x[2].viaCallee /\ x[2].viaCallee \in Requirers(k)
                                      /\ Follow(k, x)[2] = first[x[2].viaCallee][k]
           /\ x[2] \notin CallOrigins => x[2] = AccessOrigin \/ Root(x[1], k)
<1>1. x[1] \in Funcs /\ k \in requires[x[1]]
  BY DEF IsLine, Requirers
<1>2. CASE x[2] \in CallOrigins
  <2>1. x[2] # NoOrigin /\ x[2] # AccessOrigin
    BY <1>2, ProvenanceAssumption DEF Origins
  <2>2. TrueOrigin(x[1], k, x[2])
    BY <1>1, <2>1 DEF OInv, FirstNoted, IsLine
  <2>3. x[2].viaCallee \in Requirers(k)
    BY <1>2, <2>1, <2>2 DEF TrueOrigin, Requirers, CallOrigins
  <2>4. Follow(k, x)[1] = x[2].viaCallee /\ Follow(k, x)[2] = first[x[2].viaCallee][k]
    BY <1>2 DEF Follow
  <2>5. first[x[2].viaCallee][k] # NoOrigin => first[x[2].viaCallee][k] \in origins[x[2].viaCallee][k]
    BY <2>3 DEF OInv, FirstNoted, Requirers
  <2> QED
    BY <1>2, <2>3, <2>4, <2>5 DEF IsLine
<1>3. CASE x[2] \notin CallOrigins
  <2>1. Follow(k, x) = x
    BY <1>3 DEF Follow
  <2>2. CASE x[2] \in origins[x[1]][k]
    <3>1. x[2] \in Origins
      BY <1>1, <2>2 DEF OInv, OTypeOK
    <3> QED
      BY <1>3, <2>1, <3>1 DEF Origins
  <2>3. CASE x[2] = NoOrigin /\ first[x[1]][k] = NoOrigin
    <3>1. Root(x[1], k)
      BY <1>1, <2>3 DEF OInv, FirstNoted, Root
    <3> QED
      BY <1>3, <2>1, <3>1
  <2> QED
    BY <2>2, <2>3 DEF IsLine
<1> QED
  BY <1>2, <1>3

\* Along a chain every line is one; a chain that goes on to its end went on before.
LEMMA ChainLines ==
    ASSUME OInv, NEW k \in MutexKeys, NEW m \in Nat, NEW g, IsLine(k, g[0]),
           \A d \in 1..m : g[d] = Follow(k, g[d - 1])
    PROVE  \A d \in 0..m : IsLine(k, g[d]) /\ (g[m][2] \in CallOrigins => g[d][2] \in CallOrigins)
<1>1. \A d \in 0..m : IsLine(k, g[d])
  <2> DEFINE Bad == {d \in 0..m : ~IsLine(k, g[d])}
  <2> SUFFICES ASSUME Bad # {} PROVE FALSE
    OBVIOUS
  <2>1. Bad \in SUBSET Nat
    OBVIOUS
  <2>2. PICK d \in Bad : \A j \in Bad : d <= j
    BY <2>1, LeastNatural
  <2>3. d \in 1..m /\ d - 1 \in 0..m /\ ~(d <= d - 1)
    <3>1. d # 0
      OBVIOUS
    <3> QED
      BY <3>1
  <2>4. IsLine(k, g[d - 1])
    BY <2>2, <2>3
  <2>5. IsLine(k, g[d])
    BY <2>3, <2>4, FollowLine
  <2> QED
    BY <2>5
<1>2. ASSUME NEW d \in 0..m, g[d][2] \notin CallOrigins PROVE g[m][2] \notin CallOrigins
  <2> DEFINE Bad == {j \in d..m : g[j][2] \in CallOrigins}
  <2> SUFFICES ASSUME Bad # {} PROVE FALSE
    OBVIOUS
  <2>1. Bad \in SUBSET Nat
    OBVIOUS
  <2>2. PICK j \in Bad : \A i \in Bad : j <= i
    BY <2>1, LeastNatural
  <2>3. j # d
    BY <1>2
  <2>4. j \in 1..m /\ j - 1 \in d..m /\ ~(j <= j - 1)
    BY <2>3
  <2>5. g[j - 1][2] \notin CallOrigins
    BY <2>2, <2>4
  <2>6. g[j] = g[j - 1]
    BY <2>4, <2>5 DEF Follow
  <2> QED
    BY <2>5, <2>6
<1> QED
  BY <1>1, <1>2

\* A chain comes to no function twice, so it ends before it has as many lines as there
\* are functions to come to.
LEMMA ChainEnds ==
    ASSUME OInv, pc # "derive", ChainsFit, NEW k \in MutexKeys, NEW g, IsLine(k, g[0]),
           \A d \in 1..(MaxDepth - 1) : g[d] = Follow(k, g[d - 1])
    PROVE  g[MaxDepth - 1][2] = AccessOrigin \/ Root(g[MaxDepth - 1][1], k)
<1>1. PICK m \in Nat : m = MaxDepth - 1
  BY ProvenanceAssumption
<1>2. \A d \in 0..m : IsLine(k, g[d]) /\ (g[m][2] \in CallOrigins => g[d][2] \in CallOrigins)
  BY <1>1, ChainLines
<1>3. m \in 0..m
  OBVIOUS
<1>4. g[m][2] \notin CallOrigins
  <2> SUFFICES ASSUME g[m][2] \in CallOrigins PROVE FALSE
    OBVIOUS
  <2> DEFINE v == [d \in 0..m |-> g[d][2].viaCallee]
  <2>1. ASSUME NEW d \in 0..m
        PROVE  v[d] \in Requirers(k) /\ g[d][2] \in CallOrigins /\ v[d] = g[d][2].viaCallee
    BY <1>2, FollowLine
  <2>2. ASSUME NEW d \in 0..m, d < m
        PROVE  /\ d + 1 \in 0..m /\ first[v[d]][k] \in CallOrigins
               /\ first[v[d]][k].viaCallee = v[d + 1]
    <3>1. d + 1 \in 1..m /\ d + 1 \in 0..m /\ (d + 1) - 1 = d
      BY <2>2
    <3>2. g[d + 1] = Follow(k, g[d])
      BY <1>1, <3>1
    <3>3. g[d + 1][2] = first[v[d]][k]
      BY <1>2, <2>1, <3>2, FollowLine
    <3> QED
      BY <2>1, <3>1, <3>3
  <2> HIDE DEF v
  <2>3. ASSUME NEW a \in 0..m, NEW b \in 0..m, a < b, v[a] = v[b] PROVE FALSE
    <3> DEFINE S == {v[d] : d \in a..(b - 1)}
    <3>1. \A d \in a..(b - 1) : d \in 0..m /\ d < m
      BY <2>3
    <3>2. S \in SUBSET {f \in Funcs : k \in requires[f]}
      BY <2>1, <3>1 DEF Requirers
    <3>3. S # {}
      <4>1. a \in a..(b - 1)
        BY <2>3
      <4> QED
        BY <4>1
    <3>4. PICK f \in S : Outside(f, k, S)
      BY <3>2, <3>3 DEF OInv, Grounded
    <3>5. PICK d \in a..(b - 1) : f = v[d]
      OBVIOUS
    <3>6. first[f][k] \in CallOrigins /\ first[f][k].viaCallee = v[d + 1]
      BY <2>2, <3>1, <3>5
    <3>7. v[d + 1] \notin S
      <4>1. first[f][k] # NoOrigin /\ first[f][k] # AccessOrigin
        BY <3>6, ProvenanceAssumption DEF Origins
      <4> QED
        BY <3>4, <3>6, <4>1 DEF Outside, Root
    <3>8. d + 1 \in a..(b - 1) \/ d + 1 = b
      OBVIOUS
    <3>9. a \in a..(b - 1)
      BY <2>3
    <3> QED
      BY <2>3, <3>7, <3>8, <3>9
  <2>4. v \in Injection(0..m, Requirers(k))
    <3>1. v \in [0..m -> Requirers(k)]
      BY <2>1 DEF v
    <3>2. ASSUME NEW a \in 0..m, NEW b \in 0..m, v[a] = v[b] PROVE a = b
      <4>1. a < b \/ b < a \/ a = b
        OBVIOUS
      <4> QED
        BY <2>3, <3>2, <4>1
    <3> QED
      BY <3>1, <3>2 DEF Injection, IsInjective
  <2>5. IsFiniteSet(Requirers(k)) /\ Cardinality(Requirers(k)) < MaxDepth
    BY DEF ChainsFit
  <2>6. Cardinality(0..m) <= Cardinality(Requirers(k))
    BY <2>4, <2>5, FS_Injection
  <2>7. Cardinality(0..m) = m + 1 /\ Cardinality(Requirers(k)) \in Nat
    BY <2>5, FS_Interval, FS_CardinalityType
  <2> QED
    BY <1>1, <2>5, <2>6, <2>7, ProvenanceAssumption
<1> QED
  BY <1>1, <1>2, <1>3, <1>4, FollowLine

\* The explanation of a diagnostic gets to the access or the imported function that
\* causes it: formatSingleOrigin's limit cuts no chain short while fewer functions than
\* maxDepth require the lock.
THEOREM ExplanationsComplete == OSpec => [](ChainsFit => ReasonsComplete)
<1>1. OInv => (ChainsFit => ReasonsComplete)
  <2> SUFFICES ASSUME OInv, ChainsFit, pc = "done", NEW f \in Funcs, NEW k \in requires[f], NEW o \in origins[f][k]
               PROVE  formatSingleOrigin(f, k, o)[2] = AccessOrigin \/ Root(formatSingleOrigin(f, k, o)[1], k)
    BY DEF ReasonsComplete
  <2>1. k \in MutexKeys
    BY DEF OInv, PInv, TypeOK, LockSets
  <2>2. PICK g : IsChain(g, k, <<f, o>>) /\ formatSingleOrigin(f, k, o) = g[MaxDepth - 1]
    BY LastLine
  <2>3. IsLine(k, g[0])
    BY <2>2 DEF IsLine, Requirers, IsChain
  <2> QED
    BY <2>1, <2>2, <2>3, ChainEnds DEF IsChain
<1> QED
  BY <1>1, OInvariant, PTL
=============================================================================
