----------------------- MODULE Pow5AnchorCache_proof -----------------------
(***************************************************************************)
(* Proofs about Pow5AnchorCache for any number of threads and any sizes.   *)
(* IInv is inductive; the absence of data races, the frozen table and the  *)
(* implementation of Pow5Service follow from it.                           *)
(***************************************************************************)
EXTENDS Pow5AnchorCache, TLAPS

---------------------------------------------------------------------------
\* Facts about the indices of the table.

\* Integer division, as ryu_bigint_from_pow5_stride uses it.
LEMMA DivMod ==
  ASSUME NEW p \in Nat, NEW s \in Nat \ {0}
  PROVE  /\ p \div s \in Nat
         /\ p % s \in 0 .. s - 1
         /\ p = ((p \div s) * s) + (p % s)
OBVIOUS

\* Multiples of the stride are ordered as their factors are.
LEMMA MulMonotone ==
  ASSUME NEW a \in Int, NEW b \in Int, NEW s \in Nat, a <= b
  PROVE  a * s <= b * s
OBVIOUS

\* The next anchor is one stride further on.
LEMMA MulStep ==
  ASSUME NEW a \in Int, NEW s \in Int
  PROVE  (a + 1) * s = a * s + s /\ (a - 1) * s = a * s - s
OBVIOUS

\* The index of the anchor to copy grows with the exponent.
LEMMA DivMonotone ==
  ASSUME NEW p \in Nat, NEW q \in Nat, NEW s \in Nat \ {0}, p <= q
  PROVE  p \div s <= q \div s
<1> DEFINE a == p \div s
           b == q \div s
<1>1. a \in Nat /\ b \in Nat /\ a * s <= p /\ q < b * s + s
  BY DivMod
<1> HIDE DEF a, b
<1>2. SUFFICES ASSUME a > b PROVE FALSE
  BY <1>1 DEF a, b
<1>3. (b + 1) * s <= a * s
  BY <1>1, <1>2, MulMonotone
<1>4. (b + 1) * s = b * s + s
  BY <1>1, MulStep
<1>. QED  BY <1>1, <1>3, <1>4

\* The table has at least one anchor.
LEMMA CountType == AnchorCount \in Nat \ {0}
BY SizesAssumption, DivMod DEF AnchorCount

\* Every anchor is at most the top one.
LEMMA TopIsTop ==
  /\ TopAnchor \in Nat
  /\ \A k \in Anchors : k * Stride \in Nat /\ k * Stride <= TopAnchor
<1>1. AnchorCount - 1 \in Nat /\ Stride \in Nat
  BY CountType, SizesAssumption
<1>2. (AnchorCount - 1) * Stride \in Nat
  BY <1>1
<1>3. ASSUME NEW k \in Anchors
      PROVE  k * Stride \in Nat /\ k * Stride <= (AnchorCount - 1) * Stride
  <2>1. k \in Nat /\ k <= AnchorCount - 1
    BY <1>1 DEF Anchors
  <2>. QED  BY <1>1, <2>1, MulMonotone
<1>. QED  BY <1>2, <1>3 DEF TopAnchor

\* The anchor ryu_bigint_from_pow5_stride copies exists.
LEMMA IndexInTable ==
  ASSUME NEW p \in Nat, p <= MaxExp
  PROVE  p \div Stride \in Anchors
<1>1. p \div Stride <= MaxExp \div Stride
  BY SizesAssumption, DivMonotone
<1>2. p \div Stride \in Nat /\ MaxExp \div Stride \in Nat
  BY SizesAssumption, DivMod
<1>. QED  BY <1>1, <1>2 DEF Anchors, AnchorCount

---------------------------------------------------------------------------
\* The capacity belongs to the build, and so the answers are the same for ever.
LEMMA ResultFixed ==
  ASSUME UNCHANGED fits
  PROVE  Result' = Result
BY DEF Result

\* The capacity is a number.
LEMMA FitsType ==
  ASSUME TypeOK
  PROVE  fits \in Nat
BY SizesAssumption DEF TypeOK

\* The invariant holds at the start ...
LEMMA InitInv == Init => IInv
BY CountType, SizesAssumption
   DEF Init, IInv, TypeOK, BuilderInv, TableInv, CallerInv, Where, Building,
       Anchors, Blank, Failed

\* The steps of a caller that do not look at the table.
LEMMA CallerSteps ==
  ASSUME IInv, NEW t \in Threads, Call(t) \/ Check(t) \/ Return(t), UNCHANGED fits
  PROVE  IInv'
<1> USE DEF IInv, Goto, Finish, memory, locals
<1>1. TypeOK'
  BY ExponentsAssumption DEF Call, Check, Return, TypeOK, Where, Failed
<1>2. BuilderInv'
  BY DEF Call, Check, Return, TypeOK, BuilderInv, Building, Filled
<1>3. TableInv'
  BY DEF Call, Check, Return, TableInv, Filled
<1>4. CallerInv'
  <2>1. ASSUME Check(t), exp[t] > MaxExp
        PROVE  Result[exp[t]] = Failed
    BY <2>1 DEF Check, CallerInv, Result
  <2>. QED
    BY <2>1, ResultFixed DEF Call, Check, Return, TypeOK, CallerInv
<1>. QED  BY <1>1, <1>2, <1>3, <1>4

\* The steps of a thread that only look at the state.
LEMMA LookSteps ==
  ASSUME IInv, NEW t \in Threads, Test(t) \/ CasLose(t) \/ Spin(t) \/ Recheck(t), UNCHANGED fits
  PROVE  IInv'
<1> USE DEF IInv, Goto, Acquire, locals
<1>1. TypeOK'
  BY DEF Test, CasLose, Spin, Recheck, TypeOK, Where
<1>2. BuilderInv'
  BY DEF Test, CasLose, Spin, Recheck, TypeOK, BuilderInv, Building, Filled
<1>3. TableInv'
  BY DEF Test, CasLose, Spin, Recheck, TableInv, Filled
<1>4. CallerInv'
  <2>1. /\ UNCHANGED <<state, exp, out>>
        /\ \A u \in Threads \ {t} : pc'[u] = pc[u] /\ known'[u] = known[u]
        /\ pc[t] \in {"test", "cas", "spin", "recheck"}
        /\ pc'[t] \in {"read", "cas", "spin", "recheck", "test"}
    BY DEF Test, CasLose, Spin, Recheck, TypeOK
  <2>2. pc'[t] = "read" => state = 2 /\ known'[t] = Anchors
    BY DEF Test, CasLose, Spin, Recheck, TypeOK, TableInv
  <2>. QED  BY <2>1, <2>2, ResultFixed DEF CallerInv
<1>. QED  BY <1>1, <1>2, <1>3, <1>4

\* Winning the compare-and-swap: nobody else is building, and all anchors are known.
LEMMA CasWinStep ==
  ASSUME IInv, NEW t \in Threads, CasWin(t), UNCHANGED fits
  PROVE  IInv'
<1> USE DEF IInv, CasWin, Goto, Acquire, locals
<1>1. TypeOK'
  BY DEF TypeOK, Where
<1>2. BuilderInv'
  BY DEF TypeOK, BuilderInv, TableInv, Building, Filled
<1>3. TableInv'
  BY DEF TableInv
<1>4. CallerInv'
  BY ResultFixed DEF TypeOK, CallerInv
<1>. QED  BY <1>1, <1>2, <1>3, <1>4

\* The builder's steps.  It is the only one at state 1, so nobody else is affected.
LEMMA BuildBaseStep ==
  ASSUME IInv, NEW t \in Threads, BuildBase(t), UNCHANGED fits
  PROVE  IInv'
<1> USE CountType, SizesAssumption DEF IInv, BuildBase, WriteAnchor, LoopAt, Goto
<1>0. state = 1 /\ 0 \in Anchors
  BY DEF BuilderInv, Building, Anchors
<1>1. TypeOK'
  BY <1>0 DEF TypeOK, Where
<1>2. BuilderInv'
  <2>1. Filled(1)'
    BY <1>0 DEF TypeOK, Filled, Anchors
  <2>. QED  BY <1>0, <2>1 DEF TypeOK, BuilderInv, Building
<1>3. TableInv'
  BY <1>0 DEF TableInv
<1>4. CallerInv'
  BY <1>0, ResultFixed DEF TypeOK, CallerInv
<1>. QED  BY <1>1, <1>2, <1>3, <1>4

\* Copying the anchor before leaves the whole stride to multiply by.
LEMMA BuildCopyStep ==
  ASSUME IInv, NEW t \in Threads, BuildCopy(t), UNCHANGED fits
  PROVE  IInv'
<1> USE CountType, SizesAssumption DEF IInv, BuildCopy, WriteAnchor, Goto
<1> DEFINE k == i[t]
<1>0. /\ state = 1 /\ k \in 1 .. AnchorCount - 1 /\ Filled(k)
      /\ k \in Anchors /\ k - 1 \in Anchors
  BY DEF BuilderInv, Building, Anchors
<1>1. TypeOK'
  BY <1>0 DEF TypeOK, Where
<1>2. BuilderInv'
  <2>1. Filled(k)'
    BY <1>0 DEF TypeOK, Filled, Anchors
  <2>2. anchor'[k] = k * Stride - Stride
    BY <1>0, MulStep DEF TypeOK, Filled
  <2>. QED  BY <1>0, <2>1, <2>2 DEF TypeOK, BuilderInv, Building
<1>3. TableInv'
  BY <1>0 DEF TableInv
<1>4. CallerInv'
  BY <1>0, ResultFixed DEF TypeOK, CallerInv
<1>. QED  BY <1>1, <1>2, <1>3, <1>4

\* A product keeps the anchor short of its power by what is left, or does not fit.
LEMMA BuildMulStep ==
  ASSUME IInv, NEW t \in Threads, BuildMul(t), UNCHANGED fits
  PROVE  IInv'
<1> USE CountType, SizesAssumption DEF IInv, WriteAnchor, LoopAt, Goto
<1> DEFINE k == i[t]
           chunk == IF left[t] > Chunk THEN Chunk ELSE left[t]
           product == anchor[k] + chunk
<1>0. /\ state = 1 /\ k \in 1 .. AnchorCount - 1 /\ Filled(k) /\ k \in Anchors
      /\ left[t] \in 1 .. Stride /\ anchor[k] = k * Stride - left[t]
      /\ pc[t] = "mul"
  BY DEF BuildMul, BuilderInv, Building, Anchors
<1>a. chunk \in 1 .. left[t] /\ product \in Int /\ product <= k * Stride
  BY <1>0
<1>b. k * Stride \in Nat /\ k * Stride <= TopAnchor /\ TopAnchor \in Nat
  BY <1>0, TopIsTop
<1>c. state' = state /\ known'[t] = Anchors /\ fits \in Nat
  <2>1. known[t] = Anchors
    BY <1>0 DEF BuilderInv, Building
  <2>2. /\ state' = state
        /\ known' = [u \in Threads |->
                       IF u = t THEN known[u] \cup {k} ELSE known[u] \ {k}]
    BY DEF BuildMul
  <2>. QED  BY <1>0, <2>1, <2>2, FitsType
<1>1. TypeOK'
  BY <1>0, <1>a DEF BuildMul, TypeOK, Where, Blank
<1>2. BuilderInv'
  <2>0. ASSUME NEW j \in Anchors, j < k PROVE anchor'[j] = j * Stride
    BY <1>0, <2>0 DEF BuildMul, TypeOK, Filled
  <2>1. CASE product > fits
    <3>1. TopAnchor > fits
      BY <2>1, <1>0, <1>a, <1>b, <1>c
    <3>2. pc' = [pc EXCEPT ![t] = "reset"] /\ UNCHANGED <<i, left>>
      BY <1>0, <1>a, <1>c, <2>1 DEF BuildMul, TypeOK
    <3>. QED  BY <1>0, <1>c, <3>1, <3>2 DEF TypeOK, BuilderInv, Building
  <2>2. CASE product <= fits /\ left[t] > chunk
    <3>1. /\ UNCHANGED <<pc, i>>
          /\ left' = [left EXCEPT ![t] = @ - chunk]
          /\ anchor'[k] = product
      BY <1>0, <1>a, <1>c, <2>2 DEF BuildMul, TypeOK
    <3>2. Filled(i[t])'
      BY <1>0, <2>0, <3>1 DEF Filled
    <3>3. left'[t] \in 1 .. Stride /\ anchor'[k] = k * Stride - left'[t]
      BY <1>0, <1>a, <1>b, <2>2, <3>1 DEF TypeOK
    <3>. QED  BY <1>0, <1>c, <3>1, <3>2, <3>3 DEF TypeOK, BuilderInv, Building
  <2>3. CASE product <= fits /\ left[t] = chunk
    <3>1. anchor'[k] = k * Stride /\ k * Stride <= fits
      BY <1>0, <1>a, <1>b, <2>3 DEF BuildMul, TypeOK
    <3>2. /\ i' = [i EXCEPT ![t] = k + 1]
          /\ pc' = [pc EXCEPT ![t] = IF k + 1 < AnchorCount THEN "copy" ELSE "publish"]
      BY <1>0, <1>a, <1>c, <2>3 DEF BuildMul, TypeOK
    <3>3. \A j \in Anchors : j < k + 1 => anchor'[j] = j * Stride
      BY <1>0, <2>0, <3>1 DEF Anchors
    <3>4. k + 1 < AnchorCount => Filled(i[t])'
      BY <1>0, <3>1, <3>2, <3>3 DEF TypeOK, Filled
    <3>5. k + 1 >= AnchorCount => Filled(AnchorCount)'
      BY <1>0, <3>1, <3>3 DEF Filled
    <3>6. \A u \in Threads \ {t} : pc'[u] \notin Building
      BY <1>0, <3>2 DEF TypeOK, BuilderInv, Building
    <3>7. i'[t] = k + 1 /\ pc'[t] = IF k + 1 < AnchorCount THEN "copy" ELSE "publish"
      BY <3>2 DEF TypeOK
    <3>8. i'[t] \in 1 .. AnchorCount - 1 \/ k + 1 >= AnchorCount
      BY <1>0, <3>7
    <3>. QED  BY <1>0, <1>c, <3>4, <3>5, <3>6, <3>7, <3>8 DEF BuilderInv, Building
  <2>. QED  BY <1>a, <1>0, <1>c, <2>1, <2>2, <2>3
<1>3. TableInv'
  BY <1>0 DEF BuildMul, TableInv
<1>4. CallerInv'
  BY <1>0, ResultFixed DEF BuildMul, TypeOK, CallerInv
<1>. QED  BY <1>1, <1>2, <1>3, <1>4

\* The builder gives the state back: 2 with a full table, or 0.
LEMMA ReleaseSteps ==
  ASSUME IInv, NEW t \in Threads, Publish(t) \/ Reset(t), UNCHANGED fits
  PROVE  IInv'
<1> USE DEF IInv, Publish, Reset, StoreRelease, Goto, Finish, locals
<1>0. state = 1 /\ known[t] = Anchors
  BY DEF BuilderInv, Building
<1>1. TypeOK'
  BY DEF TypeOK, Where, Failed
<1>2. BuilderInv'
  BY DEF TypeOK, BuilderInv, Building
<1>3. TableInv'
  BY <1>0 DEF TableInv, BuilderInv, Filled
<1>4. CallerInv'
  <2>1. \A u \in Threads : pc[u] # "read"
    BY <1>0 DEF CallerInv
  <2>2. exp[t] \in Exponents /\ exp[t] <= MaxExp
    BY DEF CallerInv
  <2>3. CASE Publish(t)
    BY <1>0, <2>1, <2>2, <2>3, ResultFixed DEF TypeOK, CallerInv
  <2>4. CASE Reset(t)
    <3>1. Result[exp[t]] = Failed
      BY <2>2, <2>4 DEF BuilderInv, Result
    <3>. QED  BY <2>1, <2>4, <3>1, ResultFixed DEF TypeOK, CallerInv
  <2>. QED  BY <2>3, <2>4
<1>. QED  BY <1>1, <1>2, <1>3, <1>4

\* A caller copies an anchor only from a full table.
LEMMA ReadStep ==
  ASSUME IInv, NEW t \in Threads, Read(t), UNCHANGED fits
  PROVE  IInv'
<1> USE DEF IInv, Read, Goto, memory
<1> DEFINE k == exp[t] \div Stride
<1>0. /\ state = 2 /\ Filled(AnchorCount) /\ k \in Anchors
      /\ exp[t] \in Nat /\ exp[t] <= MaxExp
  BY IndexInTable DEF TypeOK, CallerInv, TableInv
<1>a. anchor[k] = k * Stride /\ TopAnchor <= fits
  BY <1>0, CountType DEF Filled, Anchors, TopAnchor
<1>1. TypeOK'
  BY <1>0 DEF TypeOK, Where
<1>2. BuilderInv'
  BY DEF TypeOK, BuilderInv, Building, Filled
<1>3. TableInv'
  BY DEF TableInv, Filled
<1>4. CallerInv'
  BY <1>0, <1>a, ResultFixed DEF TypeOK, CallerInv
<1>. QED  BY <1>1, <1>2, <1>3, <1>4

\* Multiplying by the rest of the exponent gives the answer of a call that ran alone.
LEMMA ScaleStep ==
  ASSUME IInv, NEW t \in Threads, Scale(t), UNCHANGED fits
  PROVE  IInv'
<1> USE DEF IInv, Scale, Goto, Finish, memory
<1> DEFINE p == exp[t]
           base == (p \div Stride) * Stride
           rem == p % Stride
<1>0. /\ p \in Exponents /\ p \in Nat /\ p <= MaxExp
      /\ out[t] = base /\ TopAnchor <= fits
  BY DEF TypeOK, CallerInv
<1>a. base \in Nat /\ rem \in Nat /\ p = base + rem /\ base <= TopAnchor
  <2>0. /\ p \div Stride \in Nat
        /\ p % Stride \in 0 .. Stride - 1
        /\ p = ((p \div Stride) * Stride) + (p % Stride)
    BY <1>0, DivMod, SizesAssumption
  <2>1. rem \in Nat /\ p = base + rem
    BY <2>0, SizesAssumption
  <2>2. p \div Stride \in Anchors
    BY <1>0, IndexInTable
  <2>. QED  BY <2>1, <2>2, TopIsTop
<1>b. fits \in Nat /\ TopAnchor \in Nat /\ MaxExp \in Nat
  BY SizesAssumption, TopIsTop, FitsType
<1> HIDE DEF p, base, rem
<1>c. (IF rem # 0 /\ base + rem > fits THEN Failed ELSE base + rem) = Result[p]
  BY <1>0, <1>a, <1>b DEF Result
<1>1. TypeOK'
  BY <1>0, <1>a DEF p, base, rem, TypeOK, Where, Failed
<1>2. BuilderInv'
  BY DEF TypeOK, BuilderInv, Building, Filled
<1>3. TableInv'
  BY DEF TableInv, Filled
<1>4. CallerInv'
  <2>1. out' = [out EXCEPT ![t] = Result[p]]
    BY <1>0, <1>c DEF base, rem, p
  <2>. QED  BY <2>1, ResultFixed DEF p, TypeOK, CallerInv
<1>. QED  BY <1>1, <1>2, <1>3, <1>4

\* ... and every action of every thread keeps it.
LEMMA InvStep == IInv /\ [Next]_vars => IInv'
<1> SUFFICES ASSUME IInv, [Next]_vars PROVE IInv'
  OBVIOUS
<1>1. ASSUME NEW t \in Threads, Call(t) \/ Step(t) PROVE IInv'
  <2>1. UNCHANGED fits
    BY <1>1 DEF Call, Step
  <2>. QED
    BY <1>1, <2>1, CallerSteps, LookSteps, CasWinStep, BuildBaseStep, BuildCopyStep,
       BuildMulStep, ReleaseSteps, ReadStep, ScaleStep
       DEF Step, Synchronize, Build
<1>2. ASSUME UNCHANGED vars PROVE IInv'
  BY <1>2, ResultFixed DEF vars, IInv, TypeOK, BuilderInv, TableInv, CallerInv, Filled
<1>. QED  BY <1>1, <1>2 DEF Next

---------------------------------------------------------------------------
\* The inductive invariant, and with it type correctness, in every reachable state.
THEOREM Invariance == Spec => []IInv
<1>1. Init => IInv
  BY InitInv
<1>2. IInv /\ [Next]_vars => IInv'
  BY InvStep
<1>. QED  BY <1>1, <1>2, PTL DEF Spec

(***************************************************************************)
(* No two threads race on an anchor of the table they share without a      *)
(* lock, however many threads format numbers at once and however often     *)
(* building the table fails.                                               *)
(***************************************************************************)
THEOREM RaceFree == Spec => []NoDataRace
<1>1. IInv => NoDataRace
  <2> SUFFICES ASSUME IInv, NEW t \in Threads
               PROVE  /\ Writes(t) \cup Reads(t) \subseteq known[t]
                      /\ \A u \in Threads \ {t} : Writes(t) \cap (Writes(u) \cup Reads(u)) = {}
    BY DEF NoDataRace
  <2>1. CASE pc[t] \in {"base", "copy", "mul"}
    <3>1. state = 1 /\ known[t] = Anchors
      BY <2>1 DEF IInv, BuilderInv, Building
    <3>2. ASSUME NEW u \in Threads \ {t} PROVE Writes(u) = {} /\ Reads(u) = {}
      BY <2>1, <3>1 DEF IInv, BuilderInv, CallerInv, Building, Writes, Reads
    <3>3. Writes(t) \cup Reads(t) \subseteq Anchors
      BY <2>1, CountType DEF IInv, BuilderInv, Writes, Reads, Anchors
    <3>. QED  BY <3>1, <3>2, <3>3
  <2>2. CASE pc[t] = "read"
    <3>1. exp[t] \div Stride \in Anchors
      BY <2>2, IndexInTable DEF IInv, TypeOK, CallerInv
    <3>. QED  BY <2>2, <3>1 DEF IInv, CallerInv, Writes, Reads
  <2>3. CASE pc[t] \notin {"base", "copy", "mul", "read"}
    BY <2>3 DEF Writes, Reads
  <2>. QED  BY <2>1, <2>2, <2>3
<1>. QED  BY <1>1, Invariance, PTL

(***************************************************************************)
(* A published table is never written again, so readers need no lock.      *)
(***************************************************************************)
THEOREM Frozen == Spec => PublishedIsFrozen
<1>1. IInv /\ [Next]_vars => [state = 2 => UNCHANGED <<state, anchor>>]_vars
  <2> SUFFICES ASSUME IInv, state = 2, Next PROVE UNCHANGED <<state, anchor>>
    OBVIOUS
  <2>1. PICK t \in Threads : Call(t) \/ Step(t)
    BY DEF Next
  <2>2. pc[t] \notin Building
    BY DEF IInv, BuilderInv
  <2>3. ~Build(t) /\ ~CasWin(t)
    BY <2>2 DEF Build, BuildBase, BuildCopy, BuildMul, Publish, Reset, Building, CasWin
  <2>. QED
    BY <2>1, <2>3 DEF Step, Synchronize, Call, Check, Test, CasLose, Spin, Recheck,
       Read, Scale, Return, memory
<1>. QED  BY <1>1, Invariance, PTL DEF Spec, PublishedIsFrozen

(***************************************************************************)
(* The table implements Pow5Service: each call answers what it would have  *)
(* answered had it run alone.                                              *)
(***************************************************************************)
THEOREM Implements == Spec => ActsAlone
<1> DEFINE call == [t \in Threads |->
                      IF pc[t] = "idle" THEN <<"idle">>
                      ELSE IF pc[t] = "done" THEN <<"done", exp[t], out[t]>>
                      ELSE <<"busy", exp[t]>>]
<1>1. Init => Service!Init
  BY DEF Init, Service!Init
<1>2. IInv /\ IInv' /\ [Next]_vars => [Service!Next]_<<Result, call>>
  <2> SUFFICES ASSUME IInv, IInv', [Next]_vars PROVE [Service!Next]_<<Result, call>>
    OBVIOUS
  <2>0. UNCHANGED fits /\ UNCHANGED Result
    BY ResultFixed DEF vars, Next, Call, Step
  <2>1. CASE UNCHANGED vars
    BY <2>0, <2>1 DEF vars
  <2>2. ASSUME NEW t \in Threads, Call(t) PROVE Service!Next
    <3>1. PICK p \in Exponents : exp' = [exp EXCEPT ![t] = p]
      BY <2>2 DEF Call
    <3>2. call[t] = <<"idle">> /\ call' = [call EXCEPT ![t] = <<"busy", p>>]
      BY <2>2, <3>1 DEF Call, Goto, IInv, TypeOK
    <3>. QED  BY <2>0, <3>1, <3>2 DEF Service!Next, Service!Begin
  <2>3. ASSUME NEW t \in Threads, Return(t) PROVE Service!Next
    <3>1. exp[t] \in Exponents /\ out[t] = Result[exp[t]]
      BY <2>3 DEF Return, IInv, CallerInv
    <3>2. /\ call[t] = <<"done", exp[t], out[t]>>
          /\ call' = [call EXCEPT ![t] = <<"idle">>]
      BY <2>3 DEF Return, Goto, IInv, TypeOK
    <3>. QED  BY <2>0, <3>1, <3>2 DEF Service!Next, Service!Return
  <2>4. ASSUME NEW t \in Threads, Step(t), ~Return(t) PROVE Service!Next \/ UNCHANGED call
    <3>1. /\ pc[t] \in Where \ {"idle", "done"} /\ pc'[t] # "idle"
          /\ UNCHANGED exp
          /\ pc' = [pc EXCEPT ![t] = pc'[t]]
          /\ out' = [out EXCEPT ![t] = out'[t]]
      BY <2>4 DEF Step, Check, Synchronize, Test, CasWin, CasLose, Spin, Recheck,
         Build, BuildBase, BuildCopy, BuildMul, LoopAt, Publish, Reset, Read, Scale,
         Goto, Finish, locals, IInv, TypeOK, Where
    <3>2. call[t] = <<"busy", exp[t]>>
      BY <3>1
    <3>3. CASE pc'[t] = "done"
      <4>1. exp[t] \in Exponents /\ out'[t] = Result[exp[t]]
        BY <2>0, <3>1, <3>3 DEF IInv, CallerInv
      <4>2. call' = [call EXCEPT ![t] = <<"done", exp[t], Result[exp[t]]>>]
        BY <3>1, <3>3, <4>1 DEF IInv, TypeOK
      <4>. QED  BY <2>0, <3>2, <4>1, <4>2 DEF Service!Next, Service!Answer
    <3>4. CASE pc'[t] # "done"
      BY <3>1, <3>4 DEF IInv, TypeOK
    <3>. QED  BY <3>3, <3>4
  <2>. QED  BY <2>0, <2>1, <2>2, <2>3, <2>4 DEF Next
<1>. QED  BY <1>1, <1>2, Invariance, PTL DEF Spec, ActsAlone, Service!Spec
=============================================================================
