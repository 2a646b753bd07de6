-------------------------- MODULE Pow5AnchorCache --------------------------
(***************************************************************************)
(* The anchor table of powers of five that every formatting thread shares  *)
(* (src/src/ryu64_bigint.c, RYU_ENABLE_POW5_STRIDE_CACHE): anchor i holds  *)
(* 5^(i*Stride).  The first thread to need it builds it in place, without  *)
(* a lock: g_pow5_anchor_state goes 0 -> 1 by compare-and-swap, the winner *)
(* fills the table and stores 2 (ready) or, when a product does not fit,   *)
(* 0 (try again); the losers spin while the state is 1.                    *)
(*                                                                         *)
(* The table is plain memory, so what matters is not only what it holds    *)
(* but who may look: C11 makes a read race with every write it is not      *)
(* ordered after.  known[t] is the set of anchors whose last write happens *)
(* before whatever thread t does next.  A release store puts known[t] in   *)
(* relKnown, an acquire load adds relKnown to known[t].                    *)
(*                                                                         *)
(* A number 5^e is represented by e, anything else by Blank.  5^e fits a   *)
(* ryu_bigint exactly when e <= fits.                                      *)
(***************************************************************************)
EXTENDS Integers

CONSTANTS
  Threads,      \* the threads that format numbers
  Exponents,    \* the exponents they ask for
  MaxExp,       \* RYU_POW5_MAX_EXP
  Stride,       \* RYU_POW5_STRIDE
  Chunk,        \* the largest power of five ryu_bigint_mul_pow5 multiplies by at once
  Capacities    \* what RYU_BIGINT_MAX_LIMBS may be built as, see fits

ASSUME ExponentsAssumption == Exponents \subseteq Nat
ASSUME SizesAssumption == /\ MaxExp \in Nat
                          /\ Stride \in Nat \ {0}
                          /\ Chunk \in Nat \ {0}
                          /\ Capacities \subseteq Nat

VARIABLES
  fits,         \* of this build: the largest e such that 5^e has RYU_BIGINT_MAX_LIMBS limbs
  state,        \* g_pow5_anchor_state: 0 uninitialized, 1 initializing, 2 ready
  anchor,       \* g_pow5_anchor
  known,        \* known[t]: the anchors whose last write happens before t's next step
  relKnown,     \* what the last store to state released
  pc,           \* where each thread is
  exp,          \* exp[t]: p of the call under way
  i,            \* i[t]: the loop counter of ryu_init_pow5_anchor_cache
  left,         \* left[t]: what ryu_bigint_mul_pow5 still has to multiply by
  out           \* out[t]: *out of the call, or Failed when it returned 0

memory == <<state, anchor, known, relKnown>>
locals == <<exp, i, left, out>>
vars == <<fits, state, anchor, known, relKnown, pc, exp, i, left, out>>

Blank == -1
Failed == -2

AnchorCount == (MaxExp \div Stride) + 1
Anchors == 0 .. AnchorCount - 1
TopAnchor == (AnchorCount - 1) * Stride

Where == {"idle", "check", "test", "cas", "base", "copy", "mul", "publish", "reset",
          "spin", "recheck", "read", "scale", "done"}
\* The winner of the compare-and-swap, until it stores 2 or 0.
Building == {"base", "copy", "mul", "publish", "reset"}

Goto(t, where) == pc' = [pc EXCEPT ![t] = where]
Finish(t, result) == /\ out' = [out EXCEPT ![t] = result]
                     /\ Goto(t, "done")

\* __ATOMIC_ACQUIRE: what the last release made visible becomes known to t.
Acquire(t) == known' = [known EXCEPT ![t] = @ \cup relKnown]

\* __ATOMIC_RELEASE by a thread that knows what known[t] says.
StoreRelease(t, value) == /\ state' = value
                          /\ relKnown' = known[t]
                          /\ UNCHANGED <<anchor, known>>

\* A plain write to anchor k: only t knows it, and no earlier release covers it.
WriteAnchor(t, k, value) ==
  /\ anchor' = [anchor EXCEPT ![k] = value]
  /\ known' = [u \in Threads |-> IF u = t THEN known[u] \cup {k} ELSE known[u] \ {k}]
  /\ relKnown' = relKnown \ {k}
  /\ UNCHANGED state

---------------------------------------------------------------------------
\* Static storage: zeroed before any thread runs, and so known to all of them.
Init == /\ fits \in Capacities
        /\ state = 0
        /\ anchor = [k \in Anchors |-> Blank]
        /\ known = [t \in Threads |-> Anchors]
        /\ relKnown = Anchors
        /\ pc = [t \in Threads |-> "idle"]
        /\ exp = [t \in Threads |-> 0]
        /\ i = [t \in Threads |-> 0]
        /\ left = [t \in Threads |-> 0]
        /\ out = [t \in Threads |-> Failed]

\* ryu_bigint_from_pow5_stride(p, out) is called.
Call(t) == /\ pc[t] = "idle"
           /\ \E p \in Exponents : exp' = [exp EXCEPT ![t] = p]
           /\ Goto(t, "check")
           /\ UNCHANGED <<fits, memory, i, left, out>>

\* The table serves exponents up to RYU_POW5_MAX_EXP.
Check(t) == /\ pc[t] = "check"
            /\ \/ exp[t] > MaxExp /\ Finish(t, Failed)
               \/ exp[t] <= MaxExp /\ Goto(t, "test") /\ UNCHANGED out
            /\ UNCHANGED <<memory, exp, i, left>>

\* A slip: the state is loaded with no acquire.
MutTest(t) == /\ pc[t] = "test"
              /\ Goto(t, IF state = 2 THEN "read" ELSE "cas")
              /\ UNCHANGED <<memory, locals>>

\* ryu_init_pow5_anchor_cache: the fast path.
Test(t) == /\ pc[t] = "test"
           /\ Acquire(t)
           /\ Goto(t, IF state = 2 THEN "read" ELSE "cas")
           /\ UNCHANGED <<state, anchor, relKnown, locals>>

\* Slips: an increment in place of the compare-and-swap; one from 2 as well as from 0.
MutFetchAdd(t) == /\ pc[t] = "cas"
                  /\ state' = state + 1
                  /\ Acquire(t)
                  /\ relKnown' = known'[t]
                  /\ Goto(t, "base")
                  /\ UNCHANGED <<anchor, locals>>

MutCasAny(t) == state # 1 /\ MutFetchAdd(t)

\* The compare-and-swap 0 -> 1: acquire and release when it succeeds, acquire when not.
CasWin(t) == /\ pc[t] = "cas"
             /\ state = 0
             /\ state' = 1
             /\ Acquire(t)
             /\ relKnown' = known'[t]
             /\ Goto(t, "base")
             /\ UNCHANGED <<anchor, locals>>

\* A slip: whoever loses the race to build reads at once.
MutCasLose(t) == /\ pc[t] = "cas"
                 /\ state # 0
                 /\ Acquire(t)
                 /\ Goto(t, "read")
                 /\ UNCHANGED <<state, anchor, relKnown, locals>>

CasLose(t) == /\ pc[t] = "cas"
              /\ state # 0
              /\ Acquire(t)
              /\ Goto(t, "spin")
              /\ UNCHANGED <<state, anchor, relKnown, locals>>

\* The head of the for loop.
LoopAt(t, k) == /\ i' = [i EXCEPT ![t] = k]
                /\ Goto(t, IF k < AnchorCount THEN "copy" ELSE "publish")

\* ryu_bigint_from_u64(&g_pow5_anchor[0], 1).
BuildBase(t) == /\ pc[t] = "base"
                /\ WriteAnchor(t, 0, 0)
                /\ LoopAt(t, 1)
                /\ UNCHANGED <<exp, left, out>>

\* ryu_bigint_copy(&g_pow5_anchor[i], &g_pow5_anchor[i - 1]).
BuildCopy(t) == /\ pc[t] = "copy"
                /\ WriteAnchor(t, i[t], anchor[i[t] - 1])
                /\ left' = [left EXCEPT ![t] = Stride]
                /\ Goto(t, "mul")
                /\ UNCHANGED <<exp, i, out>>

\* One turn of the loop in ryu_bigint_mul_pow5.
BuildMul(t) ==
  LET k == i[t]
      chunk == IF left[t] > Chunk THEN Chunk ELSE left[t]
      product == anchor[k] + chunk
  IN  /\ pc[t] = "mul"
      /\ \/ /\ product > fits
            /\ WriteAnchor(t, k, Blank)
            /\ Goto(t, "reset")
            /\ UNCHANGED <<i, left>>
         \/ /\ product <= fits
            /\ WriteAnchor(t, k, product)
            /\ left' = [left EXCEPT ![t] = @ - chunk]
            /\ \/ left[t] > chunk /\ UNCHANGED <<pc, i>>
               \/ left[t] = chunk /\ LoopAt(t, k + 1)
      /\ UNCHANGED <<exp, out>>

\* A slip: the builder that failed declares the table ready.
MutResetReady(t) == /\ pc[t] = "reset"
                    /\ StoreRelease(t, 2)
                    /\ Finish(t, Failed)
                    /\ UNCHANGED <<exp, i, left>>

\* The product did not fit: give the state back and answer 0.
Reset(t) == /\ pc[t] = "reset"
            /\ StoreRelease(t, 0)
            /\ Finish(t, Failed)
            /\ UNCHANGED <<exp, i, left>>

\* A slip: the builder keeps the state it was in.
MutPublish(t) == /\ pc[t] = "publish"
                 /\ Goto(t, "read")
                 /\ UNCHANGED <<memory, locals>>

Publish(t) == /\ pc[t] = "publish"
              /\ StoreRelease(t, 2)
              /\ Goto(t, "read")
              /\ UNCHANGED locals

\* A loser waits while the state is 1, ...
Spin(t) == /\ pc[t] = "spin"
           /\ Acquire(t)
           /\ Goto(t, IF state = 1 THEN "spin" ELSE "recheck")
           /\ UNCHANGED <<state, anchor, relKnown, locals>>

\* ... loads it again, and starts over (the recursive call) unless it is 2.
Recheck(t) == /\ pc[t] = "recheck"
              /\ Acquire(t)
              /\ Goto(t, IF state = 2 THEN "read" ELSE "test")
              /\ UNCHANGED <<state, anchor, relKnown, locals>>

\* ryu_bigint_copy(out, &g_pow5_anchor[p / STRIDE]).
Read(t) == /\ pc[t] = "read"
           /\ out' = [out EXCEPT ![t] = anchor[exp[t] \div Stride]]
           /\ Goto(t, "scale")
           /\ UNCHANGED <<memory, exp, i, left>>

\* ryu_bigint_mul_pow5(out, p % STRIDE), on memory of its own.
Scale(t) == LET rem == exp[t] % Stride
                product == out[t] + rem
            IN  /\ pc[t] = "scale"
                /\ Finish(t, IF rem # 0 /\ product > fits THEN Failed ELSE product)
                /\ UNCHANGED <<memory, exp, i, left>>

\* The caller has its answer; the locals of the call are gone.
Return(t) == /\ pc[t] = "done"
             /\ Goto(t, "idle")
             /\ exp' = [exp EXCEPT ![t] = 0]
             /\ i' = [i EXCEPT ![t] = 0]
             /\ left' = [left EXCEPT ![t] = 0]
             /\ out' = [out EXCEPT ![t] = Failed]
             /\ UNCHANGED memory

---------------------------------------------------------------------------
Synchronize(t) == Test(t) \/ CasWin(t) \/ CasLose(t) \/ Spin(t) \/ Recheck(t)
Build(t) == BuildBase(t) \/ BuildCopy(t) \/ BuildMul(t) \/ Publish(t) \/ Reset(t)
Step(t) == /\ Check(t) \/ Synchronize(t) \/ Build(t) \/ Read(t) \/ Scale(t) \/ Return(t)
           /\ UNCHANGED fits

Next == \E t \in Threads : Call(t) \/ Step(t)

Spec == Init /\ [][Next]_vars

\* A thread that has begun a call is scheduled again and again until it returns.
FairSpec == Spec /\ \A t \in Threads : WF_vars(Step(t))

---------------------------------------------------------------------------
\* The state word is 0, 1 or 2, and the locals of every call keep their types.
TypeOK == /\ fits \in Capacities
          /\ state \in 0 .. 2
          /\ anchor \in [Anchors -> Int]
          /\ known \in [Threads -> SUBSET Anchors]
          /\ relKnown \in SUBSET Anchors
          /\ pc \in [Threads -> Where]
          /\ exp \in [Threads -> Nat]
          /\ i \in [Threads -> Nat]
          /\ left \in [Threads -> Nat]
          /\ out \in [Threads -> Int]

\* What thread t's next step writes and reads of the table.
Writes(t) == CASE pc[t] = "base" -> {0}
               [] pc[t] \in {"copy", "mul"} -> {i[t]}
               [] OTHER -> {}
Reads(t) == CASE pc[t] = "read" -> {exp[t] \div Stride}
              [] pc[t] = "copy" -> {i[t] - 1}
              [] pc[t] = "mul" -> {i[t]}
              [] OTHER -> {}

(***************************************************************************)
(* The table is read and written without a lock, yet no two threads race   *)
(* on an anchor: whoever touches one is ordered after its last write, also *)
(* a write of an attempt that failed, and no other thread is about to      *)
(* touch what a thread is about to write.                                  *)
(***************************************************************************)
NoDataRace ==
  \A t \in Threads :
    /\ Writes(t) \cup Reads(t) \subseteq known[t]
    /\ \A u \in Threads \ {t} : Writes(t) \cap (Writes(u) \cup Reads(u)) = {}

(***************************************************************************)
(* Once the state is 2 it stays 2 and the table is never written again: a  *)
(* reader may keep using an anchor without looking at the state.           *)
(***************************************************************************)
PublishedIsFrozen == [][state = 2 => UNCHANGED <<state, anchor>>]_vars

(***************************************************************************)
(* The table implements the service: every call answers as if it had run   *)
(* alone.  A call for more than MaxExp fails; so does every other call     *)
(* when the table cannot be built, and a call for a power that does not    *)
(* fit; any other call answers 5^p.                                        *)
(***************************************************************************)
Result == [p \in Exponents |->
             IF \/ p > MaxExp
                \/ TopAnchor > fits
                \/ p > fits
             THEN Failed ELSE p]

Service == INSTANCE Pow5Service WITH
  call <- [t \in Threads |->
             IF pc[t] = "idle" THEN <<"idle">>
             ELSE IF pc[t] = "done" THEN <<"done", exp[t], out[t]>>
             ELSE <<"busy", exp[t]>>]

ActsAlone == Service!Spec

---------------------------------------------------------------------------
\* Anchors 0 .. n-1 hold what they should, and it fits.
Filled(n) == /\ \A k \in Anchors : k < n => anchor[k] = k * Stride
             /\ (n - 1) * Stride <= fits

\* One builder at a time, and what it has done so far.
BuilderInv ==
  \A t \in Threads :
    /\ pc[t] \in Building => /\ state = 1
                             /\ known[t] = Anchors
                             /\ \A u \in Threads : pc[u] \in Building => u = t
    /\ pc[t] \in {"copy", "mul"} => i[t] \in 1 .. AnchorCount - 1 /\ Filled(i[t])
    /\ pc[t] = "mul" => /\ left[t] \in 1 .. Stride
                        /\ anchor[i[t]] = i[t] * Stride - left[t]
    /\ pc[t] = "publish" => Filled(AnchorCount)
    /\ pc[t] = "reset" => TopAnchor > fits

\* What the state says of the table.
TableInv == /\ state # 1 => relKnown = Anchors
            /\ state = 2 => Filled(AnchorCount)

\* What a caller knows on its way to the answer.
CallerInv ==
  \A t \in Threads :
    /\ pc[t] # "idle" => exp[t] \in Exponents
    /\ pc[t] \notin {"idle", "check", "done"} => exp[t] <= MaxExp
    /\ pc[t] = "read" => state = 2 /\ known[t] = Anchors
    /\ pc[t] = "scale" => out[t] = (exp[t] \div Stride) * Stride /\ TopAnchor <= fits
    /\ pc[t] = "done" => out[t] = Result[exp[t]]

\* The inductive invariant behind the theorems of Pow5AnchorCache_proof: what the one
\* builder has done, what the state says of the table, what callers may rely on.
IInv == TypeOK /\ BuilderInv /\ TableInv /\ CallerInv

(***************************************************************************)
(* A spinning loser is never left behind: under fair scheduling every call *)
(* returns, if the table can be built.  (If not, a loser may find a new    *)
(* attempt under way each time it looks.)                                  *)
(***************************************************************************)
EveryCallReturns ==
  \A t \in Threads : pc[t] # "idle" /\ TopAnchor <= fits ~> pc[t] = "idle"
=============================================================================
