------------------------------- MODULE Words --------------------------------
(***************************************************************************)
(* Numbers of two and of three machine words, as the parsers compute with  *)
(* them where the compiler has no wider integers                           *)
(* (src/src/ryu64_parse_internal.h, src/src/ryu64_parse_full.c): a word    *)
(* wraps, and carries and borrows are told by comparing.                   *)
(***************************************************************************)
EXTENDS Integers

CONSTANTS
  WordBits,     \* 64
  HalfWord      \* 2^32

ASSUME WordAssumption == WordBits \in Nat /\ HalfWord \in Nat /\ HalfWord > 1

Word == HalfWord * HalfWord
Words == 0 .. Word - 1

\* ryu_u128, ryu_u192
Pair(hi, lo) == [hi |-> hi, lo |-> lo]
Triple(hi, mid, lo) == [hi |-> hi, mid |-> mid, lo |-> lo]
Pairs == [hi : Words, lo : Words]

\* What they stand for; the parsers never compute it.
OfPair(a) == a.hi * Word + a.lo
OfTriple(a) == (a.hi * Word + a.mid) * Word + a.lo

FromWord(x) == Pair(0, x)
IsZero(a) == a.hi = 0 /\ a.lo = 0

Less(a, b) == a.hi < b.hi \/ (a.hi = b.hi /\ a.lo < b.lo)

\* A slip: the borrow is forgotten.
MutMinus(a, b) == Pair((a.hi - b.hi) % Word, (a.lo - b.lo) % Word)
Difference(a, b) == Pair((a.hi - b.hi - (IF a.lo < b.lo THEN 1 ELSE 0)) % Word,
                         (a.lo - b.lo) % Word)

\* The word one bit to the left, and the bit that leaves it.
Up(x) == (2 * x) % Word
Top(x) == (2 * x) \div Word

Twice(a) == Pair(Up(a.hi) + Top(a.lo), Up(a.lo))

Shifted(a, k) ==
  CASE k = 0 -> a
    [] k >= 2 * WordBits -> Pair(0, 0)
    [] WordBits <= k /\ k < 2 * WordBits -> Pair((a.lo * 2 ^ (k - WordBits)) % Word, 0)
    [] OTHER -> Pair(((a.hi * 2 ^ k) % Word) + (a.lo \div 2 ^ (WordBits - k)), (a.lo * 2 ^ k) % Word)

\* ryu_log2_u64, and one more.
WordLen(x) == CHOOSE k \in 0 .. WordBits : 2 ^ k > x /\ (k > 0 => 2 ^ (k - 1) <= x)
PairLen(a) == IF a.hi # 0 THEN WordBits + WordLen(a.hi) ELSE WordLen(a.lo)

\* ryu_mul_u64_u64_128, by half words.
Product(x, y) ==
  LET p0 == (x % HalfWord) * (y % HalfWord)
      p1 == (x % HalfWord) * (y \div HalfWord)
      p2 == (x \div HalfWord) * (y % HalfWord)
      p3 == (x \div HalfWord) * (y \div HalfWord)
      mid == (p0 \div HalfWord) + (p1 % HalfWord) + (p2 % HalfWord)
  IN  Pair((p3 + (p1 \div HalfWord) + (p2 \div HalfWord) + (mid \div HalfWord)) % Word,
           (p0 % HalfWord) + ((mid * HalfWord) % Word))

\* ryu_mul_u64_u128_192, which Eisel-Lemire spells out: a carry made the sum smaller.
WideProduct(m, a) ==
  LET low == Product(m, a.lo)
      high == Product(m, a.hi)
      mid == (high.lo + low.hi) % Word
  IN  Triple((high.hi + (IF mid < high.lo THEN 1 ELSE 0)) % Word, mid, low.lo)
=============================================================================
