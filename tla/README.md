# Specifications of ryu64-cleanroom

`ryu64-cleanroom` is a C library that reads and writes IEEE-754 binary64
numbers without `malloc`, without `libm` and without the C library's own
formatting: shortest decimal output, `printf`-style output, a full and a tiny
decimal parser, and a WebAssembly (WIT) layer with locales on top of them.
This directory holds TLA+ specifications of that code, TLC configurations
that check them on small instances, and TLAPS proofs of the results that
should hold for every size.

Most of the library is sequential arithmetic, and its hard behaviour is the
hard behaviour of such code: a digit that no longer fits, a remainder that
decides a tie, a carry that changes the exponent, a buffer that is one byte
short, a shortcut whose precondition is almost right. One part is concurrent:
a table of powers of five that all threads build and share without a lock.

    tlc -config X.cfg M        model-checks module M with configuration X
    tlapm M_proof.tla          checks the proofs of M_proof

## 1. The system

| part | source | state it keeps | operations |
|---|---|---|---|
| bigint | `src/src/ryu64_bigint.c`, `.h` | a `ryu_bigint` per caller: limbs base 10^9 and a length, at most `RYU_BIGINT_MAX_LIMBS` | from/to u64, multiply by small numbers, 2^k, 5^k, 10^k, add, subtract, compare, divide, append a digit |
| power-of-five anchor cache | `src/src/ryu64_bigint.c` 424-505 | **global**: `g_pow5_anchor[]`, `g_pow5_anchor_state` | `ryu_init_pow5_anchor_cache`, `ryu_bigint_from_pow5_stride` |
| decimal interval, shortest digits, rounding | `src/src/ryu64_bigint.c` 506-1577 | none | `ryu_decimal_interval_from_bits`, `ryu_choose_shortest_digits`, `ryu_exact_decimal_from_bits`, `ryu_round_exact_to_fractional`, `ryu_round_exact_to_significant` |
| full parser | `src/src/ryu64_parse_full.c` | locals of one call | lexer, Eisel-Lemire, 128-bit path, exact conversion, truncated resolver |
| tiny parser | `src/src/ryu64_parse_tiny.c` | locals of one call | `ryu64_from_decimal_tiny` |
| word helpers, tables | `ryu64_parse_internal.h`, `ryu64_parse_tables.c` | constant tables | 128- and 192-bit arithmetic, powers of ten and five |
| shortest formatter | `src/src/ryu64_shortest.c` | locals, the caller's buffer | `ryu64_to_shortest` |
| printf formatter | `src/src/ryu64_printf.c` | locals, the caller's buffer | `ryu64_to_printf` for `%e %f %g %a` |
| WIT layer | `src/wit/floats_impl.c`, `floats.wit` | buffers on the stack | `format-f64`, `parse-f64`, `to-string` |
| instrumentation | `src/src/ryu64_bigint.c` under `RYU_ENABLE_BIGINT_PROFILE` | **global** counters | peak and call counters, reset |

How they interact. The formatters turn the bits of a number into an exact
decimal (a bigint times a power of ten), ask the bigint layer to round or
shorten it, and write the digits. The full parser lexes the text once and then
converts what it kept by the first path that accepts it: Eisel-Lemire,
a 128-bit path, the exact bigint conversion, or, when digits had to be dropped,
the resolver that converts a lower and an upper bound. The WIT layer calls the
formatter and rewrites its text for a locale, or rewrites a text for the parser
and translates the parser's length back. Everything is a synchronous call; the
only shared mutable state is the anchor cache (and the counters of
instrumented builds).

What makes each part correct:

* anchor cache: no data race, no write after publication, every caller gets
  the power it asked for, and gets out;
* lexer: the significand kept and the digits dropped enclose what was read;
  the counters of digits and exponents agree with the text; the length
  consumed is that of the longest numeral;
* conversions: the nearest number, ties to even; OK only when nothing was
  lost; a refusal only when the capacity really is exhausted;
* tiny parser: within its limits the nearest number, outside them a refusal,
  and never another length than the full parser's;
* printf: one rounding, in the mode asked for, at the place asked for,
  carries included; the text says the rounded number, as asked for, and stays
  in the caller's buffer, and no buffer of twice its length is refused;
* shortest: reads back, and nothing shorter does; the shorter of the two
  notations that fit is written;
* locales: what was formatted is read back, the length is in bytes of the
  original, only misplaced separators are refused;
* bigint: every operation computes its number or reports that it does not fit,
  leaving a normalised number.

## 2. The modules

| module | models | state and actions in the code |
|---|---|---|
| `Pow5Service` | the promise of `ryu_bigint_from_pow5_stride` | abstract: a call is begun, answered at one moment, returned |
| `Pow5AnchorCache` | `ryu_init_pow5_anchor_cache` and its caller, any number of threads | one action per atomic operation, per write to an anchor and per branch; `state`, `anchor` are the globals, the rest locals |
| `Pow5AnchorCache_proof` | proofs about it | |
| `DecimalText` | the symbols of a text and the grammar of a numeral | reference definition |
| `DecimalLex` | `ryu_parse_full_decimal_lex`, `ryu_parse_append_digit` | one action per loop turn and branch; the variables are the fields of the lexer's result |
| `BinaryFormat` | a binary format of any size and what "nearest" means in it | reference definition |
| `Powers` | what a power is | reference definition |
| `Texts` | digits, texts put together from pieces, each with its room test, and what a text says | operators; `ReadAs` is the reading the properties refer to |
| `Texts_proof` | induction, powers, digits and the reading of texts, for all proofs | |
| `Words` | numbers of two and three machine words: `ryu_u128_*`, `ryu_mul_u64_u64_128`, `ryu_mul_u64_u128_192` | operators; the products go by halves of a word, carries and borrows are told by comparing, as in the code |
| `ParseTiny` | `ryu64_from_decimal_tiny`, `ryu_tiny_mq_to_double` | extends `DecimalLex` by one action, a call with the text the lexer has read |
| `ParseFull` | `ryu64_from_decimal_full` from the text to the bits | extends `DecimalLex`; one action per way out of the function |
| `Parsers_proof` | proofs about `DecimalLex`, `Words`, `ParseFull` and `ParseTiny` | |
| `LongDivision` | the bit-by-bit division of `ryu_convert_ratio_to_double` | one action per loop turn, one for the rounding |
| `RatioSearch` | `ryu_floor_log2_ratio` and the shift by what it finds | extends `LongDivision`; one action per step tried, up, then down |
| `LongDivision_proof` | proofs about both | |
| `BigintLimbs` | the limb loops of `ryu_bigint` and of `ryu_bigint_mul10_add_digit` | one action per loop turn; `limb` and `len` are the number, `old` and `want` history |
| `BigintCalls` | `ryu_bigint_mul_u64`, `ryu_bigint_decimal_len`, `ryu_bigint_to_decimal` and its fast form | extends `BigintLimbs`: a product is two products and a sum of it, on `*a` and on `hi_term`, which change places |
| `BigintLimbs_proof` | proofs about both | |
| `PrintfRound` | `%e`, `%f`, `%g` down to digits and places | one action per stage of `ryu64_to_printf` and one per turn of the shrinking loop |
| `PrintfHex` | `ryu_printf_a` down to digits | extends `PrintfRound` |
| `Layout` | signs, words, lengths of exponents | extends `Texts`; operators shared by the next and `ShortestText` |
| `PrintfText` | the emitting functions of all four notations | extends `PrintfHex` and `Layout`; one action per call of one |
| `PrintfText_proof` | proofs about the rounding and about the texts | |
| `Shortest` | `ryu64_to_shortest` down to digits | the interval, one action per power of ten tried |
| `ShortestText` | the two notations in their own buffers, the copy to the caller's | extends `Shortest` and `Layout` |
| `Shortest_proof` | proofs about both | |
| `WitLocale` | `apply_locale`, `apply_width`, `normalize_locale_input`, the parsed length | one action per byte or token of the normalisation |
| `WitLocale_proof` | proofs about it | |

`ParseFull` and `ParseTiny` each compose `DecimalLex` with conversions and compute
with the words of `Words`; `RatioSearch` and `LongDivision` refine one step that
`ParseFull` writes as an integer division, `BigintLimbs` what all of them take
for numbers, and `Pow5AnchorCache` implements `Pow5Service`. `PrintfText` and
`ShortestText` compose rounding and layout: their properties read the number back
from the text. The modules `MC*` add what TLC
needs: sets of inputs, symmetry, negative constants. In `PROJECT.json`, `map` names the lines that each
definition stands for.

Names starting with `Mut` are slips: an operator as a plausible programming
error would have it. They are used by no specification; putting one in place
of the operator behind it breaks the property the list `mutants` names, which
shows that the property says something about the code.

### Conventions of the models

* **A bigint is its number.** The models of its callers use integers and a
  capacity: an operation whose result exceeds it fails, as the C functions
  return 0. That the functions do so is what `BigintLimbs` is about.
* **Sizes are constants.** `Prec`, `EMin`, `EMax` replace 53, -1022, 1023;
  `U64Max`, `SigMax`, `ExpCap` replace `UINT64_MAX`, the capacity of a bigint
  and the cap on exponents. `MaxDigits` of the two formatters, and `MaxDigits` and
  `MaxBits` of `ParseFull`, bound the length of every number they meet, and any
  value large enough will do; `SmallExp10` and `LargeExp10` of
  `BinaryFormat` bound the exponents of ten that the definition of "nearest" tells
  apart, beyond which a decimal is past either end of the format. What the comments behind the constants quote is the
  value in the code.
* **A text is a sequence of symbols** (numbers 0 to 19, and a few more
  where hexadecimal texts and locales need them). The words `inf`,
  `infinity`, `nan` and a well-formed `(payload)` are one symbol each: the code
  compares them as a whole and case-insensitively, and nothing here depends on
  their spelling.
* **History variables.** `exact`, `weight` and `truePart` of `DecimalLex` hold
  what the text spells in full. No action reads them to decide anything.

### The anchor cache and the memory model

The table is plain memory and the state word is atomic, so a behaviour is
more than an interleaving. There is only one atomic variable, hence all threads
agree on the order of its modifications and TLC's interleaving of the accesses
to it loses nothing: a load that returns an older value is the same load placed
earlier, and an acquire of an older store makes less known, which is what the
earlier placement yields. What interleaving does not give is visibility, and it
is modelled explicitly: `known[t]` is the set of anchors whose last write
happens before what `t` does next, a release store hands on `known[t]`, an
acquire load takes over what was handed on. `NoDataRace` demands that whoever
touches an anchor knows its last write. Weakening any acquire or release, or
letting a loser read at once, violates it.

The state 0 is stored with the same release as 2, so a second builder knows
what the failed one wrote: that is why rewriting the half-built table is no
race either.

## 3. What the runs check

| run | what it shows | bounds, and why they are enough |
|---|---|---|
| `Pow5Cache` | `NoDataRace`, `PublishedIsFrozen`, `ActsAlone` (the cache implements `Pow5Service`), `EveryCallReturns`, `IInv` | three threads: a builder, a loser that spins and a third that arrives at any time, each calling again and again. Three anchors of two products each: the loop is entered, repeated and left. Two capacities: a table that fits, and one whose last anchor fails at its second product, so that it is half built when the state goes back to 0. Exponents between anchors, the last served and one too large |
| `BigintLimbs` | `Answers`, `AnswersPowers`, `RefusesOnlyTooLarge`, `KeepsOnRefusal`, `NoWrap`; of the calls built on the loops `CInv`, `MultipliesByWord`, `WritesTheNumber` | every number of three limbs of base 4, with every other one as second operand, and full limbs as garbage above: carries and borrows run through all three limbs, or off the end. Tables of two and three powers: a power takes one, several or no products. A word up to 41: `to_u64` refuses some numbers, after a sum that wraps and after one that does not. Every factor below that word, 9 for `UINT32_MAX`: factors of one part, of two, and beyond. Text buffers of zero to seven bytes. 162 380 states |
| `DecimalLex` | `Enclosed`, `DropsOnlyWhenFull`, `CountsDigits`, `ParsesLongestPrefix`; of the tiny parser `TinyIsNearest`, `TinyKeepsItsContract`; of both `CallInv`, which holds `IInv` | every text of up to seven symbols from thirteen. A uint64_t holds up to 12 and a bigint up to 199, so a text of four digits goes through all three stages (word, bigint, dropped) and seven symbols leave room for a sign, a point or an exponent. The tiny parser takes three digits and exponents up to 2 in words of 10 bits: as in the code, 10^limit fits a word and a product needs two. Its exponent stops growing at 10, which a text of two digits reaches and no text of seven symbols can make up for. 718 208 states |
| `ParseFull` | `NearestUnlessTie`, `OkIsExact`, `RefusesOnlyLong`, `FastPathIdle` | see below. 2.6 million states |
| `LongDivision` | `SearchNormalizes`, `RoundsToNearest`, `InexactIffLost`, `SearchInv` | all operands up to 143, two limbs of base 12, and three fraction bits: ratios from 1/143 to 143, the search up and down, shifts that do not fit, exact quotients, ties to both sides, carries, failing doublings. The clamps at 32767 are never reached, in the code as here. 235 067 states |
| `PrintfRound` | `RoundsAsAsked`, `EnoughDigitsReadBack`, `TextSaysTheNumber`, `HexSaysTheNumber`, `StaysInBuffer` | every number of a 5-bit format, nan and infinity, both signs, four notations, four modes, nine precisions from invalid to unsupported; limbs of two digits put the cut on and between limb boundaries, a capacity of six digits makes padding fail. Exponents are written in base 2 and have one to three digits. Three sign styles, two of them with trimmed texts, in seven buffers from one byte (a call with none returns first) to more than any text needs. 990 506 states |
| `Shortest` | `ReadsBack`, `IsShortest`, `TextReadsBack`, `AlwaysAnswers` | every number of a 4-bit format from 1/64 to 15360, subnormal, at powers of two and the largest included, in buffers of one to ten bytes: either notation wins, or only one fits, or none. The inner buffers (22 and 13 bytes for 4096 and 128) are as small as `CapAssumption` lets them be. 3 588 states |
| `WitLocale` | `ParsesWhatItFormats`, `LengthIsConsumed`, `RefusesMisplacedOnly` | 93 numbers, decimal and hexadecimal and in every sign style, formatted with seven locales (one with two-byte punctuation that shares its first byte, one ambiguous, one that gives the bytes of the C locale as its own), seven grouping rules and four kinds of padding, and all 19 609 texts of up to five bytes from seven. 851 224 states |

Four runs end in a violation, each of a sentence the repository states:
`ParseTies`, `ParseTruncated`, `PrintfDirected` and `WitTruncated`, in section 6.

**The scaled parser.** `ParseFull` keeps every comparison of the code and
shrinks its numbers together: significands of 3 bits and magnitudes from 1/8 to
28, words of 8 bits, table entries of 16, a bigint of
four digits, Eisel-Lemire for up to two digits and exponents -3 to 1, decimal
exponents settled outside -3 to 2. What had to be kept between the numbers:

* `2 * WordBits` exceeds what the exact product of a short decimal needs, as 128
  bits do for 19 digits;
* a bigint holds every intermediate of a text of fewer digits than it has,
  so that `RefusesOnlyLong` has the meaning it has in the code. With the least
  number of limbs (96) that is a matter of more than 850 digits;
* the exponents that Eisel-Lemire serves include all that the 128-bit path
  serves, and no number of the latter is subnormal (`FastExp10`), which is what
  makes that path idle in the code: `FastPathIdle` is about exactly this;
* a significand from which digits were dropped has three digits at least, far more
  than three bits can tell apart, as the hundreds of digits of the code are more
  than 53 bits can: the two bounds of the resolver differ only across a midpoint,
  also at exponents up to `SettledExp10`, where only one of them is converted.

The alphabet holds the digits 0, 1, 2, 5, 6. They make numbers of the format, subnormal
ones included, midpoints below an even significand as well as above one (1/16, 1.125,
1.625, 5.5, 11, 15, 22), where a tie goes down, up, and up into the next binade, and
texts just beside them; they do not make every number. What follows a number and
its sign are explored by `DecimalLex` and fixed here (`Plain`).

Two things do not fit this instance. Its table entries for positive exponents are
exact, and those for negative ones rounded up: an entry that is cut off, as those
beyond 5^55 are in the code, would need exponents past TLC's integers. And exponents reach their
cap (10) and are left to stop there, but no text of seven symbols has the places to
make up for a capped exponent, which is where the code goes wrong (section 6).

**The tiny parser's run.** One call of it reads the whole text, so it is made
where the lexer of the full parser has stopped, with the text that one has
revealed: neither looks further than the other, but for a payload behind `nan`.
That lets one run hold both against the grammar and the tiny one against what
`DecimalLex` found in the text.

**The limbs' run.** Base, word and table sizes are far smaller than 10^9 and
2^64, and one thing is lost: in an instance in which `ryu_bigint_from_u64` would
run out of limbs, `ryu_bigint_to_u64` could not wrap. The code has 96 limbs or
more and neither does the former here; the latter does. `Value` is a sum by a
recursive function on an interval, about which the prover can reason.
`CInv` is the invariant of the loops, `IInv`, with what a product by a `uint64_t`
under way is worth.

**Invariants that no run lists.** `IInv` of `PrintfRound` and of `Shortest`, the
inductive invariants of the proofs, were checked on the instances of the runs
before they were proved; the properties that the runs list follow from them.

**WIT bounds.** The buffers of `WitLocale` (12 and 14 bytes in place of 1024 and
2048) are longer than most formatted numbers and shorter than some, so that both
the cut text and the full one occur; `ParsesWhatItFormats` sets the cut ones
apart. Places wrap at 13 in place of 65536: texts of eight bytes and more, with their
separators, come to lie on both sides of it. Five typed bytes hold sign, digit, two separators and a digit, the
longest pattern that decides whether a separator is misplaced, and a
point with a partly matching separator.

**Deadlock.** Only the cache runs for ever, and there deadlock is checked. All
other specifications model a function that returns once and stops.

### Fairness

`Pow5AnchorCache!FairSpec` assumes weak fairness of each thread's own steps: a
thread in the middle of a call is scheduled again. That is what an operating
system gives its threads; no fairness between the actions of a thread is
assumed, nor that a thread ever calls. `EveryCallReturns` holds under it for a table that
fits, which holds in every legal build (`RYU_BIGINT_MAX_LIMBS` is at least 96,
and the top anchor of the default stride, 5^1072, has 750 digits). With a table that does not fit a
loser could be overtaken for ever: each time the state returns to 0 another
thread may win again before the loser looks. So the property claims it only for the
capacity at which the table fits.

`Shortest` assumes weak fairness of its next step: one thread runs the function
to its end. `AlwaysAnswers` is then the claim that the loop finds a digit before
it runs out of powers of ten.

## 4. What is proved

The theorems hold for every value of the constants that satisfies the named
assumptions of the module, and under the specification whose runs check the
properties, extensions included (`CSpec`, `SSpec`, `TSpec`); those of the lexer are
about `Spec` of `DecimalLex`, which `TSpec` of `ParseTiny` extends by a call that
leaves the lexer's variables alone.

Two things are done the same way everywhere. The provers know no definition of `^`,
so a module that computes with powers assumes of them the two equations that
define them, up to the exponent it needs (`PowersUpTo` of `Powers`; TLC evaluates
the assumption on every run). And induction over numbers is done with sets: a
subset of `0 .. n` that holds 0 and with every number the next one is all of it, a
non-empty set of numbers has a least member (`Texts_proof`).

**`Pow5AnchorCache_proof`**, from `ExponentsAssumption` and `SizesAssumption`
(the stride and the chunk are positive; nothing is assumed of `Fits`).
`Invariance` proves `IInv` inductive for any number of threads. `TypeOK` and
`NoDataRace` alone are not: the latter says of a thread that it knows the anchor
it is about to touch, and that follows only from who is building. `IInv` adds
three parts: *BuilderInv*, a thread between the won compare-and-swap and its
store is alone there, the state is 1, it knows all anchors and has filled those
below its counter; *TableInv*, whenever the state is not 1 the last store
released all anchors, and at 2 they are full; *CallerInv*, who reaches the read
saw the state 2. From it follow `RaceFree`, `Frozen` (a step from state 2 writes
nothing, since nobody is building) and `Implements`: each step is a step of
`Pow5Service` or a stutter, where the answer is `out[t] = Result[exp[t]]`.

**`Parsers_proof`, the lexer**, from `AlphabetAssumption`, `BoundsAssumption` and
`RoomAssumption`: ten times `UINT64_MAX` and one more digit fit a bigint, so
that the digit that leaves the word is never dropped (it needs three limbs, and
a build has at least 96). `Invariance` proves `IInv`; `Enclosure`, `Capacity`,
`Counts` and `LongestPrefix` are its consequences. The strengthening has two parts.
*DigitsInv*: 10^dropped is positive, it is 1 until a digit is dropped, before the
first digit other than 0 nothing is kept, and the counters are the lengths of what
was read. *ReadInv*: where the sign, the digits, the point and the exponent read
so far start and end in the text, phase by phase. At the end it says of the prefix
accepted that it is a numeral, and of every longer prefix that no choice of its
parts makes it one: it would have to continue the digits or the exponent across the
symbol at which the lexer stopped.

**`Parsers_proof`, the words**, from `WordAssumption` (a word is the square of its
half). Five theorems about operators, for every word size: order, difference and
double of pairs, the product of two words by halves, and the product of a word and
a pair, are those of the numbers. `ProductIsProduct` needs that the middle sum, up
to three halves, and not only its low part is carried on; `WideProductIsProduct`
that a wrapped sum is told by comparing it with an addend. `ParseTiny` and
`ParseFull` compute with these operators.

**`Parsers_proof`, the full parser**, under `PSpec`, from the assumptions of
`ParseFull`. The lexer's invariant holds there too (`ParserInvariance`), since a
conversion leaves what was read alone. `FastPathUnused` proves `FastPathIdle`: what
Eisel-Lemire is given is a word other than 0, and the smallest exponent it can
find, for the smallest word and the smallest power of ten of the 128-bit path, is
`BinaryExp(-FastExp10)`. It gives up only below `EMin`; `LemireAssumption` puts
that exponent at `EMin` or above (-127 and -1022 in the code), and says that the
table reaches as far and holds pairs of words. `RefusalsAreLong` proves
`RefusesOnlyLong` by following a number of at most `ShortDigits` digits (two fewer
than a bigint has) through `ConvertBigint`. Multiplied by its power of ten it is
below 10^(MaxDecExp10 + 1), or is an overflow. Divided, it is an underflow or its
exponent is at least `-LongestExp10`, and after the common powers of two have been
taken out three things must still fit: the denominator, the numerator shifted until
the quotient has the bits of a significand (`NormalFits`; `FloorLog2Ratio` puts the
quotient between two neighbouring powers, so the shift is not one too many), and,
in the subnormal branch, both in units of the format (`SubnormalFits`); each time
with the doubled remainder. `CapacityAssumption` says that there is room for these
and nothing of the steps in between. It holds for binary64 in every build, whose
bigints have 96 limbs or more: the denominator with the significand needs 89, and
the units of the format leave one digit to spare whatever the number of limbs.

**`Parsers_proof`, the tiny parser**, under `TSpec`, from the assumptions of
`ParseTiny`: the largest significand and power of ten fit a word and twice their
product two words (10^19 < 2^64, 2 * 10^38 < 2^128), every number within the limits
is a normal one, and powers of two and ten are products as far as they are used
(`TinyPowersAssumption`, as `PowersAssumption` for the lexer). `ContractKept` and
`NearestAnswered` prove `TinyKeepsItsContract` and `TinyIsNearest` under `ShortTexts`:
the text is too short for its places behind the point to make up for an exponent that
no longer grows. In the code that is a text of at most 999981 bytes, and longer
texts do break the contract (section 6). The argument has two halves.

*Reading.* The tiny parser runs through the text on its own, in loops that `Gathered`
and `ExpPart` define by recursion on positions; the lexer goes symbol by symbol.
`CallInvariance` proves `CallInv`: *TwinInv* says phase by phase where the number
starts, where its point is, where its digits end and where its exponent starts, and
that the loops of the tiny parser over the positions read so far come to what the
lexer has counted: the same digits seen, as many of them as the limit allows, the same
number while there are not too many, the same exponent while neither has stopped
counting it. *TinyInv* adds that the answer is that of a call at the end. `NumberIs`
then finds the ends of the runs in the text where the lexer has left them.

*Converting.* `QuotientLeads` shows that two bit lengths and one comparison yield the
power of two just below the ratio and that the shift by it, across the words or within
them (`ShiftedIsProduct`), loses nothing; `DivisionIsDivision` that the loop of
doublings, comparisons and differences of pairs yields the quotient and its remainder,
by induction over its turns. `ConvertsToNearest` ties this to the definition of
"nearest": the two last bits of the quotient and whether anything remains decide as
the midpoints of the format do (`QuotientRounds`), a carry gives the next number
(`NormalUnits`), and within the limits the exponent is that of a normal number
(`LeadsInRange`), so nothing is refused on the way.

**`LongDivision_proof`**, from `OperandsAssumption` and `FracBitsAssumption`.
`Invariance` proves the loop invariant
`num * scale = (scale + frac) * den + rem` with `0 <= rem < den` and its
variants with a guard and a round bit; `Correctness` (nearest, ties to even),
`Exactness` (INEXACT exactly when something was lost) and `Width` (the hidden
bit stays in place, the carry included) follow from the lemma `Rounding` at the
last step. They hold for 52 fraction bits and any capacity as for any other.

`SearchInvariance` extends this to the search in front of it, from the assumptions
of `RatioSearch`: a bigint is a number below `LimbBase^MaxLimbs`, and the bits of
that many limbs are within the limits of the search (`kMaxPosQ`, `kMaxNegQ`:
32767, so up to 1092 limbs of 30 bits; a build has 512, or 256 for wasm). The invariant is
a window: the exponent looked for is from `q` on and below `q + Window`, where the
window is twice the step; every probe halves it, whether it is taken or passed
over, and a probe whose power does not fit a bigint is too large. With the last
step the window is 1 (`Normalization`), the ratio handed on is in [1, 2), and
`SearchedCorrectly` is the correctness of the whole.

**`BigintLimbs_proof`**, from the assumptions of `BigintLimbs`: the product of two
limbs fits a word (10^18 < 2^64), multipliers and table entries are small enough
for their products to fit too, tables hold the powers of their first entry, and a
limb is `BaseDigits` digits. `IInv` has one part per loop. Each says that what is
done and what is pending are together what the operation makes of the limbs it has
seen, for a product by m

    Value(limb, i) + carry * Power[i] = m * Value(old, i)

with the limbs from i on untouched, and for a difference, a division (which
comes down from the top) and the sum of a `to_u64` alike; and each bounds its carry,
borrow or remainder, which is why no word wraps and why at most one limb is
appended. `Answers` alone is not inductive, it speaks of the end of a call.
`Invariance` proves it; `Correctness` (every call that succeeds leaves its
number), `Kept` (a refused digit and a refused `to_u64` leave the number alone)
and `NeverWraps` follow. The least obvious step is `to_u64`: it
tells by comparing that a sum `value * 10^9 + limb` has wrapped. What has wrapped
is less than a limb and the value above it then is no less than one, so the
comparison misses none (`NoSilentWrap`); this needs the product of two limbs to fit.

`PowersCorrect` and `RefusesRightly` are about calls that loop over factors: a
power is the product so far times what is still to come (*PowersInv*), and what was
refused on the way, being only multiplied further, would not fit at its end. For a
division by a power of ten the limbs dropped and the remainders of the digits
dropped after them are together the remainder of the whole.
`CallsInvariance` carries all of it into `CSpec`, where a product by a `uint64_t` is
two products and a sum: *ProductInv* says what the number and the one that waits are
worth between the calls, the low product and its copy included, and that a loop at
work on one leaves the other alone. `ProductsCorrect` follows, and `CallsAnswer`:
every promise of the loops holds inside a product as well.
`TextIsTheNumber` takes the text from the top limb down: what a number is worth from
a limb on is what it is worth from the next one on, shifted by a limb, and the limb
(`NextUpper`), so the digits of a limb behind those of the limbs above it spell the number they make
together (`SpelledConcat`, `LimbsSpelled`). The digits counted by
`ryu_bigint_decimal_len` are the only number of digits without a leading zero, so
the word takes as many (`WordDigitsIs`) and the two texts are the same; and the tests
of the room before each limb come to the one test of the fast way (`RoomForAll`).

**`PrintfText_proof`**, from the assumptions of `PrintfRound`: `MaxDigits` is more
than the digits of any number met. `RoundedOnce` proves `RoundsAsAsked`.
The code never sees the number it drops: it cuts one digit less, and looks at the
last digit of that quotient and at whether anything is left behind it. The first
half of the proof shows this to decide as the remainder does, in each of the four modes, wherever
the cut lies among the limbs. The second follows the carry: rounding up 99..9
leaves one digit too many, only ever as a power of ten, so that dividing it away
loses nothing and the number stays the one rounded once (*ShrinkInv*), while the
exponent that decides the notation of `%g` moves with it (*EmitInv*).

The texts need two more invariants. `ShapeInv` (`DigitsInvariance`) says what the
emitting functions may count on: that the significant digits of `%e` and `%g` are just
as many as were asked for, or all zero, with the exponent and the places that go with
them; `RoundsAsAsked` speaks of the value only, and a text of too few digits would
be read with its point in the wrong place. `OutInv` (`TextInvariance`) says that what
is in the buffer is what the pieces come to there. The rest is about the operators.
`Texts_proof` shows what `Spelled` and `ValueOf` do to each other and to sums of
powers, that digits put behind each other are worth what they should be, and, for
any text made of a sign, digits, perhaps a point and digits, perhaps an exponent,
where `ReadAs` finds each of them (`Reads`, `ShownReads`): the sets of symbols the parts are
made of are disjoint, and the first point or exponent mark is the one put there.
`PrintfText_proof` shows that each of the notations is such a text, with the digits
of the rounded number cut at the right place and filled up with zeros at either end
(`DecimalBody`), and that trimming drops just zeros and perhaps the point
(`TrimmedShown`). `TextOfTheNumber` puts these together. For `InsideTheBuffer` the test before each
piece is compared with what the piece puts in, and all tests together with twice the text. It
assumes that no exponent has more than `MaxExpWidth` digits (`ExpWidthAssumption`).

`HexTextOfTheNumber` is the counterpart for `%a`, which does not share the code that
rounds: it cuts the bits of the fraction and decides by half of the cut. `HexRounds`
compares this with the number itself, the hidden bit included: the cut is a power
of sixteen, so its half is one too many or a tie where the number's is (`EvenCut`); the
bit that decides a tie is the last of the digits kept, or of the leading digit where
none is (`HexParity`); and a carry out of the fraction is one more in the digit before
the point (`Carry`). `RoundedScaled` takes the result to the units of the
smallest number. Without a precision the digits are those behind which the fraction
is zero, so nothing is rounded and the last one is not zero (`HexExact`). It assumes
that the exponents of the format reach from 0 or below to 0 or above and the equations of
powers up to the bits of the longest text (`HexAssumption`).

`DigitsReadBack` proves `EnoughDigitsReadBack` for every format and every precision
with 10^(digits - 1) > 2^Prec, which for binary64 is 17 digits and more. `WorthInv`
(`DecimalIsExact`) says that the decimal of `ryu_exact_decimal_from_bits` is the
number itself: digits * 2^UnitExp is the number's units times 10^scale, whether the code
multiplied by a power of two or traded one for a power of five. What is printed is
then at most half of its last place away from the number (`RoundedNear`), while a
neighbour is at least 1/2^Prec of the number away, on either side of a power of two
(`GapIs`); so with more than 2^Prec in the digits the midpoints to both neighbours
are further off than what was printed (`NearerThanGap`), and what lies between them
is nearest to no other number (`NearestBetween`). Where no digit is dropped the number
is only filled up with zeros and still itself (`FilledReadsBack`). `CutInv`
bounds what is dropped or filled up, and `ReachAssumption` asks that the powers of ten
`Nearest` tells apart reach past every number printed with the largest precision; both
are about the definition of nearest, which answers beyond its reach with a bound.

**`Shortest_proof`**, from the assumptions of `Shortest`: the format has fractions,
its ends are within the powers of ten told apart, the ends of every interval have at
most `MaxDigits` digits, and the literal in the source stands for the largest
number as briefly as possible (`LargestAssumption`; what the literal is worth is a
fact about one number, which TLC evaluates at the size of the instance). The
definition of "nearest" compares whole half units and what is left over; the search
compares decimals without their point. `Compare` shows the two to be one
comparison, `EndsWorth` that the ends the code computes, with numerators and
denominators of their own, are the midpoints. So what lies in the interval is
exactly what reads back (`InsideIsNearest`), an end belonging to it when the
significand is even. `Invariance` then proves that no power of ten above the one
tried has a multiple in the interval, and that the search stops at 10^0 at the
latest, since the number itself, scaled, is a whole number inside. `ReadsBackAlways`
and `IsShortestAlways` follow; for the latter, a decimal with fewer digits that
reads back either has a smaller exponent, and then at the exponent of the answer it
would be an even smaller multiple inside, or a larger one, and then the search has
passed it.

`TextReadsBackAlways` is about the text under `TSpec`, on top of `TextInvariance`
(what is in the buffer is the answer for the digits found). That both
notations fit their inner buffers needs a bound on the number of digits, which the code
has nowhere: `CoarserIsWider` and `FewDigits` take it from the interval. The neighbours of
a number of `Prec` bits are multiples of one unit (`UnitsStep`), so the interval
is at least 1/2^Prec of its upper end wide (`WideInterval`); had the answer more digits
than 10 * 2^Prec has, the next coarser power of ten would have a multiple in the
interval, and the search would have stopped there. `CapAssumption` asks that `sci`
(128 bytes in the code) has room for so many digits besides sign, point and exponent, and
`plain` (4096) for twice the digits any of the numbers has. `PlainIs` and `SciIs`
then show each notation to be a sign, digits, perhaps a point and an exponent, in the
cases of the code: a whole number filled up with zeros, a point between the digits, zeros
before them. The lemmas on reading are those of `printf` (`Texts_proof`), and
`ShorterIs` that the lengths compared are those of the two texts.

**`WitLocale_proof`**, from `LocaleAssumption`, `CapAssumption` and
`TextAssumption` (texts and the locale's bytes are sequences of bytes; the buffer
has room for one). `Inv` has a part for each thing the loop of
`normalize_locale_input` must keep in step: *FlagInv*, a separator is pending only
behind a digit, in the integer part and with room left in the buffer; *PlaceInv*,
between the places of two neighbouring bytes lies the first byte itself and nothing
else, or one separator between two digits, and so between the last byte and the
place the scan has come to; *SepInv*, where the bytes of the pending separator are
and, once the scan has ended, that no digit follows; *FirstInv*, a text that starts
with a digit gets past its first byte. `Places` then needs a fact about the
grammar: the parser never stops between two digits (`Parsed`, from `LongerNumeral`),
so the length it reports is never looked up in front of a separator.
`Refusals` holds for every size of the buffer: a scan that ends because the buffer is
full has no separator pending, since the loop takes up a separator only with room
left and a separator takes none of it.

**Out of the prover's reach**, and left to TLC: liveness (`EveryCallReturns`,
`AlwaysAnswers`); that the search of the shortest digits always has a step to take
is part of its invariant, that it is taken is fairness.
**Model-checked only so far**: of the parsers `NearestUnlessTie` and `OkIsExact` (they
would need of Eisel-Lemire's table that no product comes close to a tie without being
one, which is a fact about its entries); of the WIT layer `ParsesWhatItFormats`.

## 5. What is not modelled

* *The 128-bit path of the full parser* and the shifts and bit tests of three words
  that only it uses (`ryu64_parse_full.c` 73-150): `FastPathUnused` proves that
  nothing reaches it. The fallback of builds without the bigint
  (`ryu64_parse_full.c` 1331-1337) is the tiny parser, with "out of range" turned
  into "unsupported".
* *`ryu_format_scientific_fixed_sig`* (`ryu64_bigint.c:1224`) is called nowhere.
* *Subnormal numbers of the tiny parser* do not exist: it refuses them.
* *Table generators*: run once by hand; `ParseFull` models the entries of the table
  by the rounding the generator documents.
* *WIT*: the mapping of options and errors, widths beyond the buffers, `to-string`.
* *Instrumentation counters*: unsynchronised by design, in test builds only.
* *WASI harness, wasm headers, benchmarks, shell tools, tests*: input and output,
  or documentation of intent.

## 6. Where the code and the repository's sentences disagree

Each is a run that ends in a violation, and each was confirmed with the compiled
library.

1. `ParseTies`: `ryu_eisel_lemire_to_double` takes any bit below the round bit
   as proof that a value is not halfway (`src/src/ryu64_parse_full.c:304`). For
   a negative exponent the table entry was rounded up, and such bits are always
   there: `9007199254740993.0` is read as 9007199254740994, the odd neighbour of
   the tie. The comment at line 222 says "to the nearest IEEE-754 binary64".
2. `ParseTruncated`: the resolver returns the lower bound alone when the kept
   exponent is at most -350 (line 657), also when that bound is itself halfway
   and the dropped digits decide: `9007199254740993.` with 4600 zeros and a 1.
   `src/README.md:43` says a value is returned "only when both bounds map to the
   same binary64 result".
3. `PrintfDirected`: when more digits are dropped than the number has limbs for,
   `ryu_round_integer_div_pow10` answers 0 before it looks at the rounding mode
   (`src/src/ryu64_bigint.c:1305`): `%.2f` of 1e-10 toward +infinity is `0.00`.
   `src/wit/floats.wit:109` says "Round toward positive infinity."
4. `WitTruncated`: `normalize_locale_input` stops at a full buffer and reports
   what it has (`src/wit/floats_impl.c:433`), so a number may be cut in the middle
   and accepted. Its comment at line 389 promises "0 on error (invalid separator
   placement, buffer overflow)".

Met on the way and without runs of their own: the map of places keeps 16 bits of
each (`src/wit/floats_impl.c:412`), and separators as long as the caller likes may
push a place beyond them; `LengthIsConsumed` and its proof are about texts of fewer
than 65536 bytes. And `%g` trims zeros by the length it has
stored through `out_len`, also where the caller passed a null pointer
(`src/src/ryu64_printf.c:370`). `PrintfText` models the outcome as a crash of the
call, and `StaysInBuffer` and `TextSaysTheNumber` are about all other calls.

Met in the proof of the tiny parser, and confirmed with the compiled library: it
stops adding digits to the exponent at a million (`src/src/ryu64_parse_tiny.c:259`)
and adds the places behind the point to what it has by then. `0.`, 1000019 zeros and
`1e10000200`, whose exponent is far outside, is answered 1.0 and OK, where
`include/ryu64.h:114` says "Inputs outside the bounded contract return
RYU_PARSE_OUT_OF_RANGE." No text of at most 999981 bytes does this (`ContractKept`).
The full parser has the same cap at a hundred million (`ryu64_parse_full.c:868`) and
takes 1e1000000200 behind 100000019 zeros for 1.0; the texts of its runs are short of
that.

`NearestUnlessTie` and `RoundsAsAsked` state what does hold: outside these cases
the answer is correct, and inside them it is off by one place to a known side.

## 7. Plan

Done since the first version: the limbs and the calls made of them, the tiny
parser, the words, `%a`, the layout of all texts, the search for the power of two,
hexadecimal and signed texts in locales; and the proofs of section 4, last those
about powers, the search for the power of two, the longest numeral, the rounding
of `printf`, the shortest digits, the texts of both and of the bigint, the paths and the room of the
full parser, and the tiny parser from its text to its bits.
What is left, in order of what it adds:

1. **Proofs** for the exact conversion of `ParseFull`, against the definition of
   "nearest" on the lemmas that `ConvertsToNearest` rests on.
2. **Proofs about texts**: `ParsesWhatItFormats`, on the lemmas of `Texts_proof`.
3. **The conversion** of `ParseFull` refined by `RatioSearch`.
4. **WIT options and `to-string`**, and the **counters** of instrumented builds
   under threads.
