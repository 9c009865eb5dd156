-------------------------------- MODULE Rand --------------------------------
(***************************************************************************)
(* The random number generator of the library (src/src/random.rs).         *)
(***************************************************************************)
EXTENDS Integers, Sequences

CONSTANTS Multiplier,   \* 279410273
          Modulus,      \* 4294967291
          Word,         \* number of values of a u32
          MaxU16,       \* u16::MAX
          Seeds,        \* numbers that a program may pass to new
          MaxCalls      \* bound: numbers drawn

ASSUME RandAssumption ==
    /\ Multiplier \in Nat \ {0} /\ MaxU16 \in Nat \ {0} /\ MaxCalls \in Nat
    /\ Modulus \in Nat \ {0} /\ Word \in Nat /\ Modulus <= Word
    /\ Seeds \subseteq 0 .. Word - 1

\* The modulus is prime and does not divide the multiplier: a product is
\* divisible by the modulus only if the seed is.
ASSUME PrimeAssumption ==
    \A s \in 0 .. Word - 1 : s % Modulus # 0 => (s * Multiplier) % Modulus # 0

U16Numbers == 0 .. MaxU16

VARIABLES seed,       \* Random::seed
          first,      \* history: the seed at the beginning
          returned    \* history: [value, min, max] of every number drawn

randVars == <<seed, first, returned>>

\* Random::new
New == seed \in Seeds /\ first = seed /\ returned = <<>>

\* MUTANT: the product is made in 32 bits, without the cast to u64.
AdvanceNarrow == /\ Len(returned) < MaxCalls
                 /\ seed' = ((seed * Multiplier) % Word) % Modulus
                 /\ first' = first

\* The generator returns its seed and then makes the next one.
Advance == /\ Len(returned) < MaxCalls
           /\ seed' = (seed * Multiplier) % Modulus
           /\ first' = first

NextU32 == /\ Advance
           /\ returned' = Append(returned, [value |-> seed, min |-> 0, max |-> Word])

\* MUTANT: `max` is a possible result.
PickInclusive(n, min, max) == ((n % (max - min + 1)) + min) % MaxU16

\* The number of range_u16 for the next number n of the generator.
Pick(n, min, max) == ((n % (max - min)) + min) % MaxU16

\* range_u16 of an empty range panics (n % 0, or max - min below zero).
RangeU16(min, max) ==
    /\ min < max
    /\ Advance
    /\ returned' = Append(returned, [value |-> Pick(seed, min, max),
                                     min |-> min, max |-> max])

Draws == NextU32 \/ \E min, max \in U16Numbers : RangeU16(min, max)

RandSpec == New /\ [][Draws]_randVars

-----------------------------------------------------------------------------

RandOK == /\ seed \in 0 .. Word - 1
          /\ first \in Seeds
          /\ returned \in Seq([value : Nat, min : Nat, max : Nat])

\* What was asked for is what comes: the upper end is exclusive, and the last
\* remainder, by the largest u16 and not by the number of them, never changes
\* anything (random.rs:24-26).
InRange == \A i \in DOMAIN returned :
               returned[i].min <= returned[i].value /\ returned[i].value < returned[i].max

\* The generator gets stuck at 0 for the seeds 0 and Modulus only (random.rs:16).
NeverStuck == first % Modulus # 0 => seed # 0

=============================================================================
