-------------------------------- MODULE Word --------------------------------
(***************************************************************************)
(* Arithmetic on machine words of Bits bits: what the fetch operations of  *)
(* c89atomic.h compute, and what they are meant to compute, for unsigned   *)
(* operands and, through the casts of the wrappers, for signed ones.       *)
(***************************************************************************)
EXTENDS Integers, FiniteSets
LOCAL INSTANCE Bitwise
LOCAL INSTANCE FiniteSetsExt

CONSTANT Bits

ASSUME BitsAssumption == Bits \in Nat \ {0}

Modulus == 2^Bits

Word == 0 .. Modulus - 1

\* (c89atomic_uint)(-(c89atomic_int)src): sign change in two's complement.
Negated(s) == (Modulus - s) % Modulus

\* A subtraction is the addition of the negated operand on every path that
\* has no subtraction of its own.
WordArith(op, v, s) ==
    CASE op = "fetch_add" -> (v + s) % Modulus
      [] op = "fetch_sub" -> (v + Negated(s)) % Modulus
      [] op = "fetch_and" -> v & s
      [] op = "fetch_or"  -> v | s
      [] op = "fetch_xor" -> v ^^ s

\* The meaning, on the integers and on the sets of bits that are 1.
Ones(v) == {i \in 0 .. Bits - 1 : (v \div 2^i) % 2 = 1}

WordOf(S) == MapThenSumSet(LAMBDA i : 2^i, S)

MeantArith(op, v, s) ==
    CASE op = "fetch_add" -> (v + s) % Modulus
      [] op = "fetch_sub" -> (v - s) % Modulus
      [] op = "fetch_and" -> WordOf(Ones(v) \intersect Ones(s))
      [] op = "fetch_or"  -> WordOf(Ones(v) \union Ones(s))
      [] op = "fetch_xor" -> WordOf((Ones(v) \ Ones(s)) \union (Ones(s) \ Ones(v)))

-----------------------------------------------------------------------------
(* The wrappers for signed integers cast to the word and back.             *)

SignBit == 2^(Bits - 1)

SignedWord == -SignBit .. SignBit - 1

\* (c89atomic_uint<w>)src
Pattern(i) == i % Modulus

\* (c89atomic_int<w>)result
SignedOf(v) == IF v < SignBit THEN v ELSE v - Modulus

SignedArith(op, v, s) == SignedOf(WordArith(op, Pattern(v), Pattern(s)))

\* The meaning: sums wrap around, and the sign bit counts negatively.
Wrapped(n) == CHOOSE i \in SignedWord : (i - n) % Modulus = 0

NumberOf(S) ==
    MapThenSumSet(LAMBDA i : IF i = Bits - 1 THEN -SignBit ELSE 2^i, S)

BitsOf(i) == CHOOSE S \in SUBSET (0 .. Bits - 1) : NumberOf(S) = i

MeantSignedArith(op, v, s) ==
    CASE op = "fetch_add" -> Wrapped(v + s)
      [] op = "fetch_sub" -> Wrapped(v - s)
      [] op = "fetch_and" -> NumberOf(BitsOf(v) \intersect BitsOf(s))
      [] op = "fetch_or"  -> NumberOf(BitsOf(v) \union BitsOf(s))
      [] op = "fetch_xor" ->
            NumberOf((BitsOf(v) \ BitsOf(s)) \union (BitsOf(s) \ BitsOf(v)))
=============================================================================
