------------------------------- MODULE ModelC -------------------------------
(***************************************************************************)
(* The reference arithmetic of an integer dot product with a quantized     *)
(* output: model_c over an integer Accumulator                             *)
(* (public/inference/reference/arithmetic.py) followed by the oracle of    *)
(* the output conversion (oracle_code of                                   *)
(* tools/hardware/integer_output_conversion.py, NumberFormat.encode).      *)
(* Products arrive one by one; a dot product ends with its bias, and its   *)
(* output code follows one step later.  A step may also bring nothing, or  *)
(* reset everything.  Codes stand for the integers they encode.            *)
(***************************************************************************)
EXTENDS Integers

CONSTANTS
  W_BITS, A_BITS,   \* widths of the operands
  ACC_BITS,         \* of the accumulator and the bias
  OUT_BITS,         \* of the stored output
  ScaleExps,        \* the output scales 2^e considered
  Biases            \* the bias codes considered

ASSUME ModelCAssumption ==
  /\ W_BITS \in Nat \ {0} /\ A_BITS \in Nat \ {0} /\ OUT_BITS \in Nat \ {0}
  /\ ACC_BITS \in Nat /\ ACC_BITS >= W_BITS + A_BITS /\ ACC_BITS >= OUT_BITS
  /\ ScaleExps \subseteq (-ACC_BITS)..OUT_BITS
  /\ Biases \subseteq (-(2^(ACC_BITS - 1)))..(2^(ACC_BITS - 1) - 1)

VARIABLES
  scale_exp, relu,  \* the configuration, fixed
  sum,              \* the running sum of the dot product
  biased,           \* the dot product that ended in the last step, or Nothing
  stored            \* the output code of the one that ended a step before

configVars == <<scale_exp, relu>>
modelVars == <<sum, biased, stored>>

Codes(bits) == (-(2^(bits - 1)))..(2^(bits - 1) - 1)
Nothing == 2^ACC_BITS    \* no code of any width

Distance(x, y) == IF x < y THEN y - x ELSE x - y

\* Accumulator.rounded: every integer in range is a code, others saturate.
Rounded(value) ==
  IF value \in Codes(ACC_BITS) THEN value
  ELSE IF value < 0 THEN -(2^(ACC_BITS - 1)) ELSE 2^(ACC_BITS - 1) - 1

\* NumberFormat.encode of n / d: the nearest code, of two the even one.
Encoded(n, d) ==
  LET nearest == {c \in Codes(OUT_BITS) :
                    \A o \in Codes(OUT_BITS) : Distance(c * d, n) <= Distance(o * d, n)}
  IN CHOOSE c \in nearest : c % 2 = 0 \/ nearest = {c}

oracle_code(code) ==
  LET value == IF relu /\ code < 0 THEN 0 ELSE code IN
  IF scale_exp < 0 THEN Encoded(value, 2^(-scale_exp)) ELSE Encoded(value * 2^scale_exp, 1)

\* One step of the loop of model_c: round after each exact product is added.
Added(base, product) == Rounded(base + product)

ModelInit ==
  /\ scale_exp \in ScaleExps
  /\ relu \in BOOLEAN
  /\ sum = 0 /\ biased = Nothing /\ stored = Nothing

Follow == stored' = IF biased = Nothing THEN Nothing ELSE oracle_code(biased)

ModelProduct(weight, activation, dot_start, dot_end, bias) ==
  LET base == IF dot_start THEN 0 ELSE sum IN
  /\ sum' = Added(base, activation * weight)
  /\ biased' = IF dot_end THEN Rounded(sum' + bias) ELSE Nothing
  /\ Follow

ModelIdle == biased' = Nothing /\ Follow /\ UNCHANGED sum

ModelReset == sum' = 0 /\ biased' = Nothing /\ stored' = Nothing

=============================================================================
