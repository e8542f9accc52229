----------------------------- MODULE IntegerMac -----------------------------
(***************************************************************************)
(* The register-transfer description integer_mac_scaled: integer_mac.sv    *)
(* followed by integer_output_convert.sv (public/generic_rtl/mac), one     *)
(* action per kind of clock edge, wires as operators that keep their       *)
(* width.  It runs side by side with ModelC on the same inputs, as in the  *)
(* conformance test benches, but with every sequence of edges: valid gaps, *)
(* consecutive and abandoned dot products, resets at any time, registers   *)
(* that hold anything before the first reset.  Operators marked "Faulty"   *)
(* are plausible mistakes that must break a property.                      *)
(***************************************************************************)
EXTENDS ModelC

VARIABLES
  acc_q, result, mac_valid,       \* registers of integer_mac
  output_code, output_valid,      \* registers of integer_output_convert
  open                            \* the caller is within a dot product

macVars == <<acc_q, result, mac_valid, output_code, output_valid>>
allVars == <<scale_exp, relu, sum, biased, stored,
             acc_q, result, mac_valid, output_code, output_valid, open>>

\* A wire of the given width.
Unsigned(value, bits) == value % 2^bits

Signed(value, bits) ==
  LET u == Unsigned(value, bits) IN IF u >= 2^(bits - 1) THEN u - 2^bits ELSE u

ACC_MAX == 2^(ACC_BITS - 1) - 1
ACC_MIN == -(2^(ACC_BITS - 1))

-----------------------------------------------------------------------------
(* integer_mac *)

saturate(value) ==
  IF value > ACC_MAX THEN ACC_MAX
  ELSE IF value < ACC_MIN THEN ACC_MIN
  ELSE Signed(value, ACC_BITS)

product(weight, activation) == Signed(weight * activation, W_BITS + A_BITS)

mac_rounded(weight, activation, dot_start) ==
  LET base_ext == IF dot_start THEN 0 ELSE acc_q IN
  saturate(Signed(base_ext + product(weight, activation), ACC_BITS + 1))

biased_result(rounded, bias) == saturate(Signed(rounded + bias, ACC_BITS + 1))

-----------------------------------------------------------------------------
(* integer_output_convert *)

Wide == ACC_BITS + 1

limit(negative) == IF negative THEN 2^(OUT_BITS - 1) ELSE 2^(OUT_BITS - 1) - 1

\* Faulty: a tie is rounded up whatever the quotient.
RoundHalfUp(magnitude, shift) ==
  LET quotient == magnitude \div 2^shift
      remainder == magnitude % 2^shift
      halfway == 2^(shift - 1)
  IN Unsigned(quotient + (IF remainder >= halfway THEN 1 ELSE 0), Wide)

round_right(magnitude, shift) ==
  LET quotient == magnitude \div 2^shift
      remainder == magnitude % 2^shift
      halfway == 2^(shift - 1)
      round_up == remainder > halfway \/ (remainder = halfway /\ quotient % 2 = 1)
  IN Unsigned(quotient + (IF round_up THEN 1 ELSE 0), Wide)

\* The comparison comes before the shift: the shift itself cannot overflow.
shift_left(magnitude, shift, bound) ==
  IF magnitude > bound \div 2^shift THEN bound + 1 ELSE Unsigned(magnitude * 2^shift, Wide)

signed_value(code) ==
  LET negative == code < 0
      magnitude == Unsigned(IF negative THEN -code ELSE code, Wide)
      rounded_magnitude == IF scale_exp < 0 THEN round_right(magnitude, -scale_exp)
                           ELSE shift_left(magnitude, scale_exp, limit(negative))
      bounded_magnitude == IF rounded_magnitude > limit(negative) THEN limit(negative)
                           ELSE rounded_magnitude
      signed_magnitude == Unsigned(bounded_magnitude, OUT_BITS)
  IN IF relu /\ negative THEN 0 ELSE IF negative THEN -signed_magnitude ELSE signed_magnitude

Convert ==
  /\ output_valid' = mac_valid
  /\ output_code' = IF mac_valid THEN Signed(signed_value(result), OUT_BITS) ELSE output_code

-----------------------------------------------------------------------------
(* Clock edges *)

\* Registers are undefined until the first reset, which is the first edge.
MacInit ==
  /\ ModelInit
  /\ acc_q \in Codes(ACC_BITS) /\ result \in Codes(ACC_BITS) /\ mac_valid \in BOOLEAN
  /\ output_code \in Codes(OUT_BITS) /\ output_valid \in BOOLEAN
  /\ open = "unknown"

Reset ==
  /\ acc_q' = 0 /\ result' = 0 /\ mac_valid' = FALSE
  /\ output_code' = 0 /\ output_valid' = FALSE
  /\ ModelReset
  /\ open' = "no"
  /\ UNCHANGED configVars

\* input_valid: dot products are well formed, though one may be abandoned by
\* the start of the next.
Product(weight, activation, dot_start, dot_end, bias) ==
  LET rounded == mac_rounded(weight, activation, dot_start) IN
  /\ open # "unknown" /\ (dot_start \/ open = "yes")
  /\ acc_q' = rounded
  /\ mac_valid' = dot_end
  /\ result' = IF dot_end THEN biased_result(rounded, bias) ELSE result
  /\ Convert
  /\ ModelProduct(weight, activation, dot_start, dot_end, bias)
  /\ open' = IF dot_end THEN "no" ELSE "yes"
  /\ UNCHANGED configVars

Idle ==
  /\ open # "unknown"
  /\ mac_valid' = FALSE
  /\ Convert
  /\ ModelIdle
  /\ UNCHANGED <<acc_q, result, open, scale_exp, relu>>

\* The bias matters on the end cycle only.
MacNext ==
  \/ Reset
  \/ Idle
  \/ \E weight \in Codes(W_BITS), activation \in Codes(A_BITS), dot_start \in BOOLEAN :
       \/ Product(weight, activation, dot_start, FALSE, 0)
       \/ \E bias \in Biases : Product(weight, activation, dot_start, TRUE, bias)

MacSpec == MacInit /\ [][MacNext]_allVars

-----------------------------------------------------------------------------
(* Properties *)

\* After a reset, the raw output and, one edge later, the stored output are
\* valid exactly when a dot product has ended, and are the codes of Model C for
\* it: "matches public.inference.reference.arithmetic.model_c", no wire is too
\* narrow for the largest magnitude, and no gap, reset or neighbour leaks in.
OutputsAreModelC ==
  open # "unknown" =>
    /\ mac_valid <=> biased # Nothing
    /\ output_valid <=> stored # Nothing
    /\ mac_valid => result = biased
    /\ output_valid => output_code = stored

=============================================================================
