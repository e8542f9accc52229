---------------------------- MODULE MCIntegerMac ----------------------------
(* Two-bit operands into a four-bit accumulator, which three products      *)
(* overflow in either direction; every scale the width admits.             *)
EXTENDS IntegerMac

MCScales == (-ACC_BITS)..OUT_BITS
MCBiases == {ACC_MIN, -1, 0, 1, ACC_MAX}

=============================================================================
