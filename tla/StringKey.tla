----------------------------- MODULE StringKey ------------------------------
(***************************************************************************)
(* serialize_string_key (src/storage/b_plus_tree/b_plus_tree.cc:10-20):    *)
(* the integer a string is indexed by, and the order strings are compared  *)
(* in (src/relational_model/value.cc:82-96).  Strings are sequences of     *)
(* bytes 1 .. 255; char is signed, as where the repository is built.       *)
(***************************************************************************)
EXTENDS Integers, Sequences

CONSTANT KeyBytes  \* bytes of a string that go into its key: 8 in the code

ASSUME KeyBytesAssumption == KeyBytes \in Nat \ {0}

SignedChar(byte) == IF byte >= 128 THEN byte - 256 ELSE byte

(* The shift of byte k of a string.                                        *)
Shift(k) == 8 * (KeyBytes - k)

(* 2^shift, for the shifts there are.                                      *)
Power(shift) ==
  LET power[n \in 0 .. 8 * KeyBytes] == IF n = 0 THEN 1 ELSE 2 * power[n - 1]
  IN power[shift]

(* res |= byte64 << shift: the bits of res from shift on are zero, and a   *)
(* negative byte64 has all of its upper bits set.                          *)
OrShifted(res, byte64, shift) == IF byte64 < 0 THEN byte64 * Power(shift) ELSE res + byte64 * Power(shift)

serialize_string_key(str) ==
  LET key[k \in 0 .. KeyBytes] ==
        IF k = 0 THEN 0
        ELSE IF k > Len(str) THEN key[k - 1]
        ELSE OrShifted(key[k - 1], SignedChar(str[k]), Shift(k))
  IN key[KeyBytes]

(* strcmp(a, b) < 0                                                        *)
StrcmpLess(a, b) ==
  \E k \in 0 .. Len(a) :
    /\ k < Len(b)
    /\ \A i \in 1 .. k : a[i] = b[i]
    /\ k < Len(a) => a[k + 1] < b[k + 1]

=============================================================================
