------------------------------ MODULE Numbers ------------------------------
(***************************************************************************)
(* The conversions of common/utils.c from numbers to strings.  A string is *)
(* the sequence of the characters that are written, its terminating NUL    *)
(* included; a character is an integer, a digit its value, and what the    *)
(* code makes of the remainder of a negative number is that remainder.     *)
(*                                                                         *)
(* A float is given in sixteenths: such numbers are represented exactly,   *)
(* as are their products with the powers of ten in use, so that no         *)
(* rounding takes place.  An int has its limits: the code converts the     *)
(* digits behind the point to one, however many there are.                 *)
(***************************************************************************)
EXTENDS Integers, Sequences

CONSTANT INT_MAX      \* the largest int

ASSUME IntAssumption == INT_MAX \in Nat \ {0}

INT_MIN == -INT_MAX - 1

Dot == 46
NUL == 100

\* Division of C, which truncates towards zero.
Trunc(a, b) == IF a >= 0 THEN a \div b ELSE -((-a) \div b)

\* (int)x of a floating point number with whole part x.  Out of range it is
\* undefined: x86 gives INT_MIN, ARM the int that is nearest.
to_int(x) ==
  IF x > INT_MAX THEN {INT_MIN, INT_MAX} ELSE IF x < INT_MIN THEN {INT_MIN} ELSE {x}

\* while (x) { str[i++] = (x%10) + '0'; x = x/10; }
digits[n \in Nat] == IF n = 0 THEN <<>> ELSE <<n % 10>> \o digits[n \div 10]
itoa_loop(x) ==
  IF x >= 0 THEN digits[x] ELSE [k \in 1 .. Len(digits[-x]) |-> -digits[-x][k]]

posixc_reverse(s) == [k \in 1 .. Len(s) |-> s[Len(s) + 1 - k]]

\* The size that is returned does not count the NUL.
posixc_itoa(x) == posixc_reverse(itoa_loop(x)) \o <<NUL>>
size_itoa(x) == Len(posixc_itoa(x)) - 1

posixc_itoa_padding_zeros(x, d) ==
  LET s == itoa_loop(x) IN
  posixc_reverse(s \o [k \in 1 .. d - Len(s) |-> 0]) \o <<NUL>>

\* The part of q behind the point, times ten to the power of afterpoint.
Fraction(q, ipart, afterpoint) == Trunc((q - 16 * ipart) * 10 ^ afterpoint, 16)

\* posixc_ftoa once ipart is known: what it may write, and the size it returns.
\* With no digit after the point that size counts the NUL of posixc_itoa.
ftoa_from(q, ipart, afterpoint) ==
  {[str  |-> IF afterpoint = 0 THEN posixc_itoa(ipart)
             ELSE SubSeq(posixc_itoa(ipart), 1, size_itoa(ipart)) \o <<Dot>> \o
                  posixc_itoa_padding_zeros(fpart, afterpoint),
    size |-> size_itoa(ipart) + afterpoint + 1]
     : fpart \in to_int(Fraction(q, ipart, afterpoint))}

\* The digits after the point are cut down to what maxbytes hold.
ftoa_afterpoint(ipart, afterpoint, maxbytes) ==
  IF size_itoa(ipart) + afterpoint + 1 > maxbytes
  THEN maxbytes - size_itoa(ipart) - 1 ELSE afterpoint

posixc_ftoa_within_given_bytes(q, afterpoint, maxbytes) ==
  UNION {ftoa_from(q, ipart, ftoa_afterpoint(ipart, afterpoint, maxbytes))
           : ipart \in to_int(Trunc(q, 16))}

\* The same with double for float.
posixc_dtoa_within_given_bytes(q, afterpoint, maxbytes) ==
  posixc_ftoa_within_given_bytes(q, afterpoint, maxbytes)

-----------------------------------------------------------------------------
(* What the strings should be, digit by digit.                             *)

\* The k-th digit, from the left, of a number of n digits.
Numeral(x) ==
  LET n == CHOOSE m \in 1 .. x : 10 ^ (m - 1) <= x /\ x < 10 ^ m
  IN  [k \in 1 .. n |-> (x \div 10 ^ (n - k)) % 10]

\* Whole part, point, and a digits after it.
Decimal(q, a) ==
  Numeral(q \div 16) \o <<Dot>> \o [k \in 1 .. a |-> ((q * 10 ^ k) \div 16) % 10]
=============================================================================
