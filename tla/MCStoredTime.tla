----------------------------- MODULE MCStoredTime -----------------------------
(***************************************************************************)
(* StoredTime against the texts themselves.  Two digits of base Base stand *)
(* for the nine decimal digits of a nanosecond.                            *)
(***************************************************************************)
EXTENDS Integers, Sequences

Base == 3

Digits == INSTANCE StoredTime WITH Second <- Base * Base, Units <- {1, Base, Base * Base}

\* Byte ranks: the point sorts before the digits, the closing Z after them.
Point == 0
Digit(d) == d + 1
Zulu == Base + 1

Fraction(t) == t % (Base * Base)

\* The text that RFC3339Nano gives t; what precedes the fraction is one symbol.
Text(t) ==
    <<t \div (Base * Base)>> \o
    (IF Fraction(t) = 0 THEN <<>>
     ELSE IF Fraction(t) % Base = 0 THEN <<Point, Digit(Fraction(t) \div Base)>>
     ELSE <<Point, Digit(Fraction(t) \div Base), Digit(Fraction(t) % Base)>>) \o <<Zulu>>

\* Byte order of texts, none of which begins another.
Before(x, y) ==
    \E i \in DOMAIN x \cap DOMAIN y : x[i] < y[i] /\ \A k \in 1..(i - 1) : x[k] = y[k]

\* TextLess is the byte order of the stored texts (encodeTime, and the comparisons of
\* the SQL statements): every pair of instants of three seconds and their borders.
ASSUME TextOrderIsByteOrder ==
    \A a, b \in 0..(3 * Base * Base + 1) : Digits!TextLess(a, b) <=> Before(Text(a), Text(b))
=============================================================================
