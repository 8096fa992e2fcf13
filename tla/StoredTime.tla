----------------------------- MODULE StoredTime -----------------------------
(***************************************************************************)
(* How the SQLite tables order instants.                                   *)
(*                                                                         *)
(* encodeTime writes an instant as RFC3339Nano text, which drops the       *)
(* trailing zeros of the fraction ("...:05.5Z", and "...:05Z" for a whole  *)
(* second).  SQL then compares the texts byte by byte, and the closing 'Z' *)
(* sorts after '.' and after every digit.  So within one second the order  *)
(* of the texts is not the order of the instants: "05.52Z" < "05.5Z" and   *)
(* both are < "05Z".  Down to the second the text has a fixed width and    *)
(* the two orders agree.                                                   *)
(*                                                                         *)
(* Instants are integers that count ticks of the last digit kept; Units    *)
(* holds the place values of the fraction's digits, from 1 (the last       *)
(* digit) to Second (the digits of the whole second).                      *)
(***************************************************************************)
EXTENDS Integers

CONSTANTS
    Second,     \* ticks in a second
    Units       \* place values at which a text can end

ASSUME SecondAssumption == Second \in Nat \ {0}
ASSUME UnitsAssumption == Units \subseteq 1..Second /\ Second \in Units

\* The text of instant a continues the text of instant b: the text of b
\* ends at place u (its digits below are zeros, dropped) and a has the same
\* digits down to u.
Extends(a, b) ==
    /\ a # b
    /\ \E u \in Units : b % u = 0 /\ a \div u = b \div u

\* Byte order of the two texts: a continuation sorts before the shorter
\* text it continues, otherwise the first different digit decides.
TextLess(a, b) ==
    \/ Extends(a, b)
    \/ a < b /\ ~Extends(b, a)

\* The comparison column <= ? of the SQL filters.
TextLE(a, b) == a = b \/ TextLess(a, b)
=============================================================================
