-------------------------- MODULE StoredTime_proofs --------------------------
(***************************************************************************)
(* What the order of stored texts is worth, for every resolution: it is    *)
(* total, and differs from the order of the instants by less than a        *)
(* second.                                                                 *)
(***************************************************************************)
EXTENDS StoredTime, TLAPS

\* Instants that agree above place u differ by less than u.
LEMMA SamePlace ==
    ASSUME NEW a \in Int, NEW b \in Int, NEW u \in Nat \ {0}, a \div u = b \div u
    PROVE  a - b < u
<1> DEFINE q == a \div u
<1>1. q \in Int /\ u * q <= a /\ a < u * q + u
  OBVIOUS
<1>2. u * q <= b /\ b < u * q + u
  OBVIOUS
<1> HIDE DEF q
<1>3. u * q \in Int
  BY <1>1
<1> QED BY <1>1, <1>2, <1>3

\* A text continues another only within a second of it.
LEMMA ExtendsNear ==
    ASSUME NEW a \in Int, NEW b \in Int, Extends(a, b)
    PROVE  a - b < Second /\ b - a < Second
<1>1. PICK u \in Units : b % u = 0 /\ a \div u = b \div u
  BY DEF Extends
<1>2. u \in Nat \ {0} /\ u <= Second
  BY UnitsAssumption, SecondAssumption
<1>3. a - b < u
  BY <1>1, <1>2, SamePlace
<1>4. b - a < u
  BY <1>1, <1>2, SamePlace
<1> QED BY <1>2, <1>3, <1>4, SecondAssumption

\* An instant without digits below place u is a multiple of u.
LEMMA WholePlaces ==
    ASSUME NEW b \in Int, NEW u \in Nat, u > 0, b % u = 0
    PROVE  b = u * (b \div u)
<1>1. b = u * (b \div u) + (b % u)
  OBVIOUS
<1>2. u * (b \div u) \in Int
  OBVIOUS
<1> QED BY <1>1, <1>2

LEMMA RoundedDown ==
    ASSUME NEW a \in Int, NEW u \in Nat, u > 0
    PROVE  u * (a \div u) <= a
OBVIOUS

\* A longer text is a later instant.
LEMMA ExtendsLater ==
    ASSUME NEW a \in Int, NEW b \in Int, Extends(a, b)
    PROVE  b < a
<1>1. PICK u \in Units : b % u = 0 /\ a \div u = b \div u
  BY DEF Extends
<1>2. u \in Nat /\ u > 0
  BY UnitsAssumption, SecondAssumption
<1>3. b = u * (b \div u)
  BY <1>1, <1>2, WholePlaces
<1>4. u * (a \div u) <= a
  BY <1>2, RoundedDown
<1>5. b <= a
  BY <1>1, <1>3, <1>4
<1>6. a # b
  BY DEF Extends
<1> QED BY <1>5, <1>6

\* A filter lets an instant through less than a second early (TextLE).
THEOREM EarlyByLessThanASecond ==
    ASSUME NEW a \in Int, NEW b \in Int, TextLE(a, b)
    PROVE  a < b + Second
BY ExtendsNear, SecondAssumption DEF TextLE, TextLess

\* A filter has let every instant through a second after it (TextLE).
THEOREM DueWithinASecond ==
    ASSUME NEW a \in Int, NEW b \in Int, a + Second <= b
    PROVE  TextLE(a, b)
<1>1. ~Extends(b, a)
  BY ExtendsNear, SecondAssumption
<1> QED BY <1>1, SecondAssumption DEF TextLE, TextLess

\* Of two instants one is stored before the other, and only one (TextLess).
THEOREM TextOrderTotal ==
    ASSUME NEW a \in Int, NEW b \in Int, a # b
    PROVE  TextLess(a, b) <=> ~TextLess(b, a)
BY ExtendsLater DEF TextLess
=============================================================================
