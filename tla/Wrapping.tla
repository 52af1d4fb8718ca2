------------------------------ MODULE Wrapping ------------------------------
(***************************************************************************)
(* Facts about counters that wrap and buffers that are circular: what      *)
(* remainders do to sums and differences.                                  *)
(***************************************************************************)
EXTENDS Integers, TLAPS

\* The parts of a division.
LEMMA DivMod ==
  ASSUME NEW m \in Nat, m > 0, NEW x \in Int
  PROVE  /\ x \div m \in Int
         /\ (x % m) \in Int /\ 0 <= (x % m) /\ (x % m) < m
         /\ x = (m * (x \div m)) + (x % m)
BY SMT

\* A multiple of m that is nearer to 0 than m is 0.
LEMMA SmallMultiple ==
  ASSUME NEW m \in Nat, m > 0, NEW q \in Int, -m < m * q, m * q < m
  PROVE  q = 0
<1>1. CASE q <= -1 BY <1>1
<1>2. CASE q >= 1 BY <1>2
<1> QED BY <1>1, <1>2

\* The remainder is the only one of its kind.
LEMMA ModUnique ==
  ASSUME NEW m \in Nat, m > 0, NEW x \in Int, NEW q \in Int, NEW r \in Int,
         0 <= r, r < m, x = (m * q) + r
  PROVE  (x % m) = r
<1> DEFINE p == x \div m
           s == x % m
<1>1. p \in Int /\ s \in Int /\ 0 <= s /\ s < m /\ x = (m * p) + s
  BY DivMod
<1> HIDE DEF p, s
<1>2. (m * p) - (m * q) = r - s
  BY <1>1
<1>3. m * (p - q) = r - s
  BY <1>1, <1>2
<1>4. p - q \in Int /\ -m < m * (p - q) /\ m * (p - q) < m
  BY <1>1, <1>3
<1>5. p - q = 0
  BY <1>4, SmallMultiple
<1>6. s = r
  BY <1>1, <1>3, <1>5
<1> QED BY <1>6 DEF s

\* A number that fits is its own remainder.
LEMMA ModSmall ==
  ASSUME NEW m \in Nat, m > 0, NEW x \in Int, 0 <= x, x < m
  PROVE  (x % m) = x
<1>1. x = (m * 0) + x OBVIOUS
<1> QED BY <1>1, ModUnique

\* A step ahead that stays below the end, and one that passes it.
LEMMA ModStep ==
  ASSUME NEW m \in Nat, m > 0, NEW x \in Int, NEW j \in Int, 0 <= j
  PROVE  /\ (x % m) + j < m => ((x + j) % m) = (x % m) + j
         /\ m <= (x % m) + j /\ (x % m) + j < 2 * m
              => ((x + j) % m) = ((x % m) + j) - m
<1> DEFINE p == x \div m
           s == x % m
<1>1. p \in Int /\ s \in Int /\ 0 <= s /\ s < m /\ x = (m * p) + s
  BY DivMod
<1> HIDE DEF p, s
<1>2. ASSUME s + j < m PROVE ((x + j) % m) = s + j
  <2>1. x + j = (m * p) + (s + j) BY <1>1
  <2>2. x + j \in Int /\ s + j \in Int /\ 0 <= s + j BY <1>1
  <2> QED BY <1>1, <1>2, <2>1, <2>2, ModUnique
<1>3. ASSUME m <= s + j, s + j < 2 * m PROVE ((x + j) % m) = (s + j) - m
  <2>1. x + j = (m * (p + 1)) + ((s + j) - m) BY <1>1
  <2>2. x + j \in Int /\ p + 1 \in Int /\ (s + j) - m \in Int
        /\ 0 <= (s + j) - m /\ (s + j) - m < m
    BY <1>1, <1>3
  <2> QED BY <2>1, <2>2, ModUnique
<1> QED BY <1>2, <1>3 DEF s

\* The difference of two wrapped counters is the difference of the counts,
\* as long as that fits the word; a negative one shows as its complement.
LEMMA ModDiff ==
  ASSUME NEW m \in Nat, m > 0, NEW a \in Int, NEW b \in Int
  PROVE  /\ 0 <= a - b /\ a - b < m => (((a % m) - (b % m)) % m) = a - b
         /\ -m <= a - b /\ a - b < 0
              => (((a % m) - (b % m)) % m) = (a - b) + m
<1> DEFINE p == a \div m
           q == b \div m
           s == a % m
           t == b % m
<1>1. p \in Int /\ s \in Int /\ a = (m * p) + s
  BY DivMod
<1>2. q \in Int /\ t \in Int /\ b = (m * q) + t
  BY DivMod
<1> HIDE DEF p, q, s, t
<1>3. s - t = (m * (q - p)) + (a - b)
  BY <1>1, <1>2
<1>4. s - t = (m * ((q - p) - 1)) + ((a - b) + m)
  BY <1>1, <1>2
<1>5. s - t \in Int /\ q - p \in Int /\ (q - p) - 1 \in Int
  BY <1>1, <1>2
<1>6. ASSUME 0 <= a - b, a - b < m PROVE ((s - t) % m) = a - b
  <2>1. a - b \in Int OBVIOUS
  <2> QED BY <1>3, <1>5, <1>6, <2>1, ModUnique
<1>7. ASSUME -m <= a - b, a - b < 0 PROVE ((s - t) % m) = (a - b) + m
  <2>1. (a - b) + m \in Int /\ 0 <= (a - b) + m /\ (a - b) + m < m
    BY <1>7
  <2> QED BY <1>4, <1>5, <2>1, ModUnique
<1> QED BY <1>6, <1>7 DEF s, t

\* Positions less than one turn apart have places of their own.
LEMMA ModDistinct ==
  ASSUME NEW m \in Nat, m > 0, NEW a \in Int, NEW b \in Int,
         0 < a - b, a - b < m
  PROVE  (a % m) # (b % m)
<1>1. (((a % m) - (b % m)) % m) = a - b
  <2>1. 0 <= a - b OBVIOUS
  <2> QED BY <2>1, ModDiff
<1>2. ASSUME (a % m) = (b % m) PROVE FALSE
  <2>1. (a % m) - (b % m) = 0 BY <1>2, DivMod
  <2>2. (0 % m) = 0 BY ModSmall
  <2> QED BY <1>1, <2>1, <2>2
<1> QED BY <1>2

\* Wrapping at a multiple of the size does not move an offset.
LEMMA ModMultiple ==
  ASSUME NEW n \in Nat, n > 0, NEW k \in Nat, NEW m \in Nat, m > 0, m = k * n,
         NEW x \in Int
  PROVE  ((x % m) % n) = (x % n)
<1> DEFINE p == x \div m
           s == x % m
           q == s \div n
           t == s % n
<1>1. p \in Int /\ s \in Int /\ x = (m * p) + s
  BY DivMod
<1>2. q \in Int /\ t \in Int /\ 0 <= t /\ t < n /\ s = (n * q) + t
  BY <1>1, DivMod
<1> HIDE DEF p, q, s, t
<1>3. m * p = n * (k * p)
  <2>1. m * p = (k * n) * p OBVIOUS
  <2> QED BY <2>1, <1>1
<1>4. k * p \in Int
  BY <1>1
<1>5. x = (n * ((k * p) + q)) + t
  <2> DEFINE y == k * p
  <2>1. y \in Int BY <1>4
  <2>2. x = (n * y) + ((n * q) + t) BY <1>1, <1>2, <1>3
  <2> HIDE DEF y
  <2>3. x = (n * (y + q)) + t BY <2>1, <2>2, <1>2
  <2> QED BY <2>3 DEF y
<1>6. (k * p) + q \in Int
  BY <1>2, <1>4
<1>7. (x % n) = t
  BY <1>2, <1>5, <1>6, ModUnique
<1> QED BY <1>7 DEF s, t
=============================================================================
