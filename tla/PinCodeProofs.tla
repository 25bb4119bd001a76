---------------------------- MODULE PinCodeProofs ----------------------------
(***************************************************************************)
(* Proofs about PinCode, for every alphabet and every length of a PIN:     *)
(* what the check character tells, and what the receiver makes of a text.  *)
(* The loops of pin.rs are recursive functions here; facts about them are  *)
(* proved by induction on the positions.                                   *)
(***************************************************************************)
EXTENDS PinCode, WellFoundedInduction, FiniteSetTheorems, TLAPS

(* The length of the alphabet.                                             *)
LEMMA BaseIsNat == Base \in Nat /\ Base >= 2
BY CodeAssumption

(* A set that has 0 and with each number the next has them all: its        *)
(* complement would have a least element.                                  *)
LEMMA NatSetInduction ==
    ASSUME NEW T, 0 \in T, \A n \in Nat : n \in T => n + 1 \in T
    PROVE  Nat \subseteq T
<1> DEFINE R == OpToRel(<, Nat)  U == Nat \ T
<1>1. IsWellFoundedOn(R, Nat)
  BY NatLessThanWellFounded
<1>2. \A m, n \in Nat : m < n => <<m, n>> \in R
  BY DEF OpToRel
<1>3. SUFFICES ASSUME U # {} PROVE FALSE
  OBVIOUS
<1>4. PICK x \in U : \A y \in U : ~(<<y, x>> \in R)
  <2>1. U \subseteq Nat
    OBVIOUS
  <2> HIDE DEF U, R
  <2> QED BY <1>1, <1>3, <2>1, WFMin
<1>5. x \in Nat /\ x # 0 /\ x - 1 \in Nat /\ x - 1 < x
  OBVIOUS
<1>6. x - 1 \in T
  BY <1>2, <1>4, <1>5
<1> QED BY <1>5, <1>6

(* A number strictly between -Base and Base is no multiple but 0.          *)
LEMMA NoMultiple ==
    ASSUME NEW m \in Int, NEW r \in Int, -Base < r, r < Base, r = m * Base
    PROVE  r = 0
<1>1. Base \in Nat \ {0}
  BY BaseIsNat
<1>2. CASE m >= 1
  <2>1. (m - 1) * Base >= 0
    BY <1>1, <1>2
  <2> QED BY <1>1, <2>1
<1>3. CASE m <= -1
  <2>1. (-m - 1) * Base >= 0
    BY <1>1, <1>3
  <2> QED BY <1>1, <2>1
<1>4. CASE m = 0
  BY <1>1, <1>4
<1> QED BY <1>2, <1>3, <1>4

(* A number is its multiple of Base and a remainder below Base.            *)
LEMMA Division ==
    ASSUME NEW x \in Int
    PROVE  \E q \in Int, r \in 0..(Base - 1) : x = q * Base + r /\ x % Base = r
<1>1. Base \in Nat \ {0}
  BY BaseIsNat
<1>2. x = Base * (x \div Base) + (x % Base) /\ x \div Base \in Int /\ x % Base \in 0..(Base - 1)
  BY <1>1
<1>3. PICK q \in Int, r \in 0..(Base - 1) : q = x \div Base /\ r = x % Base
  BY <1>2
<1>4. x = q * Base + r
  BY <1>1, <1>2, <1>3
<1> QED BY <1>3, <1>4

(* Equal remainders: the difference has remainder 0.                       *)
LEMMA SameRemainder ==
    ASSUME NEW x \in Int, NEW y \in Int
    PROVE  x % Base = y % Base <=> (x - y) % Base = 0
<1>1. Base \in Nat \ {0}
  BY BaseIsNat
<1>2. PICK a \in Int, r \in 0..(Base - 1) : x = a * Base + r /\ x % Base = r
  BY Division
<1>3. PICK b \in Int, t \in 0..(Base - 1) : y = b * Base + t /\ y % Base = t
  BY Division
<1>4. PICK c \in Int, u \in 0..(Base - 1) : x - y = c * Base + u /\ (x - y) % Base = u
  <2>1. PICK z \in Int : z = x - y
    OBVIOUS
  <2>2. \E c \in Int, u \in 0..(Base - 1) : z = c * Base + u /\ z % Base = u
    BY Division
  <2> QED BY <2>1, <2>2
<1>5. PICK A, B, C \in Int : A = a * Base /\ B = b * Base /\ C = c * Base
  BY <1>1
<1>6. (A + r) - (B + t) = C + u
  BY <1>2, <1>3, <1>4, <1>5
<1>7. A - B - C = (a - b - c) * Base /\ a - b - c \in Int
  BY <1>1, <1>5
<1>8. ASSUME r = t PROVE u = 0
  <2>1. u = (a - b - c) * Base /\ -Base < u /\ u < Base
    BY <1>1, <1>5, <1>6, <1>7, <1>8
  <2> QED BY <1>7, <2>1, NoMultiple
<1>9. ASSUME u = 0 PROVE r = t
  <2>1. PICK v \in Int : v = t - r
    OBVIOUS
  <2>2. v = (a - b - c) * Base /\ -Base < v /\ v < Base
    BY <1>1, <1>5, <1>6, <1>7, <1>9, <2>1
  <2>3. v = 0
    BY <1>7, <2>2, NoMultiple
  <2> QED BY <2>1, <2>3
<1> QED BY <1>2, <1>3, <1>4, <1>8, <1>9

(* A function that is defined by steps through the positions of a text:    *)
(* it begins with v0, and step i takes it from f[i - 1] to f[i].           *)
Iterates(f, n, V, v0, step) ==
    /\ f[0] = v0
    /\ \A i \in 1..n : f[i - 1] \in V => f[i] = step[i][f[i - 1]]

(* There is one,                                                           *)
LEMMA RecursionExists ==
    ASSUME NEW n \in Nat, NEW V, NEW v0 \in V, NEW step \in [1..n -> [V -> V]]
    PROVE  \E f \in [0..n -> V] : Iterates(f, n, V, v0, step)
<1> DEFINE T == {k \in Nat : k <= n => \E f \in [0..k -> V] : Iterates(f, k, V, v0, step)}
<1>1. 0 \in T
  <2>1. [i \in 0..0 |-> v0] \in [0..0 -> V] /\ Iterates([i \in 0..0 |-> v0], 0, V, v0, step)
    BY DEF Iterates
  <2> QED BY <2>1
<1>2. ASSUME NEW k \in Nat, k \in T PROVE k + 1 \in T
  <2> SUFFICES ASSUME k + 1 <= n
               PROVE  \E f \in [0..(k + 1) -> V] : Iterates(f, k + 1, V, v0, step)
    OBVIOUS
  <2>1. PICK f \in [0..k -> V] : Iterates(f, k, V, v0, step)
    BY <1>2
  <2> DEFINE g == [i \in 0..(k + 1) |-> IF i = k + 1 THEN step[i][f[k]] ELSE f[i]]
  <2>2. k + 1 \in 1..n /\ f[k] \in V /\ step[k + 1] \in [V -> V]
    OBVIOUS
  <2>3. step[k + 1][f[k]] \in V
    BY <2>2
  <2>4. g \in [0..(k + 1) -> V]
    BY <2>3
  <2>5. \A i \in 1..(k + 1) : g[i] = step[i][g[i - 1]]
    BY <2>1 DEF Iterates
  <2>6. g[0] = v0
    BY <2>1 DEF Iterates
  <2>7. Iterates(g, k + 1, V, v0, step)
    BY <2>5, <2>6 DEF Iterates
  <2> QED BY <2>4, <2>7
<1>3. n \in T
  <2> HIDE DEF T
  <2> QED BY <1>1, <1>2, NatSetInduction
<1> QED BY <1>3

(* and no other ends elsewhere.                                            *)
LEMMA RecursionUnique ==
    ASSUME NEW n \in Nat, NEW V, NEW v0, NEW step, NEW f \in [0..n -> V], NEW g,
           Iterates(f, n, V, v0, step), Iterates(g, n, V, v0, step)
    PROVE  f[n] = g[n]
<1> DEFINE T == {k \in Nat : k <= n => f[k] = g[k]}
<1>1. 0 \in T
  BY DEF Iterates
<1>2. ASSUME NEW k \in Nat, k \in T PROVE k + 1 \in T
  <2> SUFFICES ASSUME k + 1 <= n PROVE f[k + 1] = g[k + 1]
    OBVIOUS
  <2>1. f[k] = g[k] /\ f[k] \in V /\ k + 1 \in 1..n /\ (k + 1) - 1 = k
    BY <1>2
  <2> QED BY <2>1 DEF Iterates
<1>3. n \in T
  <2> HIDE DEF T
  <2> QED BY <1>1, <1>2, NatSetInduction
<1> QED BY <1>3

------------------------------------------------------------------------------
(* The check character                                                     *)

Weighted(d) == [i \in 1..Len(d) |-> d[i] * i]

(* The weighted characters.                                                *)
LEMMA WeightedAt ==
    ASSUME NEW n \in Nat, NEW d \in [1..n -> Int]
    PROVE  /\ Len(d) = n
           /\ Weighted(d) \in [1..n -> Int]
           /\ \A i \in 1..n : Weighted(d)[i] = d[i] * i
BY DEF Weighted

(* f[i] is the sum of the first i.                                         *)
IsSum(f, e, n) ==
    /\ f \in [0..n -> Int] /\ f[0] = 0
    /\ \A i \in 1..n : f[i] = f[i - 1] + e[i]

(* The check character is the remainder of the weighted sum.               *)
LEMMA CheckIsSum ==
    ASSUME NEW n \in Nat, NEW d \in [1..n -> Int]
    PROVE  \E f : IsSum(f, Weighted(d), n) /\ CheckChar(d) = f[n] % Base
<1> DEFINE P(f) == f = [i \in 0..n |-> IF i = 0 THEN 0 ELSE f[i - 1] + d[i] * i]
           s == CHOOSE f : P(f)
           step == [i \in 1..n |-> [x \in Int |-> x + Weighted(d)[i]]]
<1>1. Len(d) = n /\ Weighted(d) \in [1..n -> Int]
  BY WeightedAt
<1>2. \A i \in 1..n : Weighted(d)[i] = d[i] * i
  BY WeightedAt
<1>3. step \in [1..n -> [Int -> Int]]
  BY <1>1
<1>4. PICK f \in [0..n -> Int] : Iterates(f, n, Int, 0, step)
  <2>1. 0 \in Int
    OBVIOUS
  <2> HIDE DEF step
  <2> QED BY <1>3, <2>1, RecursionExists
<1>5. ASSUME NEW i \in 1..n
      PROVE  i - 1 \in 0..n /\ f[i] = f[i - 1] + Weighted(d)[i]
  <2>1. i - 1 \in 0..n
    OBVIOUS
  <2>2. f[i - 1] \in Int
    BY <2>1
  <2> QED BY <1>4, <2>1, <2>2 DEF Iterates
<1>6. IsSum(f, Weighted(d), n)
  BY <1>4, <1>5 DEF IsSum, Iterates
<1>7. P(f)
  <2>1. f[0] = 0
    BY <1>4 DEF Iterates
  <2> QED BY <1>2, <1>5, <2>1
<1>8. P(s)
  BY <1>7
<1> HIDE DEF s
<1>9. Iterates(s, n, Int, 0, step)
  <2>1. s[0] = 0
    BY <1>8
  <2>2. ASSUME NEW i \in 1..n, s[i - 1] \in Int PROVE s[i] = step[i][s[i - 1]]
    <3>1. s[i] = s[i - 1] + d[i] * i
      BY <1>8
    <3> QED BY <1>2, <2>2, <3>1
  <2> QED BY <2>1, <2>2 DEF Iterates
<1>10. s[n] = f[n]
  <2> HIDE DEF step
  <2> QED BY <1>4, <1>9, RecursionUnique
<1>11. CheckChar(d) = s[n] % Base
  BY <1>1 DEF CheckChar, s
<1> QED BY <1>6, <1>10, <1>11

(* f and g grow alike from a to b.                                         *)
Alike(f, g, a, b) == \A j \in (a + 1)..b : f[j] - f[j - 1] = g[j] - g[j - 1]

(* Where two sums grow alike, their difference stays.                      *)
LEMMA SameGrowth ==
    ASSUME NEW n \in Nat, NEW f \in [0..n -> Int], NEW g \in [0..n -> Int],
           NEW a \in 0..n, NEW b \in a..n,
           Alike(f, g, a, b)
    PROVE  f[b] - g[b] = f[a] - g[a]
<1> DEFINE T == {k \in Nat : a + k <= b => f[a + k] - g[a + k] = f[a] - g[a]}
<1>1. 0 \in T
  OBVIOUS
<1>2. ASSUME NEW k \in Nat, k \in T PROVE k + 1 \in T
  <2> SUFFICES ASSUME a + (k + 1) <= b PROVE f[a + (k + 1)] - g[a + (k + 1)] = f[a] - g[a]
    OBVIOUS
  <2> DEFINE j == a + (k + 1)
  <2>1. j \in (a + 1)..b /\ j - 1 = a + k /\ j \in 0..n /\ j - 1 \in 0..n
    OBVIOUS
  <2>2. f[j] - f[j - 1] = g[j] - g[j - 1]
    BY <2>1 DEF Alike
  <2>3. f[j - 1] - g[j - 1] = f[a] - g[a]
    BY <1>2, <2>1
  <2>4. /\ f[j] \in Int /\ g[j] \in Int /\ f[j - 1] \in Int /\ g[j - 1] \in Int
        /\ f[a] \in Int /\ g[a] \in Int
    BY <2>1
  <2> HIDE DEF j
  <2>5. PICK p, q \in Int : p = f[j] /\ q = f[j - 1]
    BY <2>4
  <2>6. PICK r, t \in Int : r = g[j] /\ t = g[j - 1]
    BY <2>4
  <2>7. PICK u, v \in Int : u = f[a] /\ v = g[a]
    BY <2>4
  <2>8. p - q = r - t /\ q - t = u - v
    BY <2>2, <2>3, <2>5, <2>6, <2>7
  <2>9. p - r = u - v
    BY <2>8
  <2> QED BY <2>5, <2>6, <2>7, <2>9 DEF j
<1>3. b - a \in Nat
  OBVIOUS
<1>4. b - a \in T
  <2> HIDE DEF T
  <2> QED BY <1>1, <1>2, <1>3, NatSetInduction
<1> QED BY <1>4

(* d and e differ in nothing but position k; but positions k and k + 1,    *)
(* which are exchanged.                                                    *)
ChangedAt(d, e, n, k) == \A i \in 1..n : i # k => d[i] = e[i]
ExchangedAt(d, e, n, k) ==
    /\ e[k] = d[k + 1] /\ e[k + 1] = d[k]
    /\ \A i \in 1..n : i # k /\ i # k + 1 => d[i] = e[i]

(* The check characters of d and e are the remainders of x and y.          *)
Checks(x, d, y, e) ==
    x \in Int /\ y \in Int /\ CheckChar(d) = x % Base /\ CheckChar(e) = y % Base

(* They are equal when the difference of x and y has remainder 0.          *)
LEMMA SameCheck ==
    ASSUME NEW d, NEW e, NEW x, NEW y, Checks(x, d, y, e)
    PROVE  CheckChar(d) = CheckChar(e) <=> (x - y) % Base = 0
BY SameRemainder DEF Checks

(* One character changed: the sums differ by its change, as often as its   *)
(* position says.                                                          *)
LEMMA ChangeSum ==
    ASSUME NEW n \in Nat, NEW d \in [1..n -> Int], NEW e \in [1..n -> Int],
           NEW k \in 1..n, ChangedAt(d, e, n, k)
    PROVE  \E x, y : Checks(x, d, y, e) /\ x - y = (d[k] - e[k]) * k
<1>a. PICK f : IsSum(f, Weighted(d), n) /\ CheckChar(d) = f[n] % Base
  BY CheckIsSum
<1>b. PICK g : IsSum(g, Weighted(e), n) /\ CheckChar(e) = g[n] % Base
  BY CheckIsSum
<1>1. f \in [0..n -> Int] /\ g \in [0..n -> Int] /\ f[0] = 0 /\ g[0] = 0
  BY <1>a, <1>b DEF IsSum
<1>2. /\ \A i \in 1..n : f[i] = f[i - 1] + d[i] * i
      /\ \A i \in 1..n : g[i] = g[i - 1] + e[i] * i
  BY <1>a, <1>b, WeightedAt DEF IsSum
<1>3. \A i \in 1..n : i # k => f[i] - f[i - 1] = g[i] - g[i - 1]
  <2> SUFFICES ASSUME NEW i \in 1..n, i # k PROVE f[i] - f[i - 1] = g[i] - g[i - 1]
    OBVIOUS
  <2>1. f[i - 1] \in Int /\ g[i - 1] \in Int /\ d[i] \in Int
    <3>1. i - 1 \in 0..n
      OBVIOUS
    <3> QED BY <1>1, <3>1
  <2>2. PICK x, y, z \in Int : x = f[i - 1] /\ y = g[i - 1] /\ z = d[i] * i
    BY <2>1
  <2>3. f[i] = x + z /\ g[i] = y + z
    BY <1>2, <2>2 DEF ChangedAt
  <2>4. (x + z) - x = (y + z) - y
    OBVIOUS
  <2> QED BY <2>2, <2>3, <2>4
<1>4. f[k - 1] - g[k - 1] = f[0] - g[0]
  <2>1. 0 \in 0..n /\ k - 1 \in 0..n
    OBVIOUS
  <2>2. Alike(f, g, 0, k - 1)
    BY <1>3, <2>1 DEF Alike
  <2> QED BY <1>1, <2>1, <2>2, SameGrowth
<1>5. f[n] - g[n] = f[k] - g[k]
  <2>1. k \in 0..n /\ n \in k..n
    OBVIOUS
  <2>2. Alike(f, g, k, n)
    BY <1>3, <2>1 DEF Alike
  <2> QED BY <1>1, <2>1, <2>2, SameGrowth
<1>6. PICK x, y, u, v \in Int : x = f[k - 1] /\ y = g[k - 1] /\ u = d[k] /\ v = e[k]
  <2>1. f[k - 1] \in Int /\ g[k - 1] \in Int /\ d[k] \in Int /\ e[k] \in Int
    BY <1>1
  <2> QED BY <2>1
<1>7. f[k] = x + u * k /\ g[k] = y + v * k /\ x - y = 0
  BY <1>1, <1>2, <1>4, <1>6
<1>8. f[k] - g[k] = (u - v) * k
  <2>1. PICK a, b \in Int : a = u * k /\ b = v * k
    OBVIOUS
  <2>2. (u - v) * k = a - b
    BY <2>1
  <2> QED BY <1>7, <2>1, <2>2
<1>9. f[n] - g[n] = (d[k] - e[k]) * k
  BY <1>5, <1>6, <1>8
<1>10. Checks(f[n], d, g[n], e)
  BY <1>1, <1>a, <1>b DEF Checks
<1> QED BY <1>9, <1>10

(* Two neighbours exchanged: the sums differ by the difference of the two. *)
LEMMA ExchangeSum ==
    ASSUME NEW n \in Nat, NEW d \in [1..n -> Int], NEW e \in [1..n -> Int],
           NEW k \in 1..(n - 1), ExchangedAt(d, e, n, k)
    PROVE  \E x, y : Checks(x, d, y, e) /\ x - y = d[k + 1] - d[k]
<1>a. PICK f : IsSum(f, Weighted(d), n) /\ CheckChar(d) = f[n] % Base
  BY CheckIsSum
<1>b. PICK g : IsSum(g, Weighted(e), n) /\ CheckChar(e) = g[n] % Base
  BY CheckIsSum
<1>1. f \in [0..n -> Int] /\ g \in [0..n -> Int] /\ f[0] = 0 /\ g[0] = 0
  BY <1>a, <1>b DEF IsSum
<1>2. /\ \A i \in 1..n : f[i] = f[i - 1] + d[i] * i
      /\ \A i \in 1..n : g[i] = g[i - 1] + e[i] * i
  BY <1>a, <1>b, WeightedAt DEF IsSum
<1>3. \A i \in 1..n : i # k /\ i # k + 1 => f[i] - f[i - 1] = g[i] - g[i - 1]
  <2> SUFFICES ASSUME NEW i \in 1..n, i # k, i # k + 1
               PROVE  f[i] - f[i - 1] = g[i] - g[i - 1]
    OBVIOUS
  <2>1. f[i - 1] \in Int /\ g[i - 1] \in Int /\ d[i] \in Int
    <3>1. i - 1 \in 0..n
      OBVIOUS
    <3> QED BY <1>1, <3>1
  <2>2. PICK x, y, z \in Int : x = f[i - 1] /\ y = g[i - 1] /\ z = d[i] * i
    BY <2>1
  <2>3. f[i] = x + z /\ g[i] = y + z
    BY <1>2, <2>2 DEF ExchangedAt
  <2>4. (x + z) - x = (y + z) - y
    OBVIOUS
  <2> QED BY <2>2, <2>3, <2>4
<1>4. f[k - 1] - g[k - 1] = f[0] - g[0]
  <2>1. 0 \in 0..n /\ k - 1 \in 0..n
    OBVIOUS
  <2>2. Alike(f, g, 0, k - 1)
    BY <1>3, <2>1 DEF Alike
  <2> QED BY <1>1, <2>1, <2>2, SameGrowth
<1>5. f[n] - g[n] = f[k + 1] - g[k + 1]
  <2>1. k + 1 \in 0..n /\ n \in (k + 1)..n
    OBVIOUS
  <2>2. Alike(f, g, k + 1, n)
    BY <1>3, <2>1 DEF Alike
  <2> QED BY <1>1, <2>1, <2>2, SameGrowth
<1>6. PICK x, y, u, v \in Int : x = f[k - 1] /\ y = g[k - 1] /\ u = d[k] /\ v = d[k + 1]
  <2>1. f[k - 1] \in Int /\ g[k - 1] \in Int /\ d[k] \in Int /\ d[k + 1] \in Int
    <3>1. k - 1 \in 0..n /\ k \in 1..n /\ k + 1 \in 1..n
      OBVIOUS
    <3> QED BY <1>1, <3>1
  <2> QED BY <2>1
<1>7. f[k] = x + u * k /\ g[k] = y + v * k /\ x - y = 0
  <2>1. k \in 1..n /\ e[k] = v
    BY <1>6 DEF ExchangedAt
  <2> QED BY <1>1, <1>2, <1>4, <1>6, <2>1
<1>8. f[k + 1] = f[k] + v * (k + 1) /\ g[k + 1] = g[k] + u * (k + 1)
  <2>1. k + 1 \in 1..n /\ (k + 1) - 1 = k
    OBVIOUS
  <2>2. d[k + 1] = v /\ e[k + 1] = u
    BY <1>6 DEF ExchangedAt
  <2> QED BY <1>2, <2>1, <2>2
<1>9. f[k + 1] - g[k + 1] = v - u
  <2>1. k \in Int
    OBVIOUS
  <2>2. PICK a, b \in Int : a = u * k /\ b = v * k
    BY <2>1
  <2>3. v * (k + 1) = b + v /\ u * (k + 1) = a + u
    BY <2>1, <2>2
  <2>4. f[k + 1] = (x + a) + (b + v) /\ g[k + 1] = (y + b) + (a + u)
    BY <1>6, <1>7, <1>8, <2>2, <2>3
  <2>5. x - y = 0
    BY <1>7
  <2>6. ((x + a) + (b + v)) - ((y + b) + (a + u)) = v - u
    BY <2>5
  <2> QED BY <2>4, <2>6
<1>10. f[n] - g[n] = d[k + 1] - d[k]
  BY <1>5, <1>6, <1>9
<1>11. Checks(f[n], d, g[n], e)
  BY <1>1, <1>a, <1>b DEF Checks
<1> QED BY <1>10, <1>11

(* The check character tells two different neighbours exchanged: their     *)
(* difference is less than Base.                                           *)
LEMMA ExchangeChecked ==
    ASSUME NEW n \in Nat, NEW d \in [1..n -> Alphabet], NEW e \in [1..n -> Alphabet],
           NEW k \in 1..(n - 1), ExchangedAt(d, e, n, k), d[k] # d[k + 1]
    PROVE  CheckChar(d) # CheckChar(e)
<1>1. d \in [1..n -> Int] /\ e \in [1..n -> Int]
  BY DEF Alphabet
<1>2. PICK x, y : Checks(x, d, y, e) /\ x - y = d[k + 1] - d[k]
  BY <1>1, ExchangeSum
<1>3. PICK u, v \in Alphabet : u = d[k] /\ v = d[k + 1]
  OBVIOUS
<1>4. u \in Int /\ v \in Int /\ 0 <= u /\ 0 <= v /\ u < Base /\ v < Base /\ u # v
  BY <1>3, BaseIsNat DEF Alphabet
<1>5. v % Base = v /\ u % Base = u
  BY <1>4, BaseIsNat
<1>6. (v - u) % Base # 0
  BY <1>4, <1>5, SameRemainder
<1> QED BY <1>2, <1>3, <1>6, SameCheck

------------------------------------------------------------------------------
(* A PIN and its check character.                                          *)
LEMMA PinShape ==
    ASSUME NEW p \in Pins
    PROVE  /\ p \in [1..PinLen -> Alphabet]
           /\ p[PinLen] = CheckChar(SubSeq(p, 1, DataLen))
<1>1. DataLen \in Nat \ {0} /\ PinLen = DataLen + 1
  BY CodeAssumption DEF PinLen
<1>2. PICK d \in [1..DataLen -> Alphabet] : p = Append(d, CheckChar(d))
  BY DEF Pins
<1>3. CheckChar(d) \in Alphabet
  <2>1. d \in [1..DataLen -> Int]
    BY DEF Alphabet
  <2>2. PICK f : IsSum(f, Weighted(d), DataLen) /\ CheckChar(d) = f[DataLen] % Base
    BY <1>1, <2>1, CheckIsSum
  <2>3. f[DataLen] \in Int
    BY <1>1, <2>2 DEF IsSum
  <2> QED BY <2>2, <2>3, BaseIsNat DEF Alphabet
<1>4. d \in Seq(Alphabet) /\ Len(d) = DataLen
  BY <1>1
<1>5. p \in [1..PinLen -> Alphabet] /\ p[PinLen] = CheckChar(d)
  <2>1. p \in Seq(Alphabet) /\ Len(p) = PinLen
    BY <1>1, <1>2, <1>3, <1>4
  <2>2. p[PinLen] = CheckChar(d)
    BY <1>1, <1>2, <1>3, <1>4
  <2> QED BY <1>1, <2>1, <2>2
<1>6. SubSeq(p, 1, DataLen) = d
  <2>1. \A i \in 1..DataLen : p[i] = d[i]
    BY <1>1, <1>2, <1>3, <1>4
  <2>2. SubSeq(p, 1, DataLen) = [i \in 1..DataLen |-> p[i]]
    BY <1>1, <1>5
  <2> QED BY <1>1, <2>1, <2>2
<1> QED BY <1>5, <1>6

(* The characters of a text before its check character.                    *)
Data(q) == [i \in 1..DataLen |-> q[i]]

(* Ten characters are a PIN when the last is the check character of the    *)
(* others.                                                                 *)
LEMMA IsPin ==
    ASSUME NEW q \in [1..PinLen -> Alphabet]
    PROVE  /\ Data(q) \in [1..DataLen -> Alphabet]
           /\ q \in Pins <=> q[PinLen] = CheckChar(Data(q))
<1>1. DataLen \in Nat \ {0} /\ PinLen = DataLen + 1
  BY CodeAssumption DEF PinLen
<1>2. Data(q) \in [1..DataLen -> Alphabet] /\ SubSeq(q, 1, DataLen) = Data(q)
  BY <1>1 DEF Data
<1>3. q \in Pins => q[PinLen] = CheckChar(Data(q))
  BY <1>2, PinShape
<1>4. ASSUME q[PinLen] = CheckChar(Data(q)) PROVE q \in Pins
  <2>1. PICK d \in [1..DataLen -> Alphabet] : d = Data(q)
    BY <1>2
  <2>2. d \in Seq(Alphabet) /\ Len(d) = DataLen /\ q[PinLen] \in Alphabet
    BY <1>1
  <2>3. PICK e \in Seq(Alphabet) : e = Append(d, q[PinLen])
    <3>1. \A x \in Alphabet : \A z \in Seq(Alphabet) : Append(z, x) \in Seq(Alphabet)
      OBVIOUS
    <3> QED BY <2>2, <3>1
  <2>4. \A i \in 1..DataLen : d[i] = q[i]
    BY <2>1 DEF Data
  <2>5. Len(e) = PinLen /\ \A i \in 1..PinLen : e[i] = q[i]
    BY <1>1, <2>2, <2>3, <2>4
  <2>6. e = [i \in 1..PinLen |-> e[i]] /\ q = [i \in 1..PinLen |-> q[i]]
    BY <2>5
  <2>7. q = Append(d, CheckChar(d))
    BY <1>4, <2>1, <2>3, <2>5, <2>6
  <2> QED BY <2>7 DEF Pins
<1> QED BY <1>2, <1>3, <1>4

(* q is p with character k misread; with characters k and k + 1 exchanged. *)
MisreadAt(p, q, k) ==
    /\ q \in [1..PinLen -> Alphabet] /\ q[k] # p[k]
    /\ \A i \in 1..PinLen : i # k => q[i] = p[i]
SwappedAt(p, q, k) ==
    /\ q \in [1..PinLen -> Alphabet] /\ p[k] # p[k + 1] /\ q[k] = p[k + 1] /\ q[k + 1] = p[k]
    /\ \A i \in 1..PinLen : i # k /\ i # k + 1 => q[i] = p[i]

(* A misread text differs in one place.                                    *)
LEMMA MisreadIs ==
    ASSUME NEW p \in [1..PinLen -> Alphabet], NEW q \in Misread(p)
    PROVE  \E k \in 1..PinLen : MisreadAt(p, q, k)
<1>1. PICK k \in 1..PinLen, c \in Alphabet : q = [p EXCEPT ![k] = c]
  BY DEF Misread
<1>2. q # p
  BY DEF Misread
<1>3. /\ q \in [1..PinLen -> Alphabet] /\ q[k] = c
      /\ \A i \in 1..PinLen : i # k => q[i] = p[i]
  BY <1>1
<1>4. q[k] # p[k]
  BY <1>1, <1>2
<1> QED BY <1>3, <1>4 DEF MisreadAt

(* One with neighbours exchanged differs in those two.                     *)
LEMMA ExchangedIs ==
    ASSUME NEW p \in [1..PinLen -> Alphabet], NEW q \in Exchanged(p)
    PROVE  \E k \in 1..DataLen : SwappedAt(p, q, k)
<1>1. PICK k \in 1..DataLen : q = [p EXCEPT ![k] = p[k + 1], ![k + 1] = p[k]]
  BY DEF Exchanged
<1>2. q # p
  BY DEF Exchanged
<1>3. k \in 1..PinLen /\ k + 1 \in 1..PinLen /\ k # k + 1
  BY CodeAssumption DEF PinLen
<1>4. /\ q \in [1..PinLen -> Alphabet] /\ q[k] = p[k + 1] /\ q[k + 1] = p[k]
      /\ \A i \in 1..PinLen : i # k /\ i # k + 1 => q[i] = p[i]
  BY <1>1, <1>3
<1>5. p[k] # p[k + 1]
  <2> SUFFICES ASSUME p[k] = p[k + 1] PROVE FALSE
    OBVIOUS
  <2>1. q = p
    BY <1>1, <1>3
  <2> QED BY <1>2, <2>1
<1> QED BY <1>4, <1>5 DEF SwappedAt

(* So no text is both.                                                     *)
LEMMA NotBoth ==
    ASSUME NEW p \in [1..PinLen -> Alphabet]
    PROVE  Misread(p) \cap Exchanged(p) = {}
<1> SUFFICES ASSUME NEW q \in Misread(p), q \in Exchanged(p) PROVE FALSE
  OBVIOUS
<1>1. PICK k \in 1..PinLen : MisreadAt(p, q, k)
  BY MisreadIs
<1>2. PICK j \in 1..DataLen : SwappedAt(p, q, j)
  BY ExchangedIs
<1>3. j \in 1..PinLen /\ j + 1 \in 1..PinLen /\ j # j + 1
  BY CodeAssumption DEF PinLen
<1>4. q[j] # p[j] /\ q[j + 1] # p[j + 1]
  BY <1>2 DEF SwappedAt
<1> QED BY <1>1, <1>3, <1>4 DEF MisreadAt

(* A misread PIN is one if the weights do not tell.                        *)
LEMMA MisreadTold ==
    ASSUME NEW p \in Pins, NEW q \in Misread(p)
    PROVE  q \in Pins <=> q \in Blind(p)
<1>1. DataLen \in Nat \ {0} /\ PinLen = DataLen + 1
  BY CodeAssumption DEF PinLen
<1>2. p \in [1..PinLen -> Alphabet] /\ p[PinLen] = CheckChar(Data(p))
      /\ Data(p) \in [1..DataLen -> Alphabet]
  BY PinShape, IsPin
<1>3. PICK k \in 1..PinLen : MisreadAt(p, q, k)
  BY <1>2, MisreadIs
<1>4. q \in [1..PinLen -> Alphabet] /\ q[k] # p[k] /\ \A i \in 1..PinLen : i # k => q[i] = p[i]
  BY <1>3 DEF MisreadAt
<1>5. Data(q) \in [1..DataLen -> Alphabet] /\ (q \in Pins <=> q[PinLen] = CheckChar(Data(q)))
  BY <1>4, IsPin
<1>6. q \notin Exchanged(p)
  BY <1>2, NotBoth
<1>7. q \in Blind(p) <=> \E i \in 1..DataLen : q[i] # p[i] /\ ((p[i] - q[i]) * i) % Base = 0
  BY <1>6 DEF Blind
<1>8. CASE k = PinLen
  <2>1. \A i \in 1..DataLen : q[i] = p[i]
    BY <1>1, <1>4, <1>8
  <2>2. Data(q) = Data(p)
    BY <2>1 DEF Data
  <2> QED BY <1>2, <1>4, <1>5, <1>7, <1>8, <2>1, <2>2
<1>9. CASE k # PinLen
  <2>1. k \in 1..DataLen /\ q[PinLen] = p[PinLen]
    BY <1>1, <1>4, <1>9
  <2>2. \A i \in 1..DataLen : i # k => q[i] = p[i]
    BY <1>1, <1>4
  <2>3. q \in Blind(p) <=> ((p[k] - q[k]) * k) % Base = 0
    BY <1>4, <1>7, <2>1, <2>2
  <2>4. PICK d, e \in [1..DataLen -> Alphabet] : d = Data(p) /\ e = Data(q)
    BY <1>2, <1>5
  <2>5. d[k] = p[k] /\ e[k] = q[k] /\ ChangedAt(d, e, DataLen, k)
    BY <2>1, <2>2, <2>4 DEF Data, ChangedAt
  <2>6. d \in [1..DataLen -> Int] /\ e \in [1..DataLen -> Int]
    BY DEF Alphabet
  <2>7. PICK x, y : Checks(x, d, y, e) /\ x - y = (d[k] - e[k]) * k
    BY <1>1, <2>1, <2>5, <2>6, ChangeSum
  <2>8. CheckChar(d) = CheckChar(e) <=> ((p[k] - q[k]) * k) % Base = 0
    BY <2>5, <2>7, SameCheck
  <2> QED BY <1>2, <1>5, <2>1, <2>3, <2>4, <2>8
<1> QED BY <1>8, <1>9

(* The last character a of a PIN exchanged with its check character c: the *)
(* sum x becomes y, with x as the sum c belongs to, and a belongs to y     *)
(* only if the position of c makes their difference a multiple.            *)
LEMMA CheckSwapped ==
    ASSUME NEW x \in Int, NEW y \in Int, NEW a \in Alphabet, NEW c \in Alphabet,
           c = x % Base, x - y = (a - c) * DataLen
    PROVE  a = y % Base <=> ((c - a) * PinLen) % Base = 0
<1>1. /\ DataLen \in Nat /\ PinLen = DataLen + 1
      /\ a \in Int /\ c \in Int /\ 0 <= a /\ 0 <= c /\ a < Base /\ c < Base
  BY CodeAssumption, BaseIsNat DEF PinLen, Alphabet
<1>2. a % Base = a /\ c % Base = c
  BY <1>1, BaseIsNat
<1>3. (x - c) % Base = 0
  <2>1. c \in Int /\ x % Base = c % Base
    BY <1>1, <1>2
  <2> QED BY <2>1, SameRemainder
<1>4. a = y % Base <=> (y - a) % Base = 0
  <2>1. y % Base = a % Base <=> (y - a) % Base = 0
    BY <1>1, SameRemainder
  <2> QED BY <1>2, <2>1, Zenon
<1>5. PICK w \in Int : w = (c - a) * DataLen
  BY <1>1
<1>6. (a - c) * DataLen = -w /\ (c - a) * PinLen = w + (c - a)
  BY <1>1, <1>5
<1>7. PICK z, t \in Int : z = y - a /\ t = (c - a) * PinLen
  BY <1>1, <1>6
<1>8. z - t = x - c
  <2>1. x - y = -w /\ t = w + (c - a)
    BY <1>6, <1>7
  <2> QED BY <1>1, <1>7, <2>1
<1>9. z % Base = t % Base
  BY <1>3, <1>8, SameRemainder
<1> QED BY <1>4, <1>7, <1>9

(* So is one with neighbours exchanged.                                    *)
LEMMA ExchangeTold ==
    ASSUME NEW p \in Pins, NEW q \in Exchanged(p)
    PROVE  q \in Pins <=> q \in Blind(p)
<1>1. DataLen \in Nat \ {0} /\ PinLen = DataLen + 1
  BY CodeAssumption DEF PinLen
<1>2. p \in [1..PinLen -> Alphabet] /\ p[PinLen] = CheckChar(Data(p))
      /\ Data(p) \in [1..DataLen -> Alphabet]
  BY PinShape, IsPin
<1>3. PICK k \in 1..DataLen : SwappedAt(p, q, k)
  BY <1>2, ExchangedIs
<1>4. /\ q \in [1..PinLen -> Alphabet] /\ p[k] # p[k + 1] /\ q[k] = p[k + 1] /\ q[k + 1] = p[k]
      /\ \A i \in 1..PinLen : i # k /\ i # k + 1 => q[i] = p[i]
  BY <1>3 DEF SwappedAt
<1>5. Data(q) \in [1..DataLen -> Alphabet] /\ (q \in Pins <=> q[PinLen] = CheckChar(Data(q)))
  BY <1>4, IsPin
<1>6. q \notin Misread(p)
  BY <1>2, NotBoth
<1>7. q \in Blind(p) <=> q[PinLen] # p[PinLen] /\ ((p[PinLen] - p[DataLen]) * PinLen) % Base = 0
  BY <1>6 DEF Blind
<1>8. PICK d, e \in [1..DataLen -> Alphabet] : d = Data(p) /\ e = Data(q)
  BY <1>2, <1>5
<1>9. \A i \in 1..DataLen : d[i] = p[i] /\ e[i] = q[i]
  BY <1>8 DEF Data
<1>10. CASE k = DataLen
  <2>1. /\ q[PinLen] = p[DataLen] /\ p[PinLen] # p[DataLen]
        /\ e[DataLen] = p[PinLen] /\ d[DataLen] = p[DataLen]
    BY <1>1, <1>4, <1>9, <1>10
  <2>2. ChangedAt(d, e, DataLen, DataLen)
    BY <1>1, <1>4, <1>9, <1>10 DEF ChangedAt
  <2>3. d \in [1..DataLen -> Int] /\ e \in [1..DataLen -> Int] /\ DataLen \in 1..DataLen
    BY <1>1 DEF Alphabet
  <2>4. PICK x, y : Checks(x, d, y, e) /\ x - y = (d[DataLen] - e[DataLen]) * DataLen
    BY <1>1, <2>2, <2>3, ChangeSum
  <2>5. PICK a, c \in Alphabet : a = p[DataLen] /\ c = p[PinLen]
    BY <1>1, <1>2
  <2>6. x \in Int /\ y \in Int /\ c = x % Base /\ CheckChar(e) = y % Base
        /\ x - y = (a - c) * DataLen
    BY <1>2, <1>8, <2>1, <2>4, <2>5 DEF Checks
  <2>7. a = y % Base <=> ((c - a) * PinLen) % Base = 0
    BY <2>6, CheckSwapped
  <2> QED BY <1>5, <1>7, <1>8, <2>1, <2>5, <2>6, <2>7
<1>11. CASE k # DataLen
  <2>1. k \in 1..(DataLen - 1) /\ k + 1 \in 1..DataLen /\ q[PinLen] = p[PinLen]
    BY <1>1, <1>4, <1>11
  <2>2. ExchangedAt(d, e, DataLen, k) /\ d[k] # d[k + 1]
    BY <1>1, <1>4, <1>9, <2>1 DEF ExchangedAt
  <2>3. CheckChar(d) # CheckChar(e)
    BY <1>1, <2>1, <2>2, ExchangeChecked
  <2> QED BY <1>2, <1>5, <1>7, <1>8, <2>1, <2>3
<1> QED BY <1>10, <1>11

(* One wrong character or two neighbours exchanged make another PIN        *)
(* exactly where Blind says so, for every alphabet and length.             *)
THEOREM WeightsAreExact == WeightsTell
<1> SUFFICES ASSUME NEW p \in Pins
             PROVE  Slips(p) \cap Pins = {} /\ Blind(p) \subseteq Pins
  BY DEF WeightsTell
<1>1. \A q \in Misread(p) \cup Exchanged(p) : q \in Pins <=> q \in Blind(p)
  BY MisreadTold, ExchangeTold
<1>2. Blind(p) \subseteq Misread(p) \cup Exchanged(p)
  BY DEF Blind
<1> QED BY <1>1, <1>2 DEF Slips
------------------------------------------------------------------------------
(* What the receiver makes of a text                                       *)

(* What is made of a character.                                           *)
Read == {Mapped(c) : c \in Char}

(* A character of the alphabet is read as itself.                          *)
LEMMA ReadFacts ==
    /\ \A c \in Alphabet : c # Sep /\ c # LetterO /\ c # LetterI /\ Mapped(c) = c
    /\ 0 \in Alphabet /\ 1 \in Alphabet
<1>1. \A c \in Alphabet : c # Sep /\ c # LetterO /\ c # LetterI
  BY CodeAssumption DEF Alphabet
<1>2. \A c \in Alphabet : Mapped(c) = c
  BY <1>1 DEF Mapped
<1>3. 0 \in Alphabet /\ 1 \in Alphabet
  BY BaseIsNat DEF Alphabet
<1> QED BY <1>1, <1>2, <1>3

(* The lookalikes are read as 0 and 1.                                     *)
LEMMA Lookalikes ==
    /\ LetterO # Sep /\ Mapped(LetterO) = 0
    /\ LetterI # Sep /\ Mapped(LetterI) = 1
BY CodeAssumption DEF Mapped

(* The loop over the text: a separator is left out, any other character    *)
(* appended.                                                               *)
Reading(t) == [i \in 1..Len(t) |->
                 [s \in Seq(Read) |-> IF t[i] = Sep THEN s ELSE Append(s, Mapped(t[i]))]]

(* It ends with what Canonical is.                                         *)
LEMMA CanonicalIs ==
    ASSUME NEW n \in Nat, NEW t \in [1..n -> Char]
    PROVE  \E f \in [0..n -> Seq(Read)] :
              Iterates(f, n, Seq(Read), <<>>, Reading(t)) /\ Canonical(t) = f[n]
<1> DEFINE P(f) == f = [i \in 0..n |-> IF i = 0 THEN <<>>
                                       ELSE IF t[i] = Sep THEN f[i - 1]
                                       ELSE Append(f[i - 1], Mapped(t[i]))]
           s == CHOOSE f : P(f)
<1>1. Len(t) = n
  OBVIOUS
<1>2. ASSUME NEW i \in 1..n, NEW x \in Seq(Read)
      PROVE  /\ Reading(t)[i][x] \in Seq(Read)
             /\ Reading(t)[i][x] = IF t[i] = Sep THEN x ELSE Append(x, Mapped(t[i]))
  <2>1. Mapped(t[i]) \in Read
    BY DEF Read
  <2>2. Append(x, Mapped(t[i])) \in Seq(Read)
    BY <2>1
  <2>3. Reading(t)[i] = [y \in Seq(Read) |-> IF t[i] = Sep THEN y ELSE Append(y, Mapped(t[i]))]
    BY <1>1 DEF Reading
  <2> QED BY <2>2, <2>3
<1>3. Reading(t) \in [1..n -> [Seq(Read) -> Seq(Read)]]
  <2>1. ASSUME NEW i \in 1..n PROVE Reading(t)[i] \in [Seq(Read) -> Seq(Read)]
    <3>1. Reading(t)[i] = [y \in Seq(Read) |-> IF t[i] = Sep THEN y
                                                ELSE Append(y, Mapped(t[i]))]
      BY <1>1 DEF Reading
    <3>2. \A x \in Seq(Read) : Reading(t)[i][x] \in Seq(Read)
      BY <1>2
    <3> QED BY <3>1, <3>2
  <2>2. Reading(t) = [i \in 1..n |-> Reading(t)[i]]
    BY <1>1 DEF Reading
  <2> QED BY <2>1, <2>2
<1>4. PICK f \in [0..n -> Seq(Read)] : Iterates(f, n, Seq(Read), <<>>, Reading(t))
  <2>1. <<>> \in Seq(Read)
    OBVIOUS
  <2> QED BY <1>3, <2>1, RecursionExists
<1>5. P(f)
  <2>1. f[0] = <<>>
    BY <1>4 DEF Iterates
  <2>2. ASSUME NEW i \in 1..n
        PROVE  f[i] = IF t[i] = Sep THEN f[i - 1] ELSE Append(f[i - 1], Mapped(t[i]))
    <3>1. i - 1 \in 0..n
      OBVIOUS
    <3>2. f[i - 1] \in Seq(Read)
      BY <3>1
    <3>3. f[i] = Reading(t)[i][f[i - 1]]
      BY <1>4, <3>2 DEF Iterates
    <3> QED BY <1>2, <3>2, <3>3
  <2>3. ASSUME NEW i \in 0..n
        PROVE  f[i] = IF i = 0 THEN <<>>
                      ELSE IF t[i] = Sep THEN f[i - 1]
                      ELSE Append(f[i - 1], Mapped(t[i]))
    <3>1. i = 0 \/ i \in 1..n
      OBVIOUS
    <3> QED BY <2>1, <2>2, <3>1
  <2>4. f = [i \in 0..n |-> f[i]]
    OBVIOUS
  <2> QED BY <2>3, <2>4
<1>6. P(s)
  BY <1>5
<1> HIDE DEF s
<1>7. Iterates(s, n, Seq(Read), <<>>, Reading(t))
  <2>1. s[0] = <<>>
    BY <1>6
  <2>2. ASSUME NEW i \in 1..n, s[i - 1] \in Seq(Read) PROVE s[i] = Reading(t)[i][s[i - 1]]
    <3>1. i \in 0..n /\ i # 0
      OBVIOUS
    <3>2. s[i] = IF i = 0 THEN <<>>
                 ELSE IF t[i] = Sep THEN s[i - 1]
                 ELSE Append(s[i - 1], Mapped(t[i]))
      BY <1>6, <3>1
    <3>3. s[i] = IF t[i] = Sep THEN s[i - 1] ELSE Append(s[i - 1], Mapped(t[i]))
      BY <3>1, <3>2
    <3> QED BY <1>2, <2>2, <3>3
  <2> QED BY <2>1, <2>2 DEF Iterates
<1>8. s[n] = f[n]
  BY <1>4, <1>7, RecursionUnique
<1>9. Canonical(t) = s[n]
  BY <1>1 DEF Canonical, s
<1> QED BY <1>4, <1>8, <1>9

(* The result has no separators or lookalikes, and if it passes the tests  *)
(* it is a PIN that generate_pin could return.                             *)
LEMMA NormalizedIsPin ==
    ASSUME NEW t \in Seq(Char), Normalizes(t)
    PROVE  Canonical(t) \in Pins
<1>1. PICK n \in Nat : n = Len(t) /\ t \in [1..n -> Char]
  OBVIOUS
<1>2. PICK c \in Seq(Read) : c = Canonical(t)
  BY <1>1, CanonicalIs
<1>3. DataLen \in Nat \ {0} /\ PinLen = DataLen + 1
  BY CodeAssumption DEF PinLen
<1>4. Len(c) = PinLen /\ \A i \in 1..PinLen : c[i] \in Alphabet
  BY <1>2 DEF Normalizes, LooksLikePin
<1>5. c[PinLen] = CheckChar(SubSeq(c, 1, DataLen))
  BY <1>2 DEF Normalizes
<1>6. PICK d \in [1..DataLen -> Alphabet] : d = SubSeq(c, 1, DataLen)
  <2>1. SubSeq(c, 1, DataLen) = [i \in 1..DataLen |-> c[i]]
    BY <1>3, <1>4
  <2>2. \A i \in 1..DataLen : c[i] \in Alphabet
    BY <1>3, <1>4
  <2> QED BY <2>1, <2>2
<1>7. c[PinLen] \in Alphabet
  BY <1>3, <1>4
<1>8. c = Append(d, c[PinLen])
  <2>1. c \in [1..PinLen -> Read]
    BY <1>3, <1>4
  <2>2. d \in Seq(Alphabet) /\ Len(d) = DataLen
    BY <1>3
  <2>3. \A i \in 1..DataLen : d[i] = c[i]
    BY <1>3, <1>4, <1>6
  <2>4. PICK e \in Seq(Alphabet) : e = Append(d, c[PinLen])
    <3>1. \A x \in Alphabet : \A q \in Seq(Alphabet) : Append(q, x) \in Seq(Alphabet)
      OBVIOUS
    <3> QED BY <1>7, <2>2, <3>1
  <2>5. Len(e) = PinLen /\ \A i \in 1..PinLen : e[i] = c[i]
    BY <1>3, <1>7, <2>2, <2>3, <2>4
  <2>6. e = [i \in 1..PinLen |-> e[i]] /\ c = [i \in 1..PinLen |-> c[i]]
    BY <2>1, <2>5
  <2> QED BY <2>4, <2>5, <2>6
<1> QED BY <1>2, <1>5, <1>6, <1>8 DEF Pins

(* Text t spells p: at[i] characters of p are in the first i of t.         *)
Spells(t, p, at) ==
    /\ at[0] = 0 /\ at[Len(t)] = Len(p)
    /\ \A i \in 1..Len(t) :
        \/ t[i] = Sep /\ at[i] = at[i - 1]
        \/ t[i] # Sep /\ at[i] = at[i - 1] + 1 /\ Mapped(t[i]) = p[at[i]]

(* A text is read as what it spells.                                       *)
LEMMA SpelledIsRead ==
    ASSUME NEW n \in Nat, NEW t \in [1..n -> Char], NEW p \in Seq(Alphabet),
           NEW at \in [0..n -> 0..Len(p)], Spells(t, p, at)
    PROVE  Canonical(t) = p
<1>1. Len(t) = n
  OBVIOUS
<1>2. PICK f \in [0..n -> Seq(Read)] :
              Iterates(f, n, Seq(Read), <<>>, Reading(t)) /\ Canonical(t) = f[n]
  BY CanonicalIs
<1>3. f[0] = <<>>
  BY <1>2 DEF Iterates
<1>4. ASSUME NEW i \in 1..n
      PROVE  f[i] = IF t[i] = Sep THEN f[i - 1] ELSE Append(f[i - 1], Mapped(t[i]))
  <2>1. i - 1 \in 0..n
    OBVIOUS
  <2>2. f[i - 1] \in Seq(Read)
    BY <2>1
  <2> QED BY <1>1, <1>2, <2>2 DEF Iterates, Reading
<1> DEFINE T == {k \in Nat : k <= n => f[k] = SubSeq(p, 1, at[k])}
<1>5. 0 \in T
  <2>1. SubSeq(p, 1, 0) = <<>> /\ at[0] = 0
    BY DEF Spells
  <2> QED BY <1>3, <2>1
<1>6. ASSUME NEW k \in Nat, k \in T PROVE k + 1 \in T
  <2> SUFFICES ASSUME k + 1 <= n PROVE f[k + 1] = SubSeq(p, 1, at[k + 1])
    OBVIOUS
  <2>1. PICK i \in 1..n : i = k + 1 /\ i - 1 = k
    OBVIOUS
  <2>2. f[k] = SubSeq(p, 1, at[k]) /\ k \in 0..n
    BY <1>6, <2>1
  <2>3. at[k] \in 0..Len(p) /\ at[i] \in 0..Len(p)
    BY <2>1, <2>2
  <2>4. \/ t[i] = Sep /\ at[i] = at[k]
        \/ t[i] # Sep /\ at[i] = at[k] + 1 /\ Mapped(t[i]) = p[at[i]]
    BY <1>1, <2>1 DEF Spells
  <2>5. CASE t[i] = Sep /\ at[i] = at[k]
    BY <1>4, <2>1, <2>2, <2>5
  <2>6. CASE t[i] # Sep /\ at[i] = at[k] + 1 /\ Mapped(t[i]) = p[at[i]]
    <3>1. f[i] = Append(SubSeq(p, 1, at[k]), p[at[k] + 1])
      BY <1>4, <2>1, <2>2, <2>6
    <3>2. \A m \in 0..Len(p) : m + 1 <= Len(p) => Append(SubSeq(p, 1, m), p[m + 1]) = SubSeq(p, 1, m + 1)
      OBVIOUS
    <3>3. PICK m \in 0..Len(p) : m = at[k] /\ m + 1 <= Len(p)
      BY <2>3, <2>6
    <3> QED BY <2>1, <2>6, <3>1, <3>2, <3>3
  <2> QED BY <2>4, <2>5, <2>6
<1>7. n \in T
  <2> HIDE DEF T
  <2> QED BY <1>5, <1>6, NatSetInduction
<1>8. f[n] = SubSeq(p, 1, Len(p))
  BY <1>1, <1>7 DEF Spells
<1> QED BY <1>2, <1>8

(* A text that is read as a PIN passes the tests.                          *)
LEMMA SpelledIsAccepted ==
    ASSUME NEW p \in Pins, NEW t, Canonical(t) = p
    PROVE  Normalizes(t)
<1>1. PinLen \in Nat /\ p \in [1..PinLen -> Alphabet]
  BY CodeAssumption, PinShape DEF PinLen
<1>2. LooksLikePin(t)
  BY <1>1 DEF LooksLikePin
<1> QED BY <1>2, PinShape DEF Normalizes

(* The places grow by one with every character that is no separator.       *)
LEMMA PlaceCounts ==
    ASSUME NEW n \in Nat, NEW t \in [1..n -> Char]
    PROVE  /\ Place(t, 0) = 0
           /\ \A i \in 0..n : Place(t, i) \in 0..Place(t, n)
           /\ \A i \in 1..n : t[i] = Sep => Place(t, i) = Place(t, i - 1)
           /\ \A i \in 1..n : t[i] # Sep => Place(t, i) = Place(t, i - 1) + 1
<1> DEFINE S(i) == {j \in 1..i : t[j] # Sep}
<1>1. ASSUME NEW i \in Nat PROVE IsFiniteSet(S(i)) /\ Cardinality(S(i)) \in Nat
  <2>1. IsFiniteSet(1..i) /\ S(i) \in SUBSET (1..i)
    BY FS_Interval
  <2> QED BY <2>1, FS_Subset, FS_CardinalityType
<1>2. Place(t, 0) = 0
  <2>1. S(0) = {}
    OBVIOUS
  <2> QED BY <2>1, FS_EmptySet DEF Place
<1>3. ASSUME NEW i \in 0..n PROVE Place(t, i) \in 0..Place(t, n)
  <2>1. S(i) \in SUBSET S(n)
    OBVIOUS
  <2>2. Cardinality(S(i)) <= Cardinality(S(n))
    <3> HIDE DEF S
    <3> QED BY <1>1, <2>1, FS_Subset
  <2>3. Place(t, i) = Cardinality(S(i)) /\ Place(t, n) = Cardinality(S(n))
    BY DEF Place
  <2>4. Cardinality(S(i)) \in Nat /\ Cardinality(S(n)) \in Nat
    <3> HIDE DEF S
    <3>1. i \in Nat /\ n \in Nat
      OBVIOUS
    <3> QED BY <1>1, <3>1
  <2> HIDE DEF S
  <2> QED BY <2>2, <2>3, <2>4
<1>4. ASSUME NEW i \in 1..n, t[i] = Sep PROVE Place(t, i) = Place(t, i - 1)
  <2>1. S(i) = S(i - 1)
    BY <1>4
  <2> QED BY <2>1 DEF Place
<1>5. ASSUME NEW i \in 1..n, t[i] # Sep PROVE Place(t, i) = Place(t, i - 1) + 1
  <2>1. S(i) = S(i - 1) \cup {i} /\ i \notin S(i - 1) /\ i - 1 \in Nat
    BY <1>5
  <2>2. IsFiniteSet(S(i - 1))
    BY <1>1, <2>1
  <2>3. Cardinality(S(i)) = Cardinality(S(i - 1)) + 1
    <3> HIDE DEF S
    <3> QED BY <2>1, <2>2, FS_AddElement
  <2> QED BY <2>3 DEF Place
<1> QED BY <1>2, <1>3, <1>4, <1>5

(* A character that resembles one of the alphabet is read as that.         *)
LEMMA ResemblanceIsRead ==
    ASSUME NEW a \in Alphabet, NEW c, Resembles(c, a)
    PROVE  Mapped(c) = a
BY ReadFacts, Lookalikes DEF Resembles

(* A PIN that is typed with any separators anywhere, and with letters for  *)
(* any of the digits that they resemble, is accepted and taken for what it *)
(* is, however long the text.                                              *)
THEOREM AcceptedAsShown == \A n \in Nat : ReadAsShown(n)
<1> SUFFICES ASSUME NEW n \in Nat, NEW p \in Pins, NEW t \in [1..n -> Char], Shows(t, p)
             PROVE  Canonical(t) = p
  BY SpelledIsAccepted DEF ReadAsShown
<1>1. PinLen \in Nat \ {0, 1} /\ p \in [1..PinLen -> Alphabet]
  BY CodeAssumption, PinShape DEF PinLen
<1>2. p \in Seq(Alphabet) /\ Len(p) = PinLen /\ Len(t) = n
  BY <1>1
<1> DEFINE at == [i \in 0..n |-> Place(t, i)]
<1>3. Place(t, n) = Len(p)
  BY <1>2 DEF Shows
<1>4. at \in [0..n -> 0..Len(p)] /\ at[0] = 0 /\ at[n] = Len(p)
  BY <1>3, PlaceCounts
<1>5. ASSUME NEW i \in 1..n
      PROVE  \/ t[i] = Sep /\ at[i] = at[i - 1]
             \/ t[i] # Sep /\ at[i] = at[i - 1] + 1 /\ Mapped(t[i]) = p[at[i]]
  <2>1. i \in 0..n /\ i - 1 \in 0..n /\ at[i] = Place(t, i) /\ at[i - 1] = Place(t, i - 1)
    OBVIOUS
  <2>2. CASE t[i] = Sep
    BY <2>1, <2>2, PlaceCounts
  <2>3. CASE t[i] # Sep
    <3>1. at[i] = at[i - 1] + 1
      BY <2>1, <2>3, PlaceCounts
    <3>2. at[i] \in 1..PinLen
      <4>1. at[i] \in 0..PinLen /\ at[i - 1] \in 0..PinLen
        BY <1>2, <1>4, <2>1
      <4> QED BY <3>1, <4>1
    <3>3. Resembles(t[i], p[at[i]])
      BY <1>2, <2>1, <2>3 DEF Shows
    <3>4. p[at[i]] \in Alphabet
      BY <1>1, <3>2
    <3> QED BY <2>3, <3>1, <3>3, <3>4, ResemblanceIsRead
  <2> QED BY <2>2, <2>3
<1>6. Spells(t, p, at)
  <2> HIDE DEF at
  <2> QED BY <1>2, <1>4, <1>5 DEF Spells
<1> HIDE DEF at
<1> QED BY <1>2, <1>4, <1>6, SpelledIsRead

(* Whatever is typed is a text.                                            *)
LEMMA TypingsAreTexts ==
    ASSUME NEW p \in Pins, NEW t \in Typings(p)
    PROVE  t \in Seq(Char)
<1>1. PinLen \in Nat \ {0, 1} /\ p \in [1..PinLen -> Alphabet] /\ DataLen \in 1..PinLen
  BY CodeAssumption, PinShape DEF PinLen
<1>2. p \in Seq(Char) /\ Len(p) = PinLen /\ Alphabet \subseteq Char
  BY <1>1 DEF Char
<1>3. \A q \in [1..PinLen -> Char] : q \in Seq(Char)
  BY <1>1
<1>4. CASE t = p \/ t = SubSeq(p, 1, DataLen)
  BY <1>1, <1>2, <1>4
<1>5. CASE t = Grouped(p)
  <2>1. PICK h \in 1..PinLen : h = PinLen \div 2 /\ h < PinLen
    BY <1>1
  <2>2. /\ SubSeq(p, 1, h) \in Seq(Char) /\ SubSeq(p, h + 1, PinLen) \in Seq(Char)
        /\ <<Sep>> \in Seq(Char)
    BY <1>1, <1>2, <2>1 DEF Char
  <2>3. \A x, y, z \in Seq(Char) : x \o y \o z \in Seq(Char)
    OBVIOUS
  <2> QED BY <1>5, <2>1, <2>2, <2>3 DEF Grouped
<1>6. CASE t = Lookalike(p)
  <2>1. \A i \in 1..PinLen : Lookalike(p)[i] \in Char
    BY <1>1, <1>2 DEF Lookalike, Char
  <2>2. Lookalike(p) = [i \in 1..PinLen |-> Lookalike(p)[i]]
    BY <1>1 DEF Lookalike
  <2> QED BY <1>3, <1>6, <2>1, <2>2
<1>7. CASE t = Append(p, 0)
  <2>1. 0 \in Char
    BY <1>2, ReadFacts
  <2> QED BY <1>2, <1>7, <2>1
<1>8. CASE t = [p EXCEPT ![1] = Other]
  <2>1. Other \in Char /\ p \in [1..PinLen -> Char]
    BY <1>1, <1>2 DEF Char
  <2>2. t \in [1..PinLen -> Char]
    BY <1>8, <2>1
  <2> QED BY <1>3, <2>2
<1>9. CASE t \in Misread(p) \cup Exchanged(p)
  <2>1. t \in [1..PinLen -> Alphabet]
    BY <1>1, <1>9, MisreadIs, ExchangedIs DEF MisreadAt, SwappedAt
  <2>2. t \in [1..PinLen -> Char]
    BY <1>2, <2>1
  <2> QED BY <1>3, <2>2
<1> QED BY <1>4, <1>5, <1>6, <1>7, <1>8, <1>9 DEF Typings
=============================================================================
