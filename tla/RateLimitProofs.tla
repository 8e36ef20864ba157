-------------------------- MODULE RateLimitProofs --------------------------
(***************************************************************************)
(* The invariants of RateLimit hold for every rate, unit, capacity, width  *)
(* of the counter and size of the map.                                     *)
(*                                                                         *)
(* The heart is the potential of the bucket: for each admission i, what    *)
(* was admitted since then plus what is left in the bucket is at most the  *)
(* capacity plus what the time up to the last refill pays for. Admission   *)
(* and refill keep it, and it bounds every burst. That i32 wraps around    *)
(* does no harm is a fact about the refill: a wrapped sum is never more    *)
(* than the true one.                                                      *)
(***************************************************************************)
EXTENDS RateLimit, FiniteSetTheorems, TLAPS

-----------------------------------------------------------------------------
(* Arithmetic *)

\* Division with remainder, spelled out.
LEMMA DivMod ==
  ASSUME NEW x \in Int, NEW m \in Nat \ {0}
  PROVE  /\ x \div m \in Int /\ x % m \in 0..(m - 1)
         /\ x = m * (x \div m) + (x % m)
  OBVIOUS

\* An i32 is its number minus a multiple of 2^32, and in range.
LEMMA AsI32Range ==
  ASSUME NEW x \in Int
  PROVE  /\ AsI32(x) \in (-IntHalf)..(IntHalf - 1)
         /\ AsI32(x) = x - (2 * IntHalf) * ((x + IntHalf) \div (2 * IntHalf))
  <1> DEFINE m == 2 * IntHalf
             z == x + IntHalf
  <1>1. m \in Nat \ {0} /\ z \in Int /\ IntHalf \in Nat
    BY RateAssumption
  <1>2. AsI32(x) = (z % m) - IntHalf
    BY DEF AsI32
  <1>3. m = IntHalf + IntHalf /\ x = z - IntHalf
    BY <1>1
  <1> HIDE DEF m, z
  <1>4. /\ z \div m \in Int /\ z % m \in 0..(m - 1)
        /\ z = m * (z \div m) + (z % m)
    BY <1>1, DivMod
  <1>5. m * (z \div m) \in Int
    BY <1>1, <1>4
  <1>6. AsI32(x) \in (-IntHalf)..(IntHalf - 1)
    BY <1>1, <1>2, <1>3, <1>4
  <1>7. AsI32(x) = x - m * (z \div m)
    <2> DEFINE p == m * (z \div m)
               rem == z % m
    <2>1. p \in Int /\ rem \in Int /\ z = p + rem /\ AsI32(x) = rem - IntHalf
      BY <1>1, <1>2, <1>4, <1>5
    <2> HIDE DEF p, rem
    <2>2. AsI32(x) = x - p
      BY <1>1, <1>3, <2>1
    <2> QED BY <2>2 DEF p
  <1> QED BY <1>6, <1>7 DEF m, z

\* Adding wrapped tokens to a wrapped counter never yields more than the sum.
LEMMA WrapLosesTokens ==
  ASSUME NEW c \in Int, c >= -IntHalf, NEW t \in Nat
  PROVE  AsI32(c + AsI32(t)) <= c + t
  <1> DEFINE m == 2 * IntHalf
             q == (t + IntHalf) \div m
             y == c + AsI32(t)
             r == (y + IntHalf) \div m
  <1>1. m \in Nat /\ m > 0 /\ IntHalf \in Nat
    BY RateAssumption
  <1>2. AsI32(t) = t - m * q /\ AsI32(t) \in Int
    BY AsI32Range, RateAssumption
  <1>3. y \in Int
    BY <1>2
  <1>4. AsI32(y) = y - m * r /\ AsI32(y) <= IntHalf - 1 /\ AsI32(y) \in Int
    BY <1>3, AsI32Range, RateAssumption
  <1>5. q \in Int /\ r \in Int
    <2>1. m \in Nat \ {0} /\ t + IntHalf \in Int /\ y + IntHalf \in Int
      BY <1>1, <1>3
    <2> HIDE DEF m, y
    <2> QED BY <2>1, DivMod
  <1> HIDE DEF m, q, r
  <1>6. AsI32(y) = c + t - m * (q + r)
    BY <1>1, <1>2, <1>4, <1>5
  <1> DEFINE k == q + r
  <1>7. k \in Int
    BY <1>5
  <1> HIDE DEF k
  <1>8. k < 0 => m * k <= -m
    BY <1>1, <1>7
  <1>9. m * k \in Int /\ (k >= 0 => m * k >= 0)
    BY <1>1, <1>7
  <1>10. m = IntHalf + IntHalf
    BY <1>1 DEF m
  <1>11. AsI32(y) = c + t - m * k
    BY <1>6 DEF k
  <1> HIDE DEF y
  <1>12. k >= 0
    BY <1>1, <1>4, <1>7, <1>8, <1>9, <1>10, <1>11
  <1> QED BY <1>1, <1>4, <1>7, <1>9, <1>11, <1>12 DEF y

\* The tokens of a refill are paid for by the time since the last one.
LEMMA TokensPaid ==
  ASSUME clock \in Nat, last \in Nat, clock >= last
  PROVE  TokensToAdd \in Nat /\ Unit * TokensToAdd <= Rate * (clock - last)
  <1> DEFINE d == (clock - last) * Rate
  <1>1. d \in Nat /\ Unit \in Nat \ {0} /\ Rate \in Nat
    BY RateAssumption
  <1>2. TokensToAdd = d \div Unit
    BY DEF TokensToAdd
  <1>3. d = Rate * (clock - last)
    BY <1>1
  <1> HIDE DEF d
  <1>4. /\ d \div Unit \in Int /\ d % Unit \in 0..(Unit - 1)
        /\ d = Unit * (d \div Unit) + (d % Unit)
    BY <1>1, DivMod
  <1>5. d \div Unit >= 0
    <2> DEFINE k == d \div Unit
    <2>1. k \in Int /\ (k <= -1 => Unit * k <= -Unit)
      BY <1>1, <1>4
    <2> HIDE DEF k
    <2>2. d = Unit * k + (d % Unit) /\ Unit * k \in Int
      BY <1>1, <1>4, <2>1 DEF k
    <2>3. k >= 0
      BY <1>1, <1>4, <2>1, <2>2
    <2> QED BY <2>3 DEF k
  <1> QED BY <1>1, <1>2, <1>3, <1>4, <1>5

LEMMA TimesMonotone ==
  ASSUME NEW u \in Nat, NEW a \in Int, NEW b \in Int, a <= b
  PROVE  u * a \in Int /\ u * b \in Int /\ u * a <= u * b
  <1>1. u * (b - a) \in Nat
    OBVIOUS
  <1> QED BY <1>1

\* From what is paid for at time l to what is paid for at time m.
LEMMA PayLater ==
  ASSUME NEW u \in Nat, NEW r \in Nat, NEW a \in Int, NEW b \in Int, NEW c \in Int,
         NEW k \in Int, NEW l \in Int, NEW m \in Int, NEW g \in Int,
         u * (a + b) <= k + r * (l - g), u * c <= u * b + r * (m - l)
  PROVE  u * (a + c) <= k + r * (m - g)
  OBVIOUS

-----------------------------------------------------------------------------
(* The token bucket *)

BucketType ==
  /\ limiter \in Limiters
  /\ clock \in 0..MaxTime
  /\ count \in (-IntHalf)..Capacity
  /\ last \in 0..MaxTime
  /\ grants \in Seq(0..MaxTime)

\* What was admitted since admission i, and what is left, has been paid for.
Potential ==
  \A i \in 1..Len(grants) :
    Unit * (Len(grants) - i + 1 + count) <= Unit * Capacity + Rate * (last - grants[i])

BucketInv == BucketType /\ TokensArePaidFor /\ Potential /\ BurstBound

\* A refill keeps the counter in range and adds only what time pays for.
LEMMA RefillIsPaid ==
  ASSUME BucketType, clock >= last
  PROVE  /\ Refilled \in (-IntHalf)..Capacity
         /\ RefillTime \in 0..MaxTime /\ RefillTime >= last
         /\ Unit * Refilled <= Unit * count + Rate * (RefillTime - last)
  <1>1. /\ clock \in Nat /\ last \in Nat /\ count \in Int /\ count >= -IntHalf
        /\ Unit \in Nat /\ Rate \in Nat /\ IntHalf \in Nat /\ Capacity \in Nat
        /\ clock \in 0..MaxTime /\ last \in 0..MaxTime /\ count <= Capacity
    BY RateAssumption, BoundAssumption DEF BucketType
  <1>2. TokensToAdd \in Nat /\ Unit * TokensToAdd <= Rate * (clock - last)
    BY <1>1, TokensPaid
  <1>3. CASE TokensToAdd > 0
    <2> DEFINE sum == AsI32(count + AsI32(TokensToAdd))
    <2>1. sum \in (-IntHalf)..(IntHalf - 1)
      <3>1. count + AsI32(TokensToAdd) \in Int
        BY <1>1, <1>2, AsI32Range
      <3> QED BY <3>1, AsI32Range
    <2>2. sum <= count + TokensToAdd
      BY <1>1, <1>2, WrapLosesTokens
    <2>3. Refilled = IF sum < Capacity THEN sum ELSE Capacity
      BY <1>3 DEF Refilled
    <2> HIDE DEF sum
    <2>4. Refilled \in (-IntHalf)..Capacity /\ Refilled <= count + TokensToAdd
      BY <1>1, <1>2, <2>1, <2>2, <2>3
    <2>5. Unit * Refilled <= Unit * (count + TokensToAdd)
      BY <1>1, <1>2, <2>4, TimesMonotone
    <2>6. Unit * (count + TokensToAdd) = Unit * count + Unit * TokensToAdd
      BY <1>1, <1>2
    <2>7. RefillTime = clock
      BY <1>3 DEF RefillTime
    <2>8. Unit * Refilled <= Unit * count + Rate * (clock - last)
      <3>1. /\ Unit * Refilled \in Int /\ Unit * count \in Int
            /\ Unit * TokensToAdd \in Int /\ Rate * (clock - last) \in Int
        BY <1>1, <1>2, <2>4
      <3> QED BY <1>2, <2>5, <2>6, <3>1
    <2> QED BY <1>1, <2>4, <2>7, <2>8
  <1>4. CASE ~(TokensToAdd > 0)
    <2>1. Refilled = count /\ RefillTime = last
      BY <1>4 DEF Refilled, RefillTime
    <2> QED BY <1>1, <2>1
  <1> QED BY <1>3, <1>4

LEMMA TakeKeepsInv ==
  ASSUME BucketInv, TakeToken, UNCHANGED <<limiter, clock>>
  PROVE  BucketInv'
  <1> DEFINE n == Len(grants)
             c == Refilled
             now == RefillTime
  <1>1. /\ clock \in 0..MaxTime /\ last \in 0..MaxTime /\ count \in Int
        /\ Unit \in Nat /\ Rate \in Nat /\ IntHalf \in Nat /\ Capacity \in Nat
        /\ grants \in Seq(0..MaxTime) /\ n \in Nat /\ MaxTime \in Nat
    BY RateAssumption, BoundAssumption DEF BucketInv, BucketType
  <1>2. /\ c \in (-IntHalf)..Capacity /\ c > 0
        /\ now \in 0..MaxTime /\ now >= last
        /\ Unit * c <= Unit * count + Rate * (now - last)
    BY RefillIsPaid DEF BucketInv, TakeToken
  <1>3. count' = c - 1 /\ last' = now /\ grants' = Append(grants, now)
    BY DEF TakeToken
  <1>4. /\ Len(grants') = n + 1
        /\ grants' \in Seq(0..MaxTime)
        /\ \A i \in 1..n : grants'[i] = grants[i] /\ grants[i] \in 0..MaxTime
        /\ grants'[n + 1] = now
    BY <1>1, <1>2, <1>3
  <1> HIDE DEF n, c, now
  <1>5. BucketType'
    BY <1>1, <1>2, <1>3, <1>4 DEF BucketInv, BucketType
  <1>6. TokensArePaidFor'
    <2>1. Unit * (n + count) <= Rate * last
      BY DEF BucketInv, TokensArePaidFor, n
    <2>2. Unit * (n + c) <= Rate * now
      BY <1>1, <1>2, <2>1
    <2>3. Len(grants') + count' = n + c
      BY <1>1, <1>2, <1>3, <1>4
    <2> QED BY <1>3, <2>2, <2>3 DEF TokensArePaidFor
  <1>7. Potential'
    <2> SUFFICES ASSUME NEW i \in 1..Len(grants')
                 PROVE  Unit * (Len(grants') - i + 1 + count')
                          <= Unit * Capacity + Rate * (last' - grants'[i])
      BY DEF Potential
    <2>1. i \in 1..(n + 1) /\ Len(grants') - i + 1 + count' = (n - i + 1) + c
      BY <1>1, <1>2, <1>3, <1>4
    <2>2. CASE i \in 1..n
      <3>1. Unit * ((n - i + 1) + count) <= Unit * Capacity + Rate * (last - grants[i])
        BY <2>2 DEF BucketInv, Potential, n
      <3>2. n - i + 1 \in Int /\ grants[i] \in Int /\ Unit * Capacity \in Int
        BY <1>1, <1>4, <2>2
      <3>3. last \in Int /\ now \in Int /\ c \in Int
        BY <1>1, <1>2
      <3> HIDE DEF BucketInv
      <3>4. Unit * ((n - i + 1) + c) <= Unit * Capacity + Rate * (now - grants[i])
        BY <1>1, <1>2, <3>1, <3>2, <3>3, PayLater
      <3> QED BY <1>3, <1>4, <2>1, <2>2, <3>4
    <2>3. CASE i = n + 1
      <3>1. (n - i + 1) + c = c /\ now - grants'[i] = 0
        BY <1>1, <1>2, <1>4, <2>3
      <3>2. Unit * c <= Unit * Capacity
        BY <1>1, <1>2, TimesMonotone
      <3>3. Unit * Capacity + Rate * 0 = Unit * Capacity
        BY <1>1
      <3> QED BY <1>3, <2>1, <3>1, <3>2, <3>3
    <2> QED BY <1>1, <2>1, <2>2, <2>3
  <1>8. BurstBound'
    <2> SUFFICES ASSUME NEW i \in 1..Len(grants'), NEW j \in i..Len(grants')
                 PROVE  Unit * (j - i + 1)
                          <= Unit * Capacity + Rate * (grants'[j] - grants'[i])
      BY DEF BurstBound
    <2>1. i \in 1..(n + 1) /\ j \in i..(n + 1)
      BY <1>4
    <2>2. CASE j \in i..n
      <3>1. i \in 1..n /\ j \in 1..n
        BY <1>1, <2>1, <2>2
      <3> QED BY <1>4, <2>2, <3>1 DEF BucketInv, BurstBound, n
    <2>3. CASE j = n + 1
      <3> DEFINE long == Len(grants') - i + 1 + count'
                 paid == Unit * Capacity + Rate * (last' - grants'[i])
      <3>1. Unit * long <= paid
        BY <1>7 DEF Potential
      <3>2. j - i + 1 \in Int /\ long \in Int /\ j - i + 1 <= long
        BY <1>1, <1>2, <1>3, <1>4, <2>1, <2>3
      <3>3. grants'[j] = last' /\ paid \in Int
        <4>1. grants'[i] \in Int /\ now \in Int
          BY <1>1, <1>2, <1>4, <2>1
        <4> QED BY <1>1, <1>3, <1>4, <2>3, <4>1
      <3> HIDE DEF long
      <3>4. /\ Unit * (j - i + 1) \in Int /\ Unit * long \in Int
            /\ Unit * (j - i + 1) <= Unit * long
        BY <1>1, <3>2, TimesMonotone
      <3>5. paid = Unit * Capacity + Rate * (grants'[j] - grants'[i])
        BY <3>3
      <3> HIDE DEF paid
      <3>6. Unit * (j - i + 1) <= paid
        BY <3>1, <3>3, <3>4
      <3> QED BY <3>5, <3>6
    <2> QED BY <1>1, <2>1, <2>2, <2>3
  <1> QED BY <1>5, <1>6, <1>7, <1>8 DEF BucketInv

\* A call that is denied keeps the refill, and the refill is paid for.
LEMMA DenyKeepsInv ==
  ASSUME BucketInv, DenyToken, UNCHANGED <<limiter, clock>>
  PROVE  BucketInv'
  <1> DEFINE n == Len(grants)
             c == Refilled
             now == RefillTime
  <1>1. /\ clock \in 0..MaxTime /\ last \in 0..MaxTime /\ count \in Int
        /\ Unit \in Nat /\ Rate \in Nat /\ IntHalf \in Nat /\ Capacity \in Nat
        /\ grants \in Seq(0..MaxTime) /\ n \in Nat /\ MaxTime \in Nat
    BY RateAssumption, BoundAssumption DEF BucketInv, BucketType
  <1>2. /\ c \in (-IntHalf)..Capacity /\ now \in 0..MaxTime
        /\ Unit * c <= Unit * count + Rate * (now - last)
    BY RefillIsPaid DEF BucketInv, DenyToken
  <1>3. count' = c /\ last' = now /\ grants' = grants
    BY DEF DenyToken
  <1> HIDE DEF n, c, now
  <1>4. BucketType'
    BY <1>1, <1>2, <1>3 DEF BucketInv, BucketType
  <1>5. TokensArePaidFor'
    <2>1. Unit * (n + count) <= Rate * last
      BY DEF BucketInv, TokensArePaidFor, n
    <2>2. Unit * (n + c) <= Rate * now
      BY <1>1, <1>2, <2>1
    <2> QED BY <1>3, <2>2 DEF TokensArePaidFor, n
  <1>6. Potential'
    <2> SUFFICES ASSUME NEW i \in 1..n
                 PROVE  Unit * ((n - i + 1) + c) <= Unit * Capacity + Rate * (now - grants[i])
      BY <1>3 DEF Potential, n
    <2>1. Unit * ((n - i + 1) + count) <= Unit * Capacity + Rate * (last - grants[i])
      BY DEF BucketInv, Potential, n
    <2>2. n - i + 1 \in Int /\ grants[i] \in Int /\ Unit * Capacity \in Int
      BY <1>1 DEF n
    <2>3. last \in Int /\ now \in Int /\ c \in Int
      BY <1>1, <1>2
    <2> HIDE DEF BucketInv
    <2> QED BY <1>1, <1>2, <2>1, <2>2, <2>3, PayLater
  <1>7. BurstBound'
    BY <1>3 DEF BucketInv, BurstBound
  <1> QED BY <1>4, <1>5, <1>6, <1>7 DEF BucketInv

-----------------------------------------------------------------------------
(* The fixed window *)

WindowType ==
  /\ DOMAIN countMap \subseteq Windows
  /\ \A w \in DOMAIN countMap : countMap[w] \in Nat
  /\ admitted \in [Windows -> Nat]
  /\ evicted \subseteq Windows

\* A window that never had a counter admitted nothing.
Untouched ==
  \A w \in Windows \ (evicted \cup DOMAIN countMap) : admitted[w] = 0

WindowInv == WindowType /\ MapIsBounded /\ WindowCountsExactly /\ Untouched

LEMMA WindowInRange ==
  ASSUME clock \in 0..MaxTime
  PROVE  Window \in Windows
  <1>1. /\ clock \in Nat /\ MaxTime \in Nat /\ clock <= MaxTime
        /\ Unit \in Nat /\ Unit > 0
    BY RateAssumption, BoundAssumption
  <1> DEFINE a == clock \div Unit
             b == MaxTime \div Unit
             ra == clock % Unit
             rb == MaxTime % Unit
  <1>2. /\ a \in Int /\ b \in Int /\ ra \in 0..(Unit - 1) /\ rb \in 0..(Unit - 1)
        /\ clock = Unit * a + ra /\ MaxTime = Unit * b + rb
    BY <1>1, DivMod
  <1> HIDE DEF a, b, ra, rb
  <1>3. a >= 0
    <2>1. a <= -1 => Unit * a <= Unit * (-1) /\ Unit * a \in Int
      BY <1>1, <1>2, TimesMonotone
    <2>2. Unit * (-1) = -Unit
      BY <1>1
    <2> QED BY <1>1, <1>2, <2>1, <2>2
  <1>4. a <= b
    <2>1. a >= b + 1 => Unit * (b + 1) <= Unit * a
      BY <1>1, <1>2, TimesMonotone
    <2>2. Unit * (b + 1) = Unit * b + Unit /\ Unit * a \in Int /\ Unit * b \in Int
      BY <1>1, <1>2
    <2> QED BY <1>1, <1>2, <2>1, <2>2
  <1> QED BY <1>2, <1>3, <1>4 DEF Window, Windows, a, b

LEMMA FinitelyManyWindows ==
  ASSUME NEW S \in SUBSET Windows
  PROVE  IsFiniteSet(S) /\ Cardinality(S) \in Nat
  <1>1. 0 \in Int /\ MaxTime \div Unit \in Int
    BY RateAssumption, BoundAssumption, DivMod
  <1>2. IsFiniteSet(Windows)
    BY <1>1, FS_Interval DEF Windows
  <1> QED BY <1>2, FS_Subset, FS_CardinalityType

\* What an eviction leaves is a part of the map, with room for a counter.
LEMMA EvictionMakesRoom ==
  ASSUME WindowInv, NEW map \in AfterEviction
  PROVE  /\ DOMAIN map \subseteq DOMAIN countMap
         /\ \A w \in DOMAIN map : map[w] = countMap[w]
         /\ Cardinality(DOMAIN map) < MapSize
  <1>1. /\ DOMAIN countMap \in SUBSET Windows
        /\ Cardinality(DOMAIN countMap) <= MapSize /\ MapSize \in Nat
    BY RateAssumption DEF WindowInv, WindowType, MapIsBounded
  <1>2. IsFiniteSet(DOMAIN countMap) /\ Cardinality(DOMAIN countMap) \in Nat
    BY <1>1, FinitelyManyWindows
  <1>3. CASE Cardinality(DOMAIN countMap) >= MapSize
    <2>1. PICK w \in DOMAIN countMap : map = Drop(countMap, w)
      BY <1>3 DEF AfterEviction
    <2>2. DOMAIN map = DOMAIN countMap \ {w} /\ \A v \in DOMAIN map : map[v] = countMap[v]
      BY <2>1 DEF Drop
    <2>3. Cardinality(DOMAIN countMap \ {w}) = Cardinality(DOMAIN countMap) - 1
      BY <1>2, <2>1, FS_RemoveElement
    <2> QED BY <1>1, <1>2, <2>2, <2>3
  <1>4. CASE ~(Cardinality(DOMAIN countMap) >= MapSize)
    <2>1. map = countMap
      BY <1>4 DEF AfterEviction
    <2> QED BY <1>1, <1>2, <1>4, <2>1
  <1> QED BY <1>3, <1>4

LEMMA FixedWindowKeepsInv ==
  ASSUME BucketInv, WindowInv, FixedWindowCheck
  PROVE  WindowInv'
  <1>1. PICK map \in AfterEviction :
          /\ countMap' = [w \in DOMAIN map \cup {Window} |->
                            IF w = Window THEN Counter(map) ELSE map[w]]
          /\ evicted' = evicted \cup (DOMAIN countMap \ DOMAIN map)
          /\ admitted' = IF Rate - Counter(map) >= 0
                         THEN [admitted EXCEPT ![Window] = @ + 1] ELSE admitted
    BY DEF FixedWindowCheck
  <1>2. /\ DOMAIN map \subseteq DOMAIN countMap
        /\ \A w \in DOMAIN map : map[w] = countMap[w]
        /\ Cardinality(DOMAIN map) < MapSize
    BY EvictionMakesRoom
  <1>3. /\ DOMAIN countMap \subseteq Windows /\ \A w \in DOMAIN countMap : countMap[w] \in Nat
        /\ admitted \in [Windows -> Nat] /\ evicted \subseteq Windows
        /\ Window \in Windows /\ Rate \in Nat /\ Rate > 0 /\ MapSize \in Nat
    BY WindowInRange, RateAssumption DEF BucketInv, BucketType, WindowInv, WindowType
  <1>4. Counter(map) = (IF Window \in DOMAIN map THEN countMap[Window] + 1 ELSE 1)
    BY <1>2, <1>3 DEF Counter
  <1> DEFINE c == Counter(map)
             win == Window
  <1>5. c \in Nat /\ c >= 1
    BY <1>2, <1>3, <1>4
  <1>6. /\ DOMAIN countMap' = {win} \cup DOMAIN map
        /\ countMap'[win] = c
        /\ \A w \in DOMAIN map \ {win} : countMap'[w] = countMap[w]
    BY <1>1, <1>2
  <1>7. /\ admitted' \in [Windows -> Nat]
        /\ admitted'[win] = IF c <= Rate THEN admitted[win] + 1 ELSE admitted[win]
        /\ \A w \in Windows \ {win} : admitted'[w] = admitted[w]
    BY <1>1, <1>3, <1>5
  <1>8. win \in Windows /\ (c = IF win \in DOMAIN map THEN countMap[win] + 1 ELSE 1)
    BY <1>3, <1>4
  <1> HIDE DEF c, win
  <1>9. WindowType'
    BY <1>1, <1>2, <1>3, <1>5, <1>6, <1>7, <1>8 DEF WindowType
  <1>10. MapIsBounded'
    <2>1. DOMAIN map \in SUBSET Windows
      BY <1>2, <1>3
    <2>2. IsFiniteSet(DOMAIN map) /\ Cardinality(DOMAIN map) \in Nat
      BY <2>1, FinitelyManyWindows
    <2>3. Cardinality(DOMAIN map \cup {win}) <= Cardinality(DOMAIN map) + 1
      <3>1. CASE win \in DOMAIN map
        <4>1. DOMAIN map \cup {win} = DOMAIN map
          BY <3>1
        <4> QED BY <2>2, <4>1
      <3>2. CASE win \notin DOMAIN map
        <4>1. Cardinality(DOMAIN map \cup {win}) = Cardinality(DOMAIN map) + 1
          BY <2>2, <3>2, FS_AddElement
        <4> QED BY <2>2, <4>1
      <3> QED BY <3>1, <3>2
    <2>4. DOMAIN countMap' = DOMAIN map \cup {win}
      BY <1>6
    <2>5. Cardinality(DOMAIN countMap') <= Cardinality(DOMAIN map) + 1
      BY <2>3, <2>4
    <2>6. Cardinality(DOMAIN countMap') \in Nat
      <3>1. DOMAIN countMap' \in SUBSET Windows
        BY <2>1, <2>4, <1>8
      <3> QED BY <3>1, FinitelyManyWindows
    <2> QED BY <1>2, <1>3, <2>2, <2>5, <2>6 DEF MapIsBounded
  <1>11. WindowCountsExactly'
    <2> SUFFICES ASSUME NEW w \in DOMAIN countMap' \ evicted'
                 PROVE  admitted'[w] = IF countMap'[w] < Rate THEN countMap'[w] ELSE Rate
      BY DEF WindowCountsExactly
    <2>1. w \notin evicted /\ w \notin DOMAIN countMap \ DOMAIN map
      BY <1>1
    <2>2. CASE w # win
      <3>1. w \in DOMAIN map /\ w \in Windows /\ countMap'[w] = countMap[w]
        BY <1>2, <1>3, <1>6, <2>2
      <3> QED BY <1>2, <1>7, <2>1, <2>2, <3>1 DEF WindowInv, WindowCountsExactly
    <2>3. CASE w = win /\ win \in DOMAIN map
      <3>1. admitted[win] = IF countMap[win] < Rate THEN countMap[win] ELSE Rate
        BY <1>2, <2>1, <2>3 DEF WindowInv, WindowCountsExactly
      <3>2. c = countMap[win] + 1 /\ countMap[win] \in Nat
        BY <1>2, <1>3, <1>8, <2>3
      <3> QED BY <1>3, <1>6, <1>7, <2>3, <3>1, <3>2
    <2>4. CASE w = win /\ win \notin DOMAIN map
      <3>1. admitted[win] = 0
        BY <1>8, <2>1, <2>4 DEF WindowInv, Untouched
      <3>2. c = 1
        BY <1>8, <2>4
      <3> QED BY <1>3, <1>6, <1>7, <2>4, <3>1, <3>2
    <2> QED BY <2>2, <2>3, <2>4
  <1>12. Untouched'
    BY <1>1, <1>2, <1>6, <1>7 DEF WindowInv, Untouched
  <1> QED BY <1>9, <1>10, <1>11, <1>12 DEF WindowInv

-----------------------------------------------------------------------------
(* The specification *)

Inv == BucketInv /\ WindowInv

LEMMA InitInv == Init => Inv
  <1> SUFFICES ASSUME Init PROVE Inv
    OBVIOUS
  <1>1. /\ MaxTime \in Nat /\ Capacity \in Nat /\ IntHalf \in Nat /\ Unit \in Nat
        /\ Rate \in Nat /\ MapSize \in Nat
    BY RateAssumption, BoundAssumption
  <1>2. BucketInv
    BY <1>1 DEF Init, BucketInv, BucketType, TokensArePaidFor, Potential, BurstBound
  <1>3. DOMAIN countMap = {} /\ Cardinality({}) = 0
    BY FS_EmptySet DEF Init
  <1>4. WindowInv
    BY <1>1, <1>3 DEF Init, WindowInv, WindowType, MapIsBounded, WindowCountsExactly, Untouched
  <1> QED BY <1>2, <1>4 DEF Inv

LEMMA NextInv == Inv /\ [Next]_vars => Inv'
  <1> SUFFICES ASSUME Inv, [Next]_vars PROVE Inv'
    OBVIOUS
  <1> USE DEF Inv
  <1>1. UNCHANGED windowVars => WindowInv'
    BY DEF windowVars, WindowInv, WindowType, MapIsBounded, WindowCountsExactly, Untouched
  <1>2. UNCHANGED <<limiter, bucketVars>> /\ clock' \in 0..MaxTime => BucketInv'
    BY DEF bucketVars, BucketInv, BucketType, TokensArePaidFor, Potential, BurstBound
  <1>3. clock \in 0..MaxTime
    BY DEF BucketInv, BucketType
  <1>4. CASE TokenBucketCheck
    <2>1. BucketInv'
      <3>1. CASE ClockBehind
        BY <1>2, <1>3, <1>4, <3>1 DEF TokenBucketCheck, ClockBehind
      <3>2. CASE TakeToken
        BY <1>4, <3>2, TakeKeepsInv DEF TokenBucketCheck
      <3>3. CASE DenyToken
        BY <1>4, <3>3, DenyKeepsInv DEF TokenBucketCheck
      <3> QED BY <1>4, <3>1, <3>2, <3>3 DEF TokenBucketCheck
    <2> QED BY <1>1, <1>4, <2>1 DEF TokenBucketCheck
  <1>5. CASE FixedWindowCheck
    <2>1. WindowInv'
      BY <1>5, FixedWindowKeepsInv
    <2> QED BY <1>2, <1>3, <1>5, <2>1 DEF FixedWindowCheck
  <1>6. CASE SetClock
    BY <1>1, <1>2, <1>6 DEF SetClock
  <1>7. CASE UNCHANGED vars
    BY <1>1, <1>2, <1>3, <1>7 DEF vars
  <1> QED BY <1>4, <1>5, <1>6, <1>7 DEF Next

\* The strengthened invariant of both limiters holds in every reachable state.
THEOREM Invariance == Spec => []Inv
  <1> QED BY InitInv, NextInv, PTL DEF Spec

\* The fields of the limiters keep their types: the bucket is capped and its
\* i32 counter never leaves its range.
THEOREM TypeCorrect == Spec => []TypeOK
  <1>1. Inv => TypeOK
    BY DEF Inv, BucketInv, BucketType, WindowInv, WindowType, TypeOK
  <1> QED BY <1>1, Invariance, PTL

\* Tokens admitted and left are paid for by elapsed time, for every clock and
\* wherever the counter wraps around.
THEOREM PaymentCorrect == Spec => []TokensArePaidFor
  <1>1. Inv => TokensArePaidFor
    BY DEF Inv, BucketInv
  <1> QED BY <1>1, Invariance, PTL

\* Every burst is within the capacity plus what its duration refills.
THEOREM BurstCorrect == Spec => []BurstBound
  <1>1. Inv => BurstBound
    BY DEF Inv, BucketInv
  <1> QED BY <1>1, Invariance, PTL

\* The map of the fixed window never outgrows its size.
THEOREM MapBoundCorrect == Spec => []MapIsBounded
  <1>1. Inv => MapIsBounded
    BY DEF Inv, WindowInv
  <1> QED BY <1>1, Invariance, PTL

\* A window that kept its counter admitted exactly its first Rate requests.
THEOREM WindowCorrect == Spec => []WindowCountsExactly
  <1>1. Inv => WindowCountsExactly
    BY DEF Inv, WindowInv
  <1> QED BY <1>1, Invariance, PTL
=============================================================================
