----------------------------- MODULE CodecProofs -----------------------------
(***************************************************************************)
(* That what is accepted is just what the value read from it is written as *)
(* (Canonical): for any types, streams and scopes, however deep the types  *)
(* nest.                                                                   *)
(***************************************************************************)
EXTENDS Codec, ReaderProofs, FiniteSetTheorems

---------------------------------------------------------------------------
(* Quotients. *)

LEMMA QuotientIs ==
  ASSUME NEW q \in Nat, NEW w \in Nat \ {0}, NEW r \in 0..(w - 1)
  PROVE  q * w + r \in Nat /\ (q * w + r) \div w = q /\ (q * w + r) % w = r
<1> DEFINE x == q * w + r
           d == x \div w
           m == x % w
<1>1. x \in Nat /\ q * w \in Nat
  BY NatTimes
<1> HIDE DEF x
<1>2. d \in Nat /\ x = d * w + m /\ m \in 0..(w - 1)
  <2>1. m \in 0..(w - 1)
    BY <1>1
  <2>. QED
    BY <1>1, <2>1, Quotients
<1> HIDE DEF d, m
<1>3. q * w + r = d * w + m
  BY <1>2 DEF x
<1>4. ~ (q < d)
  <2>1. SUFFICES ASSUME q < d
                 PROVE  FALSE
    OBVIOUS
  <2>2. q + 1 <= d /\ q + 1 \in Int
    BY <1>2, <2>1
  <2>3. (q + 1) * w <= d * w /\ (q + 1) * w = q * w + w /\ d * w \in Int
    BY <1>2, <2>2, MoreTimes
  <2>. QED
    BY <1>1, <1>2, <1>3, <2>3
<1>5. ~ (d < q)
  <2>1. SUFFICES ASSUME d < q
                 PROVE  FALSE
    OBVIOUS
  <2>2. d + 1 <= q /\ d + 1 \in Int
    BY <1>2, <2>1
  <2>3. (d + 1) * w <= q * w /\ (d + 1) * w = d * w + w /\ d * w \in Int
    BY <1>2, <2>2, MoreTimes
  <2>. QED
    BY <1>1, <1>2, <1>3, <2>3
<1>6. d = q
  BY <1>2, <1>4, <1>5
<1>7. m = r
  BY <1>1, <1>2, <1>3, <1>6
<1>. QED
  BY <1>1, <1>6, <1>7 DEF d, m, x

LEMMA QuotientOfQuotient ==
  ASSUME NEW x \in Nat, NEW p \in Nat \ {0}, NEW q \in Nat \ {0}, NEW w, w = p * q
  PROVE  w \in Nat \ {0} /\ x \div w = (x \div p) \div q
<1> DEFINE a == x \div p
           r == x % p
           b == a \div q
           s == a % q
<1>1. a \in Nat /\ x = a * p + r /\ r \in 0..(p - 1)
  <2>1. r \in 0..(p - 1)
    OBVIOUS
  <2>. QED
    BY <2>1, Quotients
<1> HIDE DEF a, r
<1>2. b \in Nat /\ a = b * q + s /\ s \in 0..(q - 1)
  <2>1. s \in 0..(q - 1)
    BY <1>1
  <2>. QED
    BY <1>1, <2>1, Quotients
<1> HIDE DEF b, s
<1>3. p * q \in Nat \ {0}
  BY Products
<1>4. r + p * s \in 0..(p * q - 1)
  BY <1>1, <1>2, DigitsFit
<1>5. x = b * (p * q) + (r + p * s)
  <2>1. a * p = b * (p * q) + p * s
    BY <1>2
  <2>2. /\ a * p \in Nat /\ p * s \in Nat /\ b * (p * q) \in Nat
    BY <1>1, <1>2, <1>3, NatTimes
  <2>. QED
    BY <1>1, <2>1, <2>2
<1> DEFINE left == r + p * s
<1>6. w \in Nat \ {0} /\ left \in 0..(w - 1) /\ x = b * w + left
  BY <1>3, <1>4, <1>5
<1> HIDE DEF left
<1>7. (b * w + left) \div w = b
  BY <1>2, <1>6, QuotientIs
<1>8. x \div w = b
  BY <1>6, <1>7
<1>. QED
  BY <1>6, <1>8 DEF a, b

LEMMA HalfOfQuotient ==
  ASSUME NEW x \in Nat, NEW p \in Nat \ {0}, NEW w, w = 2 * p
  PROVE  x \div w = (x \div p) \div 2
<1>1. w = p * 2
  OBVIOUS
<1>. QED
  BY <1>1, QuotientOfQuotient

---------------------------------------------------------------------------
(* Numbers are written as they are read. *)

LEMMA DigitsRead ==
  ASSUME NEW bytes \in Seq(Octets), NEW k \in 1..Len(bytes)
  PROVE  (FromBytes(bytes) \div pow2[BitsPerByte * (k - 1)]) % pow2[BitsPerByte] = bytes[k]
<1> DEFINE n == Len(bytes)
           base == pow2[BitsPerByte]
           number == FromBytes(bytes)
<1>1. n \in Nat /\ BitsPerByte \in Nat \ {0} /\ base \in Nat \ {0} /\ k \in 1..n
  BY BytesHaveBits
<1>2. bytes \in Seq(Nat) /\ \A i \in 1..n : bytes[i] \in 0..(base - 1)
  <2>1. Octets \subseteq Nat
    BY DEF Octets
  <2>2. bytes \in Seq(Nat)
    BY <2>1, SeqMonotonic
  <2>3. \A i \in 1..n : bytes[i] \in Octets
    OBVIOUS
  <2>. QED
    BY <2>2, <2>3 DEF Octets
<1>3. PICK top : Spells(top, bytes, base)
  BY <1>1, <1>2, SpelledIs
<1>4. /\ number = top[n]
      /\ \A i \in 1..n : top[i] = bytes[n + 1 - i] + base * top[i - 1]
      /\ \A i \in 0..n : top[i] \in Nat
  BY <1>3 DEF Spells, FromBytes
<1> HIDE DEF n, base, number
<1>5. ASSUME NEW i \in 1..n
      PROVE  top[i] \div base = top[i - 1] /\ top[i] % base = bytes[n + 1 - i]
  <2>1. n + 1 - i \in 1..n /\ i - 1 \in 0..n
    BY <1>1
  <2> DEFINE digit == bytes[n + 1 - i]
             above == top[i - 1]
  <2>2. digit \in 0..(base - 1) /\ above \in Nat /\ top[i] = digit + base * above
    BY <1>2, <1>4, <2>1
  <2> HIDE DEF digit, above
  <2>3. base * above = above * base /\ above * base \in Nat
    BY <1>1, <2>2, NatTimes
  <2>4. top[i] = above * base + digit
    BY <2>2, <2>3
  <2>5. (above * base + digit) \div base = above /\ (above * base + digit) % base = digit
    BY <1>1, <2>2, QuotientIs
  <2>6. top[i] \div base = above /\ top[i] % base = digit
    BY <2>4, <2>5
  <2>. QED
    BY <2>6 DEF digit, above
<1> DEFINE S == {j \in Nat : j <= n => number \div pow2[BitsPerByte * j] = top[n - j]}
<1>6. 0 \in S
  <2>1. BitsPerByte * 0 = 0 /\ pow2[0] = 1 /\ n - 0 = n /\ n \in 0..n
    BY <1>1, Powers
  <2>2. number \in Nat /\ number \div 1 = number
    BY <1>4, <2>1
  <2>. QED
    BY <1>4, <2>1, <2>2
<1>7. ASSUME NEW j \in Nat, j \in S
      PROVE  j + 1 \in S
  <2>1. ASSUME j + 1 <= n
        PROVE  number \div pow2[BitsPerByte * (j + 1)] = top[n - (j + 1)]
    <3>1. /\ n - j \in 1..n /\ (n - j) - 1 = n - (j + 1) /\ j <= n
          /\ n \in 0..n
      BY <1>1, <2>1
    <3>2. BitsPerByte * (j + 1) = BitsPerByte * j + BitsPerByte /\ BitsPerByte * j \in Nat
      BY <1>1
    <3> DEFINE width == pow2[BitsPerByte * j]
    <3>3. pow2[BitsPerByte * (j + 1)] = width * base /\ width \in Nat \ {0}
      BY <1>1, <3>2, PowersMultiply, PowerOf DEF base
    <3>4. number \div width = top[n - j]
      BY <1>7, <3>1
    <3> HIDE DEF width
    <3>5. number \div (width * base) = (number \div width) \div base
      BY <1>1, <1>4, <3>1, <3>3, QuotientOfQuotient
    <3>6. top[n - j] \div base = top[(n - j) - 1]
      BY <1>5, <3>1
    <3>. QED
      BY <3>1, <3>3, <3>4, <3>5, <3>6
  <2>. QED
    BY <2>1
<1>8. Nat \subseteq S
  <2> HIDE DEF S
  <2>. QED
    BY <1>6, <1>7, FromZeroUp
<1>9. k - 1 \in Nat /\ k - 1 <= n /\ n - (k - 1) \in 1..n /\ n + 1 - (n - (k - 1)) = k
  BY <1>1
<1>10. number \div pow2[BitsPerByte * (k - 1)] = top[n - (k - 1)]
  <2>1. k - 1 \in S
    <3> HIDE DEF S
    <3>. QED
      BY <1>8, <1>9
  <2>. QED
    BY <1>9, <2>1
<1>11. top[n - (k - 1)] % base = bytes[k]
  <2>1. top[n - (k - 1)] % base = bytes[n + 1 - (n - (k - 1))]
    BY <1>5, <1>9
  <2>. QED
    BY <1>9, <2>1
<1>. QED
  BY <1>10, <1>11 DEF number, base

LEMMA WrittenAsRead ==
  ASSUME NEW bytes \in Seq(Octets), NEW n, n = Len(bytes)
  PROVE  ToBytes(FromBytes(bytes), n) = bytes
<1>1. ToBytes(FromBytes(bytes), n) = [k \in 1..Len(bytes) |-> bytes[k]]
  BY DigitsRead DEF ToBytes
<1>2. bytes = [k \in 1..Len(bytes) |-> bytes[k]]
  OBVIOUS
<1>. QED
  BY <1>1, <1>2

(* A number of one byte is that byte. *)
LEMMA OneByte ==
  ASSUME NEW bytes \in Seq(Octets), Len(bytes) = 1
  PROVE  <<FromBytes(bytes)>> = bytes
<1>1. bytes \in Seq(Nat) /\ bytes[1] \in Octets /\ Octets \subseteq Nat
  <2>1. Octets \subseteq Nat
    BY DEF Octets
  <2>2. bytes \in Seq(Nat)
    BY <2>1, SeqMonotonic
  <2>3. bytes[1] \in Octets
    OBVIOUS
  <2>. QED
    BY <2>1, <2>2, <2>3
<1>2. PICK top : Spells(top, bytes, pow2[BitsPerByte])
  BY <1>1, BytesHaveBits, SpelledIs
<1>3. /\ top[0] = 0 /\ FromBytes(bytes) = top[1]
      /\ top[1] = bytes[1] + pow2[BitsPerByte] * top[0]
  <2>1. 1 \in 1..Len(bytes) /\ Len(bytes) + 1 - 1 = 1 /\ 1 - 1 = 0
    OBVIOUS
  <2>2. top[1] = bytes[Len(bytes) + 1 - 1] + pow2[BitsPerByte] * top[1 - 1]
    BY <1>2, <2>1 DEF Spells
  <2>. QED
    BY <1>2, <2>1, <2>2 DEF Spells, FromBytes
<1>4. FromBytes(bytes) = bytes[1]
  <2>1. bytes[1] \in Nat
    BY <1>1
  <2>2. pow2[BitsPerByte] * top[0] = 0
    BY <1>3, BytesHaveBits
  <2>. QED
    BY <1>3, <2>1, <2>2
<1>. QED
  BY <1>4

---------------------------------------------------------------------------
(* Bits are packed as they are read. *)

BitsOf(x, n) == [b \in 1..n |-> (x \div pow2[b - 1]) % 2]

(* So many bits spell the number they are of. *)
LEMMA BitsSpell ==
  ASSUME NEW n \in Nat, NEW x, x \in Nat, x < pow2[n]
  PROVE  Spelled(BitsOf(x, n), 2) = x
<1> DEFINE bits == BitsOf(x, n)
<1>1. \A b \in 1..n : bits[b] = (x \div pow2[b - 1]) % 2 /\ bits[b] \in {0, 1}
  <2>1. ASSUME NEW b \in 1..n
        PROVE  bits[b] = (x \div pow2[b - 1]) % 2 /\ bits[b] \in {0, 1}
    <3>1. b - 1 \in Nat
      OBVIOUS
    <3>2. bits[b] = (x \div pow2[b - 1]) % 2
      BY DEF BitsOf
    <3>. QED
      BY <3>1, <3>2, BitOf
  <2>. QED
    BY <2>1
<1>2. bits = [b \in 1..n |-> bits[b]]
  BY DEF BitsOf
<1> HIDE DEF bits
<1>3. bits \in [1..n -> Nat]
  BY <1>1, <1>2
<1>4. bits \in Seq(Nat) /\ Len(bits) = n
  BY <1>3
<1>5. PICK top : Spells(top, bits, 2)
  BY <1>4, SpelledIs
<1>6. /\ top[0] = 0 /\ Spelled(bits, 2) = top[n]
      /\ \A k \in 1..n : top[k] = bits[n + 1 - k] + 2 * top[k - 1]
  BY <1>4, <1>5 DEF Spells
<1> DEFINE S == {k \in Nat : k <= n => top[k] = x \div pow2[n - k]}
<1>7. 0 \in S
  <2>1. n - 0 = n /\ pow2[n] \in Nat \ {0}
    BY PowerOf
  <2>2. 0 * pow2[n] + x = x /\ x \in 0..(pow2[n] - 1)
    BY <2>1
  <2>3. (0 * pow2[n] + x) \div pow2[n] = 0
    BY <2>1, <2>2, QuotientIs
  <2>. QED
    BY <1>6, <2>1, <2>2, <2>3
<1>8. ASSUME NEW k \in Nat, k \in S
      PROVE  k + 1 \in S
  <2>1. ASSUME k + 1 <= n
        PROVE  top[k + 1] = x \div pow2[n - (k + 1)]
    <3>1. /\ k + 1 \in 1..n /\ (k + 1) - 1 = k /\ k <= n
          /\ n + 1 - (k + 1) = n - k /\ n - k \in 1..n /\ (n - k) - 1 = n - (k + 1)
          /\ n - (k + 1) \in Nat /\ (n - (k + 1)) + 1 = n - k
      BY <2>1
    <3> DEFINE width == pow2[n - (k + 1)]
               above == x \div width
    <3>2. width \in Nat \ {0} /\ pow2[n - k] = 2 * width
      BY <3>1, Powers
    <3>3. top[k] = x \div pow2[n - k] /\ top[k + 1] = bits[n - k] + 2 * top[k]
      BY <1>6, <1>8, <3>1
    <3>4. bits[n - k] = above % 2
      BY <1>1, <3>1
    <3> HIDE DEF width
    <3>5. above \in Nat /\ x \div pow2[n - k] = above \div 2
      <4>1. above \in Nat
        BY <3>2, Quotients
      <4>2. x \div pow2[n - k] = (x \div width) \div 2
        BY <3>2, HalfOfQuotient
      <4>. QED
        BY <4>1, <4>2
    <3> HIDE DEF above
    <3> DEFINE half == above \div 2
               odd == above % 2
    <3>6. half \in Nat /\ odd \in {0, 1} /\ above = half * 2 + odd
      BY <3>5, Quotients
    <3>7. top[k] = half /\ bits[n - k] = odd
      BY <3>2, <3>3, <3>4, <3>5
    <3> HIDE DEF half, odd
    <3>8. top[k + 1] = above
      BY <3>3, <3>6, <3>7
    <3>. QED
      BY <3>8 DEF above, width
  <2>. QED
    BY <2>1
<1>9. Nat \subseteq S
  <2> HIDE DEF S
  <2>. QED
    BY <1>7, <1>8, FromZeroUp
<1>10. top[n] = x
  <2>1. n <= n /\ n - n = 0 /\ pow2[0] = 1 /\ x \div 1 = x
    BY Powers
  <2>2. top[n] = x \div pow2[n - n]
    BY <1>9, <2>1
  <2>. QED
    BY <2>1, <2>2
<1>. QED
  BY <1>6, <1>10 DEF bits

(* Where the bits of a byte stand. *)
LEMMA BitPlace ==
  ASSUME NEW bytes \in Seq(Octets), NEW k \in 1..Len(bytes), NEW b \in 1..BitsPerByte
  PROVE  /\ (k - 1) * BitsPerByte + b \in 1..(BitsPerByte * Len(bytes))
         /\ Bits(bytes)[(k - 1) * BitsPerByte + b] = (bytes[k] \div pow2[b - 1]) % 2
<1> DEFINE place == (k - 1) * BitsPerByte + b
<1>1. BitsPerByte \in Nat \ {0} /\ Len(bytes) \in Nat /\ k - 1 \in Nat /\ b - 1 \in 0..(BitsPerByte - 1)
  BY BytesHaveBits
<1>2. (k - 1) * BitsPerByte \in Nat /\ (k - 1) * BitsPerByte + BitsPerByte = k * BitsPerByte
  BY <1>1, Multiples
<1>3. k * BitsPerByte <= Len(bytes) * BitsPerByte /\ Len(bytes) * BitsPerByte = BitsPerByte * Len(bytes)
      /\ BitsPerByte * Len(bytes) \in Nat /\ k * BitsPerByte \in Nat
  BY <1>1, Multiples
<1>4. place \in 1..(BitsPerByte * Len(bytes)) /\ place - 1 = (k - 1) * BitsPerByte + (b - 1)
  BY <1>1, <1>2, <1>3
<1>5. /\ ((k - 1) * BitsPerByte + (b - 1)) \div BitsPerByte = k - 1
      /\ ((k - 1) * BitsPerByte + (b - 1)) % BitsPerByte = b - 1
  BY <1>1, QuotientIs
<1> HIDE DEF place
<1>6. (place - 1) \div BitsPerByte = k - 1 /\ (place - 1) % BitsPerByte = b - 1 /\ (k - 1) + 1 = k
  BY <1>4, <1>5
<1>7. Bits(bytes)[place] =
        (bytes[((place - 1) \div BitsPerByte) + 1] \div pow2[(place - 1) % BitsPerByte]) % 2
  BY <1>4 DEF Bits
<1>8. Bits(bytes)[place] = (bytes[k] \div pow2[b - 1]) % 2
  BY <1>6, <1>7
<1>. QED
  BY <1>4, <1>8 DEF place

(* Bits that are those of some bytes, and of as many bytes, are packed into  *)
(* them where what they leave out is clear.                                *)
LEMMA PackedAsRead ==
  ASSUME NEW bytes \in Seq(Octets), NEW bits \in Seq({0, 1}),
         Len(bits) <= BitsPerByte * Len(bytes), BitsPerByte * Len(bytes) < Len(bits) + BitsPerByte,
         \A b \in 1..(BitsPerByte * Len(bytes)) :
           Bits(bytes)[b] = IF b <= Len(bits) THEN bits[b] ELSE 0
  PROVE  PackBits(bits) = bytes
<1> DEFINE n == Len(bytes)
           size == Len(bits)
           bit(b) == IF b \in DOMAIN bits THEN bits[b] ELSE 0
           byte(k) == Spelled([b \in 1..BitsPerByte |-> bit((k - 1) * BitsPerByte + b)], 2)
<1>1. /\ BitsPerByte \in Nat \ {0} /\ n \in Nat /\ size \in Nat /\ DOMAIN bits = 1..size
      /\ BitsPerByte * n \in Nat
  BY BytesHaveBits
<1>2. CeilDiv(size, BitsPerByte) = n
  <2> DEFINE over == size + BitsPerByte - 1 - BitsPerByte * n
  <2>1. n * BitsPerByte = BitsPerByte * n
    BY <1>1
  <2>2. over \in 0..(BitsPerByte - 1)
    BY <1>1
  <2>3. size + BitsPerByte - 1 = n * BitsPerByte + over
    BY <1>1, <2>1
  <2> HIDE DEF over, n, size
  <2>4. (n * BitsPerByte + over) \div BitsPerByte = n
    BY <1>1, <2>2, QuotientIs
  <2>. QED
    BY <2>3, <2>4 DEF CeilDiv
<1>3. ASSUME NEW k \in 1..n
      PROVE  byte(k) = bytes[k]
  <2>1. ASSUME NEW b \in 1..BitsPerByte
        PROVE  bit((k - 1) * BitsPerByte + b) = (bytes[k] \div pow2[b - 1]) % 2
    <3> DEFINE place == (k - 1) * BitsPerByte + b
    <3>1. place \in 1..(BitsPerByte * n) /\ Bits(bytes)[place] = (bytes[k] \div pow2[b - 1]) % 2
      BY BitPlace
    <3> HIDE DEF place
    <3>2. bit(place) = IF place <= size THEN bits[place] ELSE 0
      BY <1>1, <3>1
    <3>3. bit(place) = Bits(bytes)[place]
      BY <3>1, <3>2
    <3>. QED
      BY <3>1, <3>3 DEF place
  <2>2. [b \in 1..BitsPerByte |-> bit((k - 1) * BitsPerByte + b)] = BitsOf(bytes[k], BitsPerByte)
    BY <2>1 DEF BitsOf
  <2>3. bytes[k] \in Nat /\ bytes[k] < pow2[BitsPerByte]
    <3>1. bytes[k] \in Octets
      OBVIOUS
    <3>. QED
      BY <1>1, <3>1, PowerOf DEF Octets
  <2>4. Spelled(BitsOf(bytes[k], BitsPerByte), 2) = bytes[k]
    BY <1>1, <2>3, BitsSpell
  <2>. QED
    BY <2>2, <2>4
<1>4. PackBits(bits) = [k \in 1..n |-> byte(k)]
  BY <1>2 DEF PackBits
<1>5. [k \in 1..n |-> byte(k)] = [k \in 1..n |-> bytes[k]]
  BY <1>3
<1>6. bytes = [k \in 1..n |-> bytes[k]]
  OBVIOUS
<1>. QED
  BY <1>4, <1>5, <1>6

(* A vector of bits leaves the rest of its last byte clear. *)
LEMMA BitVectorPacked ==
  ASSUME NEW bytes \in Seq(Octets), NEW length \in Nat,
         Len(bytes) = CeilDiv(length, BitsPerByte),
         \A b \in DOMAIN Bits(bytes) : ~ (b > length /\ Bits(bytes)[b] = 1)
  PROVE  PackBits(SubSeq(Bits(bytes), 1, length)) = bytes
<1> DEFINE all == Bits(bytes)
           n == BitsPerByte * Len(bytes)
           bits == SubSeq(all, 1, length)
<1>1. /\ BitsPerByte \in Nat \ {0} /\ n \in Nat
      /\ all \in Seq({0, 1}) /\ Len(all) = n /\ DOMAIN all = 1..n
  BY BytesHaveBits, BitsAre
<1>2. length <= n /\ n < length + BitsPerByte
  <2> DEFINE x == length + BitsPerByte - 1
             q == x \div BitsPerByte
  <2>1. x \in Nat
    BY <1>1
  <2> HIDE DEF x
  <2>2. x % BitsPerByte \in 0..(BitsPerByte - 1) /\ x = q * BitsPerByte + (x % BitsPerByte) /\ q \in Nat
    <3>1. x % BitsPerByte \in 0..(BitsPerByte - 1)
      BY <1>1, <2>1
    <3>. QED
      BY <1>1, <2>1, <3>1, Quotients
  <2>3. Len(bytes) = q
    BY DEF CeilDiv, x
  <2> HIDE DEF q
  <2>4. n = q * BitsPerByte
    BY <1>1, <2>2, <2>3
  <2> HIDE DEF n
  <2>. QED
    BY <1>1, <2>2, <2>4 DEF x
<1> HIDE DEF n, all
<1>3. bits \in Seq({0, 1}) /\ Len(bits) = length /\ \A b \in 1..length : bits[b] = all[b]
  <2>1. \A b \in 1..length : all[b] \in {0, 1}
    BY <1>1, <1>2
  <2>2. /\ bits \in Seq({0, 1})
        /\ Len(bits) = IF 1 <= length THEN length - 1 + 1 ELSE 0
        /\ \A b \in 1..(length - 1 + 1) : bits[b] = all[1 + b - 1]
    BY <2>1, SubSeqProperties
  <2> HIDE DEF bits
  <2>. QED
    BY <2>2
<1> HIDE DEF bits
<1>4. \A b \in 1..n : all[b] = IF b <= Len(bits) THEN bits[b] ELSE 0
  <2>1. ASSUME NEW b \in 1..n
        PROVE  all[b] = IF b <= Len(bits) THEN bits[b] ELSE 0
    <3>1. all[b] \in {0, 1} /\ ~ (b > length /\ all[b] = 1)
      BY <1>1 DEF all
    <3>. QED
      BY <1>1, <1>3, <3>1
  <2>. QED
    BY <2>1
<1>5. PackBits(bits) = bytes
  BY <1>2, <1>3, <1>4, PackedAsRead DEF all, n
<1>. QED
  BY <1>5 DEF bits, all

(* A list of bits is followed by one that is set, in its last byte, and the  *)
(* rest of that is clear.                                                  *)
LEMMA BitListPacked ==
  ASSUME NEW bytes \in Seq(Octets), NEW T, BitListFault(T, Bits(bytes)) = NoFault
  PROVE  PackBits(Append(SubSeq(Bits(bytes), 1, Delimiter(Bits(bytes)) - 1), 1)) = bytes
<1> DEFINE all == Bits(bytes)
           n == BitsPerByte * Len(bytes)
           last == Delimiter(all)
           before == SubSeq(all, 1, last - 1)
           bits == Append(before, 1)
<1>1. /\ BitsPerByte \in Nat \ {0} /\ n \in Nat
      /\ all \in Seq({0, 1}) /\ Len(all) = n /\ DOMAIN all = 1..n
  BY BytesHaveBits, BitsAre
<1>2. /\ \E b \in DOMAIN all : all[b] # 0
      /\ ~ (last + BitsPerByte <= Len(all))
  BY DEF BitListFault, NoFault
<1> HIDE DEF all, n
<1>3. /\ last \in 1..n /\ all[last] = 1
      /\ \A b \in 1..n : b > last => all[b] = 0
  BY <1>1, <1>2, DelimiterIs
<1> HIDE DEF last
<1>4. before \in Seq({0, 1}) /\ Len(before) = last - 1 /\ \A b \in 1..(last - 1) : before[b] = all[b]
  <2>1. \A b \in 1..(last - 1) : all[b] \in {0, 1}
    BY <1>1, <1>3
  <2>2. /\ before \in Seq({0, 1})
        /\ Len(before) = IF 1 <= last - 1 THEN (last - 1) - 1 + 1 ELSE 0
        /\ \A b \in 1..((last - 1) - 1 + 1) : before[b] = all[1 + b - 1]
    BY <1>3, <2>1, SubSeqProperties
  <2> HIDE DEF before
  <2>. QED
    BY <1>3, <2>2
<1> HIDE DEF before
<1>5. /\ bits \in Seq({0, 1}) /\ Len(bits) = last
      /\ \A b \in 1..(last - 1) : bits[b] = all[b]
      /\ bits[last] = 1
  <2>1. 1 \in {0, 1}
    OBVIOUS
  <2>2. /\ bits \in Seq({0, 1}) /\ Len(bits) = Len(before) + 1
        /\ \A b \in 1..Len(before) : bits[b] = before[b]
        /\ bits[Len(before) + 1] = 1
    BY <1>4, <2>1, AppendProperties
  <2> HIDE DEF bits
  <2>. QED
    BY <1>3, <1>4, <2>2
<1> HIDE DEF bits
<1>6. \A b \in 1..n : all[b] = IF b <= Len(bits) THEN bits[b] ELSE 0
  <2>1. ASSUME NEW b \in 1..n
        PROVE  all[b] = IF b <= Len(bits) THEN bits[b] ELSE 0
    <3>1. b \in 1..(last - 1) \/ b = last \/ b > last
      BY <1>1, <1>3
    <3>. QED
      BY <1>3, <1>5, <3>1
  <2>. QED
    BY <2>1
<1>7. Len(bits) <= n /\ n < Len(bits) + BitsPerByte
  BY <1>1, <1>2, <1>3, <1>5
<1>8. PackBits(bits) = bytes
  BY <1>5, <1>6, <1>7, PackedAsRead DEF all, n
<1>. QED
  BY <1>8 DEF bits, before, last, all

---------------------------------------------------------------------------
(* What stands between two places of a stream. *)

Segment(s, from, to) == SubSeq(s, from + 1, to)

LEMMA SegmentIs ==
  ASSUME NEW S, NEW s \in Seq(S), NEW from \in Nat, NEW to \in Nat, from <= to, to <= Len(s)
  PROVE  /\ Segment(s, from, to) \in Seq(S)
         /\ Len(Segment(s, from, to)) = to - from
         /\ DOMAIN Segment(s, from, to) = 1..(to - from)
<1> DEFINE segment == SubSeq(s, from + 1, to)
<1>1. Len(s) \in Nat /\ \A i \in 1..Len(s) : s[i] \in S
  BY LenProperties
<1>2. \A i \in (from + 1)..to : s[i] \in S
  BY <1>1
<1>3. /\ segment \in Seq(S)
      /\ Len(segment) = IF from + 1 <= to THEN to - (from + 1) + 1 ELSE 0
      /\ \A i \in 1..(to - (from + 1) + 1) : segment[i] = s[from + 1 + i - 1]
  BY <1>2, SubSeqProperties
<1> HIDE DEF segment
<1>4. Len(segment) = to - from
  BY <1>3
<1>5. DOMAIN segment = 1..Len(segment)
  BY <1>3, LenProperties
<1>. QED
  BY <1>3, <1>4, <1>5 DEF segment, Segment

LEMMA SegmentAt ==
  ASSUME NEW S, NEW s \in Seq(S), NEW from \in Nat, NEW to \in Nat, from <= to, to <= Len(s),
         NEW i \in 1..(to - from)
  PROVE  Segment(s, from, to)[i] = s[from + i]
<1>1. Len(s) \in Nat /\ \A j \in 1..Len(s) : s[j] \in S
  BY LenProperties
<1>2. \A j \in (from + 1)..to : s[j] \in S
  BY <1>1
<1>3. \A j \in 1..(to - (from + 1) + 1) : SubSeq(s, from + 1, to)[j] = s[from + 1 + j - 1]
  BY <1>2, SubSeqProperties
<1>4. i \in 1..(to - (from + 1) + 1) /\ from + 1 + i - 1 = from + i
  OBVIOUS
<1>. QED
  BY <1>3, <1>4 DEF Segment

(* One segment is followed by the next. *)
LEMMA SegmentsMeet ==
  ASSUME NEW S, NEW s \in Seq(S), NEW from \in Nat, NEW at \in Nat, NEW to \in Nat,
         from <= at, at <= to, to <= Len(s)
  PROVE  Segment(s, from, at) \o Segment(s, at, to) = Segment(s, from, to)
<1> DEFINE a == Segment(s, from, at)
           b == Segment(s, at, to)
           c == Segment(s, from, to)
<1>0. Len(s) \in Nat /\ at <= Len(s) /\ from <= to
  BY LenProperties
<1>1. /\ a \in Seq(S) /\ Len(a) = at - from /\ \A i \in 1..(at - from) : a[i] = s[from + i]
      /\ b \in Seq(S) /\ Len(b) = to - at /\ \A i \in 1..(to - at) : b[i] = s[at + i]
      /\ c \in Seq(S) /\ Len(c) = to - from /\ \A i \in 1..(to - from) : c[i] = s[from + i]
  <2>1. a \in Seq(S) /\ Len(a) = at - from
    BY <1>0, SegmentIs, ZenonT(20)
  <2>2. b \in Seq(S) /\ Len(b) = to - at
    BY <1>0, SegmentIs, ZenonT(20)
  <2>3. c \in Seq(S) /\ Len(c) = to - from
    BY <1>0, SegmentIs, ZenonT(20)
<2>4. \A i \in 1..(at - from) : a[i] = s[from + i]
    BY <1>0, SegmentAt
  <2>5. \A i \in 1..(to - at) : b[i] = s[at + i]
    BY <1>0, SegmentAt
  <2>6. \A i \in 1..(to - from) : c[i] = s[from + i]
    BY <1>0, SegmentAt
  <2>. QED
    BY <2>1, <2>2, <2>3, <2>4, <2>5, <2>6
<1> HIDE DEF a, b, c
<1>2. /\ a \o b \in Seq(S) /\ Len(a \o b) = Len(a) + Len(b)
      /\ \A i \in 1..(Len(a) + Len(b)) : (a \o b)[i] = IF i <= Len(a) THEN a[i] ELSE b[i - Len(a)]
  BY <1>1, ConcatProperties
<1> DEFINE d == a \o b
<1> HIDE DEF d
<1>3. d \in Seq(S) /\ Len(d) = to - from
  BY <1>1, <1>2 DEF d
<1>4. ASSUME NEW i \in 1..(to - from)
      PROVE  d[i] = c[i]
  <2>1. d[i] = IF i <= at - from THEN a[i] ELSE b[i - (at - from)]
    <3>1. i \in 1..(Len(a) + Len(b)) /\ Len(a) = at - from
      BY <1>1
    <3>2. (a \o b)[i] = IF i <= Len(a) THEN a[i] ELSE b[i - Len(a)]
      BY <1>2, <3>1
    <3>. QED
      BY <3>1, <3>2 DEF d
  <2>2. CASE i <= at - from
    <3>1. i \in 1..(at - from)
      BY <2>2
    <3>. QED
      BY <1>1, <2>1, <2>2, <3>1
  <2>3. CASE ~ (i <= at - from)
    <3>1. i - (at - from) \in 1..(to - at) /\ at + (i - (at - from)) = from + i
      BY <2>3
    <3>2. b[i - (at - from)] = s[at + (i - (at - from))]
      BY <1>1, <3>1
    <3>. QED
      BY <1>1, <2>1, <2>3, <3>1, <3>2
  <2>. QED
    BY <2>2, <2>3
<1>5. d = [i \in 1..(to - from) |-> d[i]] /\ c = [i \in 1..(to - from) |-> c[i]]
  BY <1>1, <1>3
<1>6. d = c
  BY <1>4, <1>5
<1>. QED
  BY <1>6 DEF d, a, b, c

LEMMA NoSegment ==
  ASSUME NEW S, NEW s \in Seq(S), NEW at \in Nat, at <= Len(s)
  PROVE  Segment(s, at, at) = <<>>
<1>1. Segment(s, at, at) \in Seq(S) /\ Len(Segment(s, at, at)) = at - at
  BY SegmentIs
<1>. QED
  BY <1>1

(* What follows one another in a stream is, laid end to end, that part of it. *)
Rising(at, n, most) ==
  /\ \A k \in 1..(n + 1) : at[k] \in 0..most
  /\ \A k \in 1..n : at[k] <= at[k + 1]

Segments(s, at, n) == [k \in 1..n |-> Segment(s, at[k], at[k + 1])]

LEMMA SegmentsJoin ==
  ASSUME NEW S, NEW s \in Seq(S), NEW n \in Nat, NEW at, Rising(at, n, Len(s))
  PROVE  FlattenSeq(Segments(s, at, n)) = Segment(s, at[1], at[n + 1])
<1> DEFINE segments == Segments(s, at, n)
<1>a. \A k \in 1..(n + 1) : at[k] \in 0..Len(s)
  BY DEF Rising
<1>b. \A k \in 1..n : at[k] <= at[k + 1]
  BY DEF Rising
<1>c. segments = [k \in 1..n |-> Segment(s, at[k], at[k + 1])]
  BY DEF Segments
<1> HIDE DEF segments
<1>s. SUFFICES FlattenSeq(segments) = Segment(s, at[1], at[n + 1])
  BY DEF segments
<1>0. Len(s) \in Nat /\ \A k \in 1..(n + 1) : at[k] \in Nat /\ at[k] <= Len(s)
  BY <1>a, LenProperties
<1>1. ASSUME NEW k \in 1..n
      PROVE  segments[k] \in Seq(S) /\ segments[k] = Segment(s, at[k], at[k + 1])
  <2>1. k \in 1..(n + 1) /\ k + 1 \in 1..(n + 1)
    OBVIOUS
  <2>2. at[k] \in Nat /\ at[k + 1] \in Nat /\ at[k] <= at[k + 1] /\ at[k + 1] <= Len(s)
    BY <1>0, <1>b, <2>1
  <2>3. segments[k] = Segment(s, at[k], at[k + 1])
    BY <1>c
  <2>4. Segment(s, at[k], at[k + 1]) \in Seq(S)
    BY <2>2, SegmentIs, Zenon
  <2>. QED
    BY <2>3, <2>4
<1>2. segments \in [1..n -> Seq(S)]
  BY <1>1, <1>c
<1>3. segments \in Seq(Seq(S)) /\ Len(segments) = n
  BY <1>2
<1>4. CASE n = 0
  <2>1. segments = <<>>
    BY <1>3, <1>4
  <2>2. FlattenSeq(segments) = <<>>
    BY <1>3, <1>4, <2>1 DEF FlattenSeq
  <2>3. 1 \in 1..(n + 1) /\ n + 1 = 1
    BY <1>4
  <2>4. Segment(s, at[1], at[1]) = <<>>
    BY <1>0, <2>3, NoSegment
  <2>. QED
    BY <2>2, <2>3, <2>4
<1>5. CASE n # 0
  <2> DEFINE joined(i) == Segment(s, at[1], at[i + 1])
             flat == [i \in 1..n |-> joined(i)]
             laid == [i \in 1..n |-> IF i = 1 THEN segments[i] ELSE flat[i - 1] \o segments[i]]
             flatten == CHOOSE f : f = [i \in 1..n |-> IF i = 1 THEN segments[i]
                                                      ELSE f[i - 1] \o segments[i]]
  <2>1. \A i, j \in 1..(n + 1) : i <= j => at[i] <= at[j]
    <3>1. ASSUME NEW i \in 1..(n + 1), NEW j \in 1..(n + 1), i <= j
          PROVE  at[i] <= at[j]
      <4>1. \A k \in 1..(n + 1) : at[k] \in Int
        BY <1>0
      <4>2. \A k \in 1..((n + 1) - 1) : at[k] <= at[k + 1]
        BY <1>b
      <4>3. n + 1 \in Nat /\ j \in i..(n + 1)
        BY <3>1
      <4>. QED
        BY <4>1, <4>2, <4>3, Rises
    <3>. QED
      BY <3>1
  <2>2. ASSUME NEW i \in 1..n
        PROVE  flat[i] = IF i = 1 THEN segments[i] ELSE flat[i - 1] \o segments[i]
    <3>1. CASE i = 1
      BY <1>1, <3>1
    <3>2. CASE i # 1
      <4>1. i - 1 \in 1..n /\ (i - 1) + 1 = i /\ 1 \in 1..(n + 1) /\ i \in 1..(n + 1) /\ i + 1 \in 1..(n + 1)
        BY <3>2
      <4>2. /\ at[1] \in Nat /\ at[i] \in Nat /\ at[i + 1] \in Nat
            /\ at[1] <= at[i] /\ at[i] <= at[i + 1] /\ at[i + 1] <= Len(s)
        BY <1>0, <2>1, <4>1
      <4>3. Segment(s, at[1], at[i]) \o Segment(s, at[i], at[i + 1]) = Segment(s, at[1], at[i + 1])
        BY <4>2, SegmentsMeet
      <4>4. flat[i - 1] = Segment(s, at[1], at[i]) /\ flat[i] = Segment(s, at[1], at[i + 1])
        BY <4>1
      <4> HIDE DEF flat
      <4>. QED
        BY <1>1, <3>2, <4>3, <4>4
    <3>. QED
      BY <3>1, <3>2
  <2>3. flat = [i \in 1..n |-> flat[i]]
    OBVIOUS
  <2> HIDE DEF flat
  <2>4. flat = [i \in 1..n |-> IF i = 1 THEN segments[i] ELSE flat[i - 1] \o segments[i]]
    BY <2>2, <2>3
  <2>5. flatten = [i \in 1..n |-> IF i = 1 THEN segments[i] ELSE flatten[i - 1] \o segments[i]]
    BY <2>4
  <2>6. FlattenSeq(segments) = flatten[n]
    BY <1>3, <1>5 DEF FlattenSeq
  <2> HIDE DEF flatten
  <2> DEFINE same == {i \in Nat : i + 1 <= n => flatten[i + 1] = flat[i + 1]}
  <2>7. \A i \in 1..n : /\ flatten[i] = IF i = 1 THEN segments[i] ELSE flatten[i - 1] \o segments[i]
                        /\ flat[i] = IF i = 1 THEN segments[i] ELSE flat[i - 1] \o segments[i]
    BY <2>4, <2>5
  <2>8. 0 \in same
    <3>1. 1 \in 1..n /\ 0 + 1 = 1
      BY <1>5
    <3>. QED
      BY <2>7, <3>1
  <2>9. ASSUME NEW i \in Nat, i \in same
        PROVE  i + 1 \in same
    <3>1. ASSUME (i + 1) + 1 <= n
          PROVE  flatten[(i + 1) + 1] = flat[(i + 1) + 1]
      <4>1. (i + 1) + 1 \in 1..n /\ (i + 1) + 1 # 1 /\ ((i + 1) + 1) - 1 = i + 1 /\ i + 1 <= n
        BY <3>1
      <4>2. flatten[i + 1] = flat[i + 1]
        BY <2>9, <4>1
      <4>. QED
        BY <2>7, <4>1, <4>2
    <3>. QED
      BY <3>1
  <2>10. Nat \subseteq same
    <3> HIDE DEF same
    <3>. QED
      BY <2>8, <2>9, FromZeroUp
  <2>11. flatten[n] = flat[n]
    <3>1. n - 1 \in Nat /\ (n - 1) + 1 = n /\ n <= n
      BY <1>5
    <3>2. n - 1 \in same
      <4> HIDE DEF same
      <4>. QED
        BY <2>10, <3>1
    <3>. QED
      BY <3>1, <3>2
  <2>12. flat[n] = Segment(s, at[1], at[n + 1])
    <3>1. n \in 1..n
      BY <1>5
    <3>. QED
      BY <3>1 DEF flat
  <2>. QED
    BY <2>6, <2>11, <2>12
<1>. QED
  BY <1>4, <1>5

LEMMA StartIs ==
  ASSUME NEW S, NEW s \in Seq(S), NEW n \in Nat, n <= Len(s)
  PROVE  SubSeq(s, 1, n) = [j \in 1..n |-> s[j]]
<1> DEFINE begun == SubSeq(s, 1, n)
<1>1. \A i \in 1..n : s[i] \in S
  BY LenProperties
<1>2. /\ begun \in Seq(S)
      /\ Len(begun) = IF 1 <= n THEN n - 1 + 1 ELSE 0
      /\ \A i \in 1..(n - 1 + 1) : begun[i] = s[1 + i - 1]
  BY <1>1, SubSeqProperties
<1> HIDE DEF begun
<1>3. begun \in Seq(S) /\ Len(begun) = n
  BY <1>2
<1>4. begun = [i \in 1..n |-> begun[i]]
  BY <1>3
<1>5. \A i \in 1..n : begun[i] = s[i]
  <2>1. \A i \in 1..n : i \in 1..(n - 1 + 1) /\ 1 + i - 1 = i
    OBVIOUS
  <2>. QED
    BY <1>2, <2>1
<1>. QED
  BY <1>4, <1>5 DEF begun

---------------------------------------------------------------------------
(* Slots and bodies. *)

LEMMA Within ==
  ASSUME NEW x \in Nat, NEW y \in Nat, NEW most \in Nat, x + y <= most
  PROVE  x + y \in 0..most
OBVIOUS

LEMMA Farther ==
  ASSUME NEW x \in Nat, NEW y \in Nat, NEW z \in Nat, y <= z
  PROVE  x + y <= x + z
OBVIOUS

(* Parts that are what stands in their slots, or between the offsets that     *)
(* their slots hold.                                                       *)
Places(s, start, n, slotAt, bodyAt) ==
  /\ \A k \in 1..(n + 1) :
       /\ slotAt[k] \in Nat /\ start + slotAt[k] <= Len(s)
       /\ bodyAt[k] \in Nat /\ start + bodyAt[k] <= Len(s)
  /\ \A k \in 1..n : slotAt[k] <= slotAt[k + 1] /\ bodyAt[k] <= bodyAt[k + 1]
  /\ slotAt[1] = 0 /\ slotAt[n + 1] = bodyAt[1]

InPlace(s, start, n, types, leading, parts, slotAt, bodyAt) ==
  \A k \in 1..n :
    /\ IsFixed(types[k]) =>
         /\ parts[k] = Segment(s, start + slotAt[k], start + slotAt[k + 1])
         /\ bodyAt[k + 1] = bodyAt[k]
    /\ ~ IsFixed(types[k]) =>
         /\ leading = bodyAt[1]
         /\ parts[k] = Segment(s, start + bodyAt[k], start + bodyAt[k + 1])
         /\ ToBytes(bodyAt[k], OffsetWidth) = Segment(s, start + slotAt[k], start + slotAt[k + 1])

LEMMA LaidAsRead ==
  ASSUME NEW S, NEW s \in Seq(S), NEW start \in Nat, NEW n \in Nat,
         NEW types, NEW leading, NEW parts, Len(parts) = n, NEW slotAt, NEW bodyAt,
         Places(s, start, n, slotAt, bodyAt),
         InPlace(s, start, n, types, leading, parts, slotAt, bodyAt)
  PROVE  Laid(types, leading, parts) = Segment(s, start, start + bodyAt[n + 1])
<1>p. /\ \A k \in 1..(n + 1) :
           /\ slotAt[k] \in Nat /\ start + slotAt[k] <= Len(s)
           /\ bodyAt[k] \in Nat /\ start + bodyAt[k] <= Len(s)
      /\ \A k \in 1..n : slotAt[k] <= slotAt[k + 1] /\ bodyAt[k] <= bodyAt[k + 1]
      /\ slotAt[1] = 0 /\ slotAt[n + 1] = bodyAt[1]
  BY Zenon DEF Places
<1>f. \A k \in 1..n : IsFixed(types[k]) =>
           /\ parts[k] = Segment(s, start + slotAt[k], start + slotAt[k + 1])
           /\ bodyAt[k + 1] = bodyAt[k]
  BY Zenon DEF InPlace
<1>v. \A k \in 1..n : ~ IsFixed(types[k]) =>
           /\ leading = bodyAt[1]
           /\ parts[k] = Segment(s, start + bodyAt[k], start + bodyAt[k + 1])
           /\ ToBytes(bodyAt[k], OffsetWidth) = Segment(s, start + slotAt[k], start + slotAt[k + 1])
  BY Zenon DEF InPlace
<1> DEFINE a == [k \in 1..(n + 1) |-> start + slotAt[k]]
           b == [k \in 1..(n + 1) |-> start + bodyAt[k]]
           bodies == [k \in 1..n |-> IF IsFixed(types[k]) THEN <<>> ELSE parts[k]]
           offset(k) == leading + Len(FlattenSeq(SubSeq(bodies, 1, k - 1)))
           slot(k) == IF IsFixed(types[k]) THEN parts[k] ELSE ToBytes(offset(k), OffsetWidth)
           slots == [k \in 1..n |-> slot(k)]
<1>1. Laid(types, leading, parts) = FlattenSeq(slots) \o FlattenSeq(bodies)
  BY Zenon DEF Laid
<1>2. Len(s) \in Nat
  BY LenProperties
<1>4. \A k \in 1..n : k \in 1..(n + 1) /\ k + 1 \in 1..(n + 1)
  OBVIOUS
<1>3. /\ \A k \in 1..(n + 1) : a[k] \in 0..Len(s) /\ a[k] = start + slotAt[k]
      /\ \A k \in 1..n : a[k] <= a[k + 1]
      /\ \A k \in 1..(n + 1) : b[k] \in 0..Len(s) /\ b[k] = start + bodyAt[k]
      /\ \A k \in 1..n : b[k] <= b[k + 1]
  <2>1. \A k \in 1..(n + 1) : a[k] = start + slotAt[k] /\ b[k] = start + bodyAt[k]
    OBVIOUS
  <2> HIDE DEF a, b
  <2>2. ASSUME NEW k \in 1..(n + 1)
        PROVE  a[k] \in 0..Len(s) /\ b[k] \in 0..Len(s)
    <3>1. a[k] = start + slotAt[k] /\ b[k] = start + bodyAt[k]
      BY <2>1
    <3>2. /\ slotAt[k] \in Nat /\ start + slotAt[k] <= Len(s)
          /\ bodyAt[k] \in Nat /\ start + bodyAt[k] <= Len(s)
      BY <1>p
    <3>3. start + slotAt[k] \in 0..Len(s) /\ start + bodyAt[k] \in 0..Len(s)
      BY <1>2, <3>2, Within, Zenon
    <3>. QED
      BY <3>1, <3>3, Zenon
  <2>3. ASSUME NEW k \in 1..n
        PROVE  a[k] <= a[k + 1] /\ b[k] <= b[k + 1]
    <3>1. k \in 1..(n + 1) /\ k + 1 \in 1..(n + 1)
      OBVIOUS
    <3>2. /\ a[k] = start + slotAt[k] /\ b[k] = start + bodyAt[k]
          /\ a[k + 1] = start + slotAt[k + 1] /\ b[k + 1] = start + bodyAt[k + 1]
      BY <2>1, <3>1
    <3>3. /\ slotAt[k] \in Nat /\ slotAt[k + 1] \in Nat /\ slotAt[k] <= slotAt[k + 1]
          /\ bodyAt[k] \in Nat /\ bodyAt[k + 1] \in Nat /\ bodyAt[k] <= bodyAt[k + 1]
      BY <1>p, <3>1
    <3>4. start + slotAt[k] <= start + slotAt[k + 1] /\ start + bodyAt[k] <= start + bodyAt[k + 1]
      BY <3>3, Farther, Zenon
    <3>. QED
      BY <3>2, <3>4, Zenon
  <2>. QED
    BY <2>1, <2>2, <2>3
<1> HIDE DEF a, b
<1>r. Rising(a, n, Len(s)) /\ Rising(b, n, Len(s))
  BY <1>3 DEF Rising
<1>5. ASSUME NEW k \in 1..n
      PROVE  bodies[k] = Segment(s, b[k], b[k + 1]) /\ bodies[k] \in Seq(S)
  <2>1. b[k] \in Nat /\ b[k + 1] \in Nat /\ b[k] <= b[k + 1] /\ b[k + 1] <= Len(s)
    BY <1>2, <1>3, <1>4
  <2>2. bodies[k] = Segment(s, b[k], b[k + 1])
    <3>1. CASE IsFixed(types[k])
      <4>1. bodies[k] = <<>> /\ bodyAt[k + 1] = bodyAt[k]
        BY <1>f, <3>1
      <4>2. b[k + 1] = b[k]
        <5>1. b[k] = start + bodyAt[k] /\ b[k + 1] = start + bodyAt[k + 1]
          BY <1>3, <1>4
        <5>. QED
          BY <4>1, <5>1
      <4>. QED
        BY <2>1, <4>1, <4>2, NoSegment
    <3>2. CASE ~ IsFixed(types[k])
      <4>1. bodies[k] = Segment(s, start + bodyAt[k], start + bodyAt[k + 1])
        BY <1>v, <3>2
      <4>2. b[k] = start + bodyAt[k] /\ b[k + 1] = start + bodyAt[k + 1]
        BY <1>3, <1>4
      <4>. QED
        BY <4>1, <4>2
    <3>. QED
      BY <3>1, <3>2
  <2>3. Segment(s, b[k], b[k + 1]) \in Seq(S)
    BY <2>1, SegmentIs
  <2>. QED
    BY <2>2, <2>3
<1>6. bodies = Segments(s, b, n)
  BY <1>5 DEF Segments
<1>7. bodies \in Seq(Seq(S)) /\ Len(bodies) = n
  <2>1. bodies \in [1..n -> Seq(S)]
    BY <1>5
  <2> HIDE DEF bodies
  <2>. QED
    BY <2>1
<1> HIDE DEF bodies
<1>8. ASSUME NEW m \in 0..n
      PROVE  FlattenSeq(SubSeq(bodies, 1, m)) = Segment(s, b[1], b[m + 1])
  <2>1. SubSeq(bodies, 1, m) = [j \in 1..m |-> bodies[j]]
    BY <1>7, StartIs
  <2>2. \A j \in 1..m : bodies[j] = Segment(s, b[j], b[j + 1])
    BY <1>5
  <2>3. SubSeq(bodies, 1, m) = Segments(s, b, m)
    BY <2>1, <2>2 DEF Segments
  <2>4. m \in Nat /\ Rising(b, m, Len(s))
    <3>1. 1..(m + 1) \subseteq 1..(n + 1) /\ 1..m \subseteq 1..n
      OBVIOUS
    <3>. QED
      BY <1>r, <3>1 DEF Rising
  <2>. QED
    <3>1. FlattenSeq(Segments(s, b, m)) = Segment(s, b[1], b[m + 1])
      BY <2>4, SegmentsJoin, Zenon
    <3>. QED
      BY <2>3, <3>1
<1>9. FlattenSeq(bodies) = Segment(s, b[1], b[n + 1])
  BY <1>r, <1>6, SegmentsJoin
<1>10. ASSUME NEW k \in 1..n, ~ IsFixed(types[k])
       PROVE  offset(k) = bodyAt[k]
  <2>1. k - 1 \in 0..n /\ (k - 1) + 1 = k /\ 1 \in 1..(n + 1) /\ k \in 1..(n + 1)
    OBVIOUS
  <2>2. FlattenSeq(SubSeq(bodies, 1, k - 1)) = Segment(s, b[1], b[k])
    BY <1>8, <2>1
  <2>3. b[1] <= b[k]
    <3>1. /\ \A i \in 1..(n + 1) : b[i] \in Int
          /\ \A i \in 1..((n + 1) - 1) : b[i] <= b[i + 1]
          /\ n + 1 \in Nat /\ k \in 1..(n + 1)
      BY <1>3, <2>1
    <3>. QED
      BY <2>1, <3>1, Rises
  <2>4. b[1] \in Nat /\ b[k] \in Nat /\ b[k] <= Len(s)
    BY <1>2, <1>3, <2>1
  <2>5. Len(Segment(s, b[1], b[k])) = b[k] - b[1]
    <3>1. PICK from \in Nat, to \in Nat : from = b[1] /\ to = b[k]
      BY <2>4
    <3>2. from <= to /\ to <= Len(s)
      BY <2>3, <2>4, <3>1
    <3>3. Len(Segment(s, from, to)) = to - from
      BY <3>2, SegmentIs
    <3>. QED
      BY <3>1, <3>3
  <2>6. b[1] = start + bodyAt[1] /\ b[k] = start + bodyAt[k] /\ leading = bodyAt[1]
        /\ bodyAt[1] \in Nat /\ bodyAt[k] \in Nat
    BY <1>3, <1>p, <1>v, <1>10, <2>1
  <2>7. offset(k) = leading + (b[k] - b[1])
    BY <2>2, <2>5
  <2> HIDE DEF offset
  <2>. QED
    BY <2>6, <2>7
<1> HIDE DEF offset
<1>11. ASSUME NEW k \in 1..n
       PROVE  slot(k) = Segment(s, a[k], a[k + 1])
  <2>1. a[k] = start + slotAt[k] /\ a[k + 1] = start + slotAt[k + 1]
    BY <1>3, <1>4
  <2>2. CASE IsFixed(types[k])
    BY <1>f, <2>1, <2>2
  <2>3. CASE ~ IsFixed(types[k])
    BY <1>v, <1>10, <2>1, <2>3
  <2>. QED
    BY <2>2, <2>3
<1>12. slots = Segments(s, a, n)
  BY <1>11 DEF Segments
<1> HIDE DEF slots
<1>13. FlattenSeq(slots) = Segment(s, a[1], a[n + 1])
  BY <1>r, <1>12, SegmentsJoin
<1>14. a[1] = start /\ a[n + 1] = b[1] /\ b[n + 1] = start + bodyAt[n + 1]
       /\ a[1] <= a[n + 1] /\ b[1] <= b[n + 1]
  <2>1. 1 \in 1..(n + 1) /\ n + 1 \in 1..(n + 1) /\ (n + 1) - 1 = n /\ n + 1 \in Nat
    OBVIOUS
  <2>2. a[1] = start /\ a[n + 1] = b[1] /\ b[n + 1] = start + bodyAt[n + 1]
    <3>1. /\ a[1] = start + slotAt[1] /\ a[n + 1] = start + slotAt[n + 1]
          /\ b[1] = start + bodyAt[1] /\ b[n + 1] = start + bodyAt[n + 1]
      BY <1>3, <2>1
    <3>2. slotAt[1] = 0 /\ slotAt[n + 1] = bodyAt[1]
      BY <1>p
    <3>. QED
      BY <3>1, <3>2
  <2>3. a[1] <= a[n + 1]
    <3>1. \A k \in 1..(n + 1) : a[k] \in Int
      BY <1>3
    <3>2. \A k \in 1..((n + 1) - 1) : a[k] <= a[k + 1]
      BY <1>3
    <3>. QED
      BY <2>1, <3>1, <3>2, Rises
  <2>4. b[1] <= b[n + 1]
    <3>1. \A k \in 1..(n + 1) : b[k] \in Int
      BY <1>3
    <3>2. \A k \in 1..((n + 1) - 1) : b[k] <= b[k + 1]
      BY <1>3
    <3>. QED
      BY <2>1, <3>1, <3>2, Rises
  <2>. QED
    BY <2>2, <2>3, <2>4
<1>15. Segment(s, a[1], a[n + 1]) \o Segment(s, b[1], b[n + 1]) = Segment(s, a[1], b[n + 1])
  <2>1. 1 \in 1..(n + 1) /\ n + 1 \in 1..(n + 1)
    OBVIOUS
  <2>2. a[1] \in Nat /\ a[n + 1] \in Nat /\ b[n + 1] \in Nat /\ b[n + 1] <= Len(s)
    BY <1>2, <1>3, <2>1
  <2>3. a[1] <= b[1] /\ a[n + 1] = b[1] /\ b[1] <= b[n + 1] /\ b[1] \in Nat
    BY <1>14, <2>2
  <2>4. Segment(s, a[1], b[1]) \o Segment(s, b[1], b[n + 1]) = Segment(s, a[1], b[n + 1])
    <3>1. PICK from \in Nat, at \in Nat, to \in Nat : from = a[1] /\ at = b[1] /\ to = b[n + 1]
      BY <2>2, <2>3
    <3>2. from <= at /\ at <= to /\ to <= Len(s)
      BY <2>2, <2>3, <3>1
    <3>3. Segment(s, from, at) \o Segment(s, at, to) = Segment(s, from, to)
      BY <3>2, SegmentsMeet
    <3>. QED
      BY <3>1, <3>3
  <2>. QED
    BY <2>3, <2>4
<1>. QED
  BY <1>1, <1>9, <1>13, <1>14, <1>15

---------------------------------------------------------------------------
(* Leaves. *)

(* What is let in by its bytes is not too large for offsets.                *)
LEMMA LetInFits ==
  ASSUME NEW T, NEW scope, ScopeFault(T, scope) = NoFault,
         T.shape \notin {"basic", "boolean", "bit_vector", "bit_list", "union"}
  PROVE  ~ Oversized(scope)
<1>1. CompositeScopeFault(T, scope) = NoFault
  BY DEF ScopeFault
<1>. QED
  BY <1>1 DEF CompositeScopeFault, NoFault

(* A leaf is written as it is read. *)
LEMMA LeafWritten ==
  ASSUME IInv, frames # <<>>, IsLeaf(Type), current.scope \in Nat,
         ScopeFault(Type, current.scope) = NoFault, LeafFault(Type, current.scope) = NoFault,
         NEW serialized
  PROVE  /\ Written([type |-> Type, data |-> LeafData(Type, Bytes(current.scope))], serialized)
              = Bytes(current.scope)
         /\ PartsOf([type |-> Type, data |-> LeafData(Type, Bytes(current.scope))]) = {}
<1> DEFINE T == Type
           n == current.scope
           bytes == Bytes(n)
           v == [type |-> T, data |-> LeafData(T, bytes)]
<1>1. T \in Types /\ n \in Nat
  BY StackAt DEF Type
<1>2. Taken(n) = n
  BY DEF LeafFault, NoFault
<1>3. bytes \in Seq(Octets) /\ Len(bytes) = n
  BY <1>1, <1>2, BytesRead
<1>4. LeafFault(T, n) = NoFault /\ ScopeFault(T, n) = NoFault
  OBVIOUS
<1>5. v.type = T /\ v.data = LeafData(T, bytes)
  OBVIOUS
<1>6. bytes = Bytes(n) /\ IsLeaf(T)
  OBVIOUS
<1> HIDE DEF T, n, bytes, v
<1>7. /\ T.shape = "basic" => n = T.size
      /\ T.shape = "boolean" => n = 1
      /\ T.shape = "bit_vector" => n = CeilDiv(T.length, BitsPerByte)
  BY <1>1, <1>4, LeafScope
<1>8. ASSUME T.shape = "basic"
      PROVE  Written(v, serialized) = bytes
  <2>1. v.data = FromBytes(bytes)
    BY <1>5, <1>8 DEF LeafData
  <2>2. Written(v, serialized) = ToBytes(v.data, T.size)
    BY <1>5, <1>8 DEF Written, IsStruct, IsSequence, IsList
  <2>3. ToBytes(FromBytes(bytes), n) = bytes
    BY <1>3, WrittenAsRead
  <2>. QED
    BY <1>7, <1>8, <2>1, <2>2, <2>3
<1>9. ASSUME T.shape = "boolean"
      PROVE  Written(v, serialized) = bytes
  <2>1. v.data = FromBytes(bytes)
    BY <1>5, <1>9 DEF LeafData
  <2>2. Written(v, serialized) = <<v.data>>
    BY <1>5, <1>9 DEF Written, IsStruct, IsSequence, IsList
  <2>3. <<FromBytes(bytes)>> = bytes
    BY <1>3, <1>7, <1>9, OneByte
  <2>. QED
    BY <2>1, <2>2, <2>3
<1>10. ASSUME T.shape \in {"byte_vector", "byte_list"}
       PROVE  Written(v, serialized) = bytes
  <2>1. v.data = bytes
    BY <1>5, <1>10 DEF LeafData
  <2>2. Written(v, serialized) = Sized(v.data)
    BY <1>5, <1>10 DEF Written, IsStruct, IsSequence, IsList
  <2>3. ~ Oversized(n)
    BY <1>4, <1>10, LetInFits
  <2>. QED
    BY <1>3, <2>1, <2>2, <2>3 DEF Sized
<1>11. ASSUME T.shape = "bit_vector"
       PROVE  Written(v, serialized) = bytes
  <2>1. T.length \in Nat
    BY <1>1, <1>11, WidthsAssumption
  <2>2. v.data = SubSeq(Bits(bytes), 1, T.length)
    BY <1>5, <1>11 DEF LeafData
  <2>3. Written(v, serialized) = PackBits(v.data)
    BY <1>5, <1>11 DEF Written, IsStruct, IsSequence, IsList
  <2>4. \A b \in DOMAIN Bits(bytes) : ~ (b > T.length /\ Bits(bytes)[b] = 1)
    BY <1>4, <1>6, <1>11 DEF LeafFault, NoFault
  <2>5. Len(bytes) = CeilDiv(T.length, BitsPerByte)
    BY <1>3, <1>7, <1>11
  <2>6. PackBits(SubSeq(Bits(bytes), 1, T.length)) = bytes
    BY <1>3, <2>1, <2>4, <2>5, BitVectorPacked
  <2>. QED
    BY <2>2, <2>3, <2>6
<1>12. ASSUME T.shape = "bit_list"
       PROVE  Written(v, serialized) = bytes
  <2>1. v.data = SubSeq(Bits(bytes), 1, Delimiter(Bits(bytes)) - 1)
    BY <1>5, <1>12 DEF LeafData
  <2>2. Written(v, serialized) = PackBits(Append(v.data, 1))
    BY <1>5, <1>12 DEF Written, IsStruct, IsSequence, IsList
  <2>3. BitListFault(T, Bits(bytes)) = NoFault
    BY <1>4, <1>6, <1>12 DEF LeafFault, NoFault
  <2>4. PackBits(Append(SubSeq(Bits(bytes), 1, Delimiter(Bits(bytes)) - 1), 1)) = bytes
    BY <1>3, <2>3, BitListPacked
  <2>. QED
    BY <2>1, <2>2, <2>4
<1>13. Written(v, serialized) = bytes
  BY <1>6, <1>8, <1>9, <1>10, <1>11, <1>12 DEF IsLeaf
<1>14. PartsOf(v) = {}
  BY <1>5, <1>6 DEF PartsOf, IsLeaf, IsSequence, IsStruct
<1>. QED
  BY <1>13, <1>14 DEF v, T, n, bytes

---------------------------------------------------------------------------
(* What a value is written as, of at most so many levels. *)

Encoding(v, depth) == Serializations(v, depth)[depth][v]

(* A value is written as its parts are, whatever else is. *)
LEMMA WrittenOfParts ==
  ASSUME NEW v, NEW one, NEW other, \A p \in PartsOf(v) : one[p] = other[p]
  PROVE  Written(v, one) = Written(v, other)
<1>1. ASSUME v.type.shape = "union"
      PROVE  Written(v, one) = Written(v, other)
  <2>1. one[v.data.value] = other[v.data.value]
    BY <1>1 DEF PartsOf, IsStruct, IsSequence, IsList
  <2>. QED
    BY <1>1, <2>1 DEF Written, IsStruct, IsSequence, IsList
<1>2. ASSUME IsStruct(v.type) \/ IsSequence(v.type)
      PROVE  [k \in DOMAIN v.data |-> one[v.data[k]]] = [k \in DOMAIN v.data |-> other[v.data[k]]]
  <2>1. PartsOf(v) = Range(v.data)
    BY <1>2 DEF PartsOf, IsStruct, IsSequence
  <2>2. \A k \in DOMAIN v.data : one[v.data[k]] = other[v.data[k]]
    BY <2>1 DEF Range
  <2>. QED
    BY <2>2
<1>3. ASSUME IsStruct(v.type)
      PROVE  Written(v, one) = Written(v, other)
  BY <1>2, <1>3 DEF Written, IsStruct, IsSequence, IsList
<1>4. ASSUME IsSequence(v.type)
      PROVE  Written(v, one) = Written(v, other)
  BY <1>2, <1>4 DEF Written, IsStruct, IsSequence, IsList
<1>5. ASSUME v.type.shape # "union", ~ IsStruct(v.type), ~ IsSequence(v.type)
      PROVE  Written(v, one) = Written(v, other)
  BY <1>5 DEF Written, IsStruct, IsSequence, IsList
<1>. QED
  BY <1>1, <1>3, <1>4, <1>5

Row(v, depth, n, before) == [u \in Nested(v)[depth - n] |-> Written(u, before)]

SerializedTo(f, v, depth, m) ==
  f = [n \in 0..m |-> Row(v, depth, n, IF n = 0 THEN <<>> ELSE f[n - 1])]

LEMMA SerializedUnfolds ==
  ASSUME NEW f, NEW v, NEW depth, NEW m \in Nat, SerializedTo(f, v, depth, m)
  PROVE  /\ f[0] = Row(v, depth, 0, <<>>)
         /\ \A n \in 1..m : f[n] = Row(v, depth, n, f[n - 1])
<1>1. ASSUME NEW n \in 0..m
      PROVE  f[n] = Row(v, depth, n, IF n = 0 THEN <<>> ELSE f[n - 1])
  BY DEF SerializedTo
<1>2. 0 \in 0..m /\ \A n \in 1..m : n \in 0..m /\ n # 0
  OBVIOUS
<1>. QED
  BY <1>1, <1>2

LEMMA SerializedExist ==
  ASSUME NEW v, NEW depth, NEW last \in Nat
  PROVE  \E f : SerializedTo(f, v, depth, last)
<1> DEFINE S == {m \in Nat : \E f : SerializedTo(f, v, depth, m)}
<1>1. 0 \in S
  <2> DEFINE f == [n \in 0..0 |-> Row(v, depth, n, <<>>)]
  <2>1. \A n \in 0..0 : n = 0
    OBVIOUS
  <2>2. SerializedTo(f, v, depth, 0)
    BY <2>1 DEF SerializedTo
  <2>. QED
    BY <2>2
<1>2. ASSUME NEW m \in Nat, m \in S
      PROVE  m + 1 \in S
  <2>1. PICK f : SerializedTo(f, v, depth, m)
    BY <1>2
  <2> DEFINE further ==
        [n \in 0..(m + 1) |-> IF n = m + 1 THEN Row(v, depth, m + 1, f[m]) ELSE f[n]]
  <2>2. /\ f[0] = Row(v, depth, 0, <<>>)
        /\ \A n \in 1..m : f[n] = Row(v, depth, n, f[n - 1])
    BY <1>2, <2>1, SerializedUnfolds
  <2>3. ASSUME NEW n \in 0..(m + 1)
        PROVE  further[n] = Row(v, depth, n, IF n = 0 THEN <<>> ELSE further[n - 1])
    <3>1. CASE n = 0
      BY <2>2, <3>1
    <3>2. CASE n \in 1..m
      <4>1. n - 1 \in 0..(m + 1) /\ n - 1 # m + 1 /\ n # m + 1 /\ n # 0
        BY <3>2
      <4>2. further[n - 1] = f[n - 1] /\ further[n] = f[n]
        BY <4>1
      <4> HIDE DEF further
      <4>. QED
        BY <2>2, <3>2, <4>1, <4>2
    <3>3. CASE n = m + 1
      <4>1. n - 1 = m /\ m \in 0..(m + 1) /\ m # m + 1 /\ n # 0
        BY <3>3
      <4>2. further[m] = f[m] /\ further[n] = Row(v, depth, m + 1, f[m])
        BY <3>3, <4>1
      <4> HIDE DEF further
      <4>. QED
        BY <3>3, <4>1, <4>2
    <3>4. n = 0 \/ n \in 1..m \/ n = m + 1
      OBVIOUS
    <3>. QED
      BY <3>1, <3>2, <3>3, <3>4
  <2>4. further = [n \in 0..(m + 1) |-> further[n]]
    OBVIOUS
  <2> HIDE DEF further
  <2>5. SerializedTo(further, v, depth, m + 1)
    BY <2>3, <2>4 DEF SerializedTo
  <2>. QED
    BY <2>5
<1>3. Nat \subseteq S
  <2> HIDE DEF S
  <2>. QED
    BY <1>1, <1>2, FromZeroUp
<1>. QED
  BY <1>3

LEMMA SerializationsAre ==
  ASSUME NEW v, NEW depth \in Nat
  PROVE  /\ Serializations(v, depth)[0] = Row(v, depth, 0, <<>>)
         /\ \A n \in 1..depth :
              Serializations(v, depth)[n] = Row(v, depth, n, Serializations(v, depth)[n - 1])
<1> DEFINE serialized ==
      CHOOSE f : f = [n \in 0..depth |-> Row(v, depth, n, IF n = 0 THEN <<>> ELSE f[n - 1])]
<1>1. serialized = [n \in 0..depth |-> Row(v, depth, n, IF n = 0 THEN <<>> ELSE serialized[n - 1])]
  <2>1. PICK f : SerializedTo(f, v, depth, depth)
    BY SerializedExist
  <2>2. f = [n \in 0..depth |-> Row(v, depth, n, IF n = 0 THEN <<>> ELSE f[n - 1])]
    BY <2>1 DEF SerializedTo
  <2>. QED
    BY <2>2
<1>2. Serializations(v, depth) = serialized
  BY DEF Serializations, Row
<1> HIDE DEF serialized
<1>3. SerializedTo(Serializations(v, depth), v, depth, depth)
  BY <1>1, <1>2 DEF SerializedTo
<1>. QED
  BY <1>3, SerializedUnfolds

(* What is within a part is within the value, a level further in.          *)
LEMMA NestedOfPart ==
  ASSUME NEW v, NEW p \in PartsOf(v), NEW n \in Nat, n + 1 <= Deepest
  PROVE  Nested(p)[n] \subseteq Nested(v)[n + 1]
<1> DEFINE S == {m \in Nat : m + 1 <= Deepest => Nested(p)[m] \subseteq Nested(v)[m + 1]}
<1>1. 0 \in S
  <2>1. ASSUME 0 + 1 <= Deepest
        PROVE  Nested(p)[0] \subseteq Nested(v)[0 + 1]
    <3>1. 1 \in 1..Deepest /\ 1 - 1 = 0 /\ 0 + 1 = 1
      BY <2>1, NestingAssumption
    <3>2. Nested(v)[1] = PartsAmong({v}) /\ Nested(p)[0] = {p}
      BY <3>1, NestedIs
    <3>. QED
      BY <3>1, <3>2 DEF PartsAmong
  <2>. QED
    BY <2>1
<1>2. ASSUME NEW m \in Nat, m \in S
      PROVE  m + 1 \in S
  <2>1. ASSUME (m + 1) + 1 <= Deepest
        PROVE  Nested(p)[m + 1] \subseteq Nested(v)[(m + 1) + 1]
    <3>1. /\ (m + 1) + 1 \in 1..Deepest /\ m + 1 \in 1..Deepest /\ m + 1 <= Deepest
          /\ ((m + 1) + 1) - 1 = m + 1 /\ (m + 1) - 1 = m
      BY <2>1, NestingAssumption
    <3>2. Nested(v)[(m + 1) + 1] = PartsAmong(Nested(v)[m + 1])
      BY <3>1, NestedIs
    <3>3. Nested(p)[m + 1] = PartsAmong(Nested(p)[m])
      BY <3>1, NestedIs
    <3>4. Nested(p)[m] \subseteq Nested(v)[m + 1]
      BY <1>2, <3>1
    <3>. QED
      BY <3>2, <3>3, <3>4 DEF PartsAmong
  <2>. QED
    BY <2>1
<1>3. Nat \subseteq S
  <2> HIDE DEF S
  <2>. QED
    BY <1>1, <1>2, FromZeroUp
<1>. QED
  BY <1>3

(* What a value within a part is written as does not depend on what the part *)
(* is of.                                                                  *)
LEMMA SerializedAlike ==
  ASSUME NEW v, NEW p \in PartsOf(v), NEW depth \in 1..Deepest, NEW last \in 0..(depth - 1),
         NEW within \in Nested(p)[(depth - 1) - last]
  PROVE  Serializations(p, depth - 1)[last][within] = Serializations(v, depth)[last][within]
<1> DEFINE one == Serializations(p, depth - 1)
           other == Serializations(v, depth)
           S == {n \in Nat : n <= depth - 1 =>
                   \A u \in Nested(p)[(depth - 1) - n] : one[n][u] = other[n][u]}
<1>0. Deepest \in Nat /\ depth \in Nat /\ depth - 1 \in Nat /\ depth <= Deepest
  BY NestingAssumption
<1>1. /\ one[0] = Row(p, depth - 1, 0, <<>>)
      /\ \A n \in 1..(depth - 1) : one[n] = Row(p, depth - 1, n, one[n - 1])
  BY <1>0, SerializationsAre
<1>2. /\ other[0] = Row(v, depth, 0, <<>>)
      /\ \A n \in 1..depth : other[n] = Row(v, depth, n, other[n - 1])
  BY <1>0, SerializationsAre
<1> HIDE DEF one, other
<1>3. ASSUME NEW n \in Nat, n <= depth - 1
      PROVE  Nested(p)[(depth - 1) - n] \subseteq Nested(v)[depth - n]
  <2>1. (depth - 1) - n \in Nat /\ ((depth - 1) - n) + 1 <= Deepest /\ ((depth - 1) - n) + 1 = depth - n
    BY <1>0, <1>3
  <2>2. Nested(p)[(depth - 1) - n] \subseteq Nested(v)[((depth - 1) - n) + 1]
    BY <2>1, NestedOfPart
  <2>. QED
    BY <2>1, <2>2
<1>4. ASSUME NEW n \in Nat, n <= depth - 1, NEW u \in Nested(p)[(depth - 1) - n], NEW before
      PROVE  /\ Row(p, depth - 1, n, before)[u] = Written(u, before)
             /\ Row(v, depth, n, before)[u] = Written(u, before)
  <2>1. u \in Nested(v)[depth - n]
    BY <1>3, <1>4
  <2>. QED
    BY <1>4, <2>1 DEF Row
<1>5. 0 \in S
  <2>1. ASSUME 0 <= depth - 1, NEW u \in Nested(p)[(depth - 1) - 0]
        PROVE  one[0][u] = other[0][u]
    BY <1>1, <1>2, <1>4, <2>1
  <2>. QED
    BY <2>1
<1>6. ASSUME NEW n \in Nat, n \in S
      PROVE  n + 1 \in S
  <2>1. ASSUME n + 1 <= depth - 1, NEW u \in Nested(p)[(depth - 1) - (n + 1)]
        PROVE  one[n + 1][u] = other[n + 1][u]
    <3>1. /\ n + 1 \in 1..(depth - 1) /\ n + 1 \in 1..depth /\ (n + 1) - 1 = n /\ n <= depth - 1
          /\ n + 1 \in Nat /\ (depth - 1) - n \in 1..Deepest
          /\ ((depth - 1) - n) - 1 = (depth - 1) - (n + 1)
      BY <1>0, <2>1
    <3>2. one[n + 1][u] = Written(u, one[n])
      BY <1>1, <1>4, <2>1, <3>1
    <3>3. other[n + 1][u] = Written(u, other[n])
      BY <1>2, <1>4, <2>1, <3>1
    <3>4. ASSUME NEW q \in PartsOf(u)
          PROVE  one[n][q] = other[n][q]
      <4>1. Nested(p)[(depth - 1) - n] = PartsAmong(Nested(p)[(depth - 1) - (n + 1)])
        BY <3>1, NestedIs
      <4>2. q \in Nested(p)[(depth - 1) - n]
        BY <2>1, <4>1 DEF PartsAmong
      <4>. QED
        BY <1>6, <3>1, <4>2
    <3>5. Written(u, one[n]) = Written(u, other[n])
      BY <3>4, WrittenOfParts
    <3>. QED
      BY <3>2, <3>3, <3>5
  <2>. QED
    BY <2>1, <1>6
<1>7. Nat \subseteq S
  <2> HIDE DEF S
  <2>. QED
    BY <1>5, <1>6, FromZeroUp
<1>8. last \in S /\ last <= depth - 1
  BY <1>0, <1>7
<1>9. one[last][within] = other[last][within]
  BY <1>8
<1>. QED
  BY <1>9 DEF one, other

LEMMA EncodingIs ==
  ASSUME NEW v, NEW depth \in 0..Deepest, NEW serialized,
         \A p \in PartsOf(v) : depth >= 1 /\ serialized[p] = Encoding(p, depth - 1)
  PROVE  Encoding(v, depth) = Written(v, serialized)
<1> DEFINE all == Serializations(v, depth)
<1>0. Deepest \in Nat /\ depth \in Nat /\ depth <= Deepest
  BY NestingAssumption
<1>1. /\ all[0] = Row(v, depth, 0, <<>>)
      /\ \A n \in 1..depth : all[n] = Row(v, depth, n, all[n - 1])
  BY <1>0, SerializationsAre
<1>2. Encoding(v, depth) = all[depth][v]
  BY DEF Encoding
<1> HIDE DEF all
<1>3. ASSUME NEW before
      PROVE  Row(v, depth, depth, before)[v] = Written(v, before)
  <2>1. Nested(v)[depth - depth] = {v}
    BY <1>0, NestedIs
  <2>. QED
    BY <2>1 DEF Row
<1>4. CASE depth = 0
  <2>1. Encoding(v, depth) = Written(v, <<>>)
    BY <1>1, <1>2, <1>3, <1>4
  <2>2. \A p \in PartsOf(v) : FALSE
    BY <1>4
  <2>3. \A p \in PartsOf(v) : (<<>>)[p] = serialized[p]
    BY <2>2
  <2> DEFINE none == <<>>
  <2> HIDE DEF none
  <2>4. Written(v, none) = Written(v, serialized)
    BY <2>2, WrittenOfParts
  <2>. QED
    BY <2>1, <2>4 DEF none
<1>5. CASE depth # 0
  <2>1. depth \in 1..depth /\ depth \in 1..Deepest /\ depth - 1 \in 0..(depth - 1)
    BY <1>0, <1>5
  <2>2. Encoding(v, depth) = Written(v, all[depth - 1])
    BY <1>1, <1>2, <1>3, <2>1
  <2>3. ASSUME NEW p \in PartsOf(v)
        PROVE  all[depth - 1][p] = serialized[p]
    <3>1. p \in Nested(p)[(depth - 1) - (depth - 1)]
      <4>1. (depth - 1) - (depth - 1) = 0
        BY <1>0
      <4>. QED
        BY <4>1, NestedIs
    <3>2. Serializations(p, depth - 1)[depth - 1][p] = all[depth - 1][p]
      BY <2>1, <3>1, SerializedAlike DEF all
    <3>. QED
      BY <3>2 DEF Encoding
  <2>4. Written(v, all[depth - 1]) = Written(v, serialized)
    BY <2>3, WrittenOfParts
  <2>. QED
    BY <2>2, <2>4
<1>. QED
  BY <1>4, <1>5

---------------------------------------------------------------------------
(* Types, and the slots of a struct. *)

PartTypesAmong(types) == UNION {PartTypes(T) : T \in types}

LEMMA TypeLevelsAre ==
  /\ \A n \in 0..Deepest : \A T \in TypeLevels[n] : T \in Types /\ PartTypes(T) \subseteq TypeLevels[n + 1]
  /\ TypeLevels[0] = Types /\ TypeLevels[Deepest + 1] = {}
<1> DEFINE further == [types \in SUBSET Types |-> PartTypesAmong(types)]
           last == Deepest + 1
           step == [i \in 1..last |-> further]
           level == CHOOSE f : f = [n \in 0..(Deepest + 1) |->
                                      IF n = 0 THEN Types ELSE PartTypesAmong(f[n - 1])]
<1>1. last \in Nat /\ Deepest \in Nat
  BY NestingAssumption
<1>2. further \in [SUBSET Types -> SUBSET Types]
  BY WidthsAssumption DEF PartTypesAmong
<1>3. \A i \in 1..last : step[i] \in [SUBSET Types -> SUBSET Types]
  BY <1>2
<1>4. PICK f : Climbs(f, last, SUBSET Types, Types, step)
  <2> HIDE DEF step, last
  <2>. QED
    BY <1>1, <1>3, StepsTaken
<1>5. \A n \in 0..last : f[n] \in SUBSET Types
  BY <1>4 DEF Climbs
<1>6. f = [n \in 0..last |-> IF n = 0 THEN Types ELSE step[n][f[n - 1]]]
  BY <1>4 DEF Climbs
<1>7. ASSUME NEW n \in 0..last
      PROVE  f[n] = IF n = 0 THEN Types ELSE PartTypesAmong(f[n - 1])
  <2>1. CASE n = 0
    BY <1>6, <2>1
  <2>2. CASE n # 0
    <3>1. n \in 1..last /\ n - 1 \in 0..last
      BY <1>1, <2>2
    <3>2. step[n] = further /\ f[n - 1] \in SUBSET Types
      BY <1>5, <3>1
    <3>3. f[n] = step[n][f[n - 1]]
      BY <1>6, <2>2
    <3> HIDE DEF step
    <3>. QED
      BY <2>2, <3>2, <3>3
  <2>. QED
    BY <2>1, <2>2
<1>8. f = [n \in 0..(Deepest + 1) |-> IF n = 0 THEN Types ELSE PartTypesAmong(f[n - 1])]
  <2>1. f = [n \in 0..last |-> f[n]]
    BY <1>6
  <2>. QED
    BY <1>7, <2>1
<1>9. level = [n \in 0..(Deepest + 1) |-> IF n = 0 THEN Types ELSE PartTypesAmong(level[n - 1])]
  BY <1>8
<1>10. TypeLevels = level
  BY DEF TypeLevels, PartTypesAmong
<1> HIDE DEF level, further, step
<1>11. ASSUME NEW n \in 0..(Deepest + 1)
       PROVE  TypeLevels[n] = IF n = 0 THEN Types ELSE PartTypesAmong(TypeLevels[n - 1])
  BY <1>9, <1>10
<1>12. TypeLevels[0] = Types
  BY <1>1, <1>11
<1>13. ASSUME NEW n \in 0..Deepest
       PROVE  TypeLevels[n + 1] = PartTypesAmong(TypeLevels[n])
  <2>1. n + 1 \in 0..(Deepest + 1) /\ n + 1 # 0 /\ (n + 1) - 1 = n
    BY <1>1
  <2>. QED
    BY <1>11, <2>1
<1> DEFINE S == {n \in Nat : n <= Deepest => TypeLevels[n] \subseteq Types}
<1>14. 0 \in S
  BY <1>12
<1>15. ASSUME NEW n \in Nat, n \in S
       PROVE  n + 1 \in S
  <2>1. ASSUME n + 1 <= Deepest
        PROVE  TypeLevels[n + 1] \subseteq Types
    <3>1. n \in 0..Deepest /\ n <= Deepest
      BY <1>1, <2>1
    <3>2. TypeLevels[n] \subseteq Types
      BY <1>15, <3>1
    <3>. QED
      BY <1>13, <3>1, <3>2, WidthsAssumption DEF PartTypesAmong
  <2>. QED
    BY <2>1
<1>16. Nat \subseteq S
  <2> HIDE DEF S
  <2>. QED
    BY <1>14, <1>15, FromZeroUp
<1>17. ASSUME NEW n \in 0..Deepest, NEW T \in TypeLevels[n]
       PROVE  T \in Types /\ PartTypes(T) \subseteq TypeLevels[n + 1]
  <2>1. n \in S /\ n <= Deepest
    BY <1>1, <1>16
  <2>. QED
    BY <1>13, <1>17, <2>1 DEF PartTypesAmong
<1>. QED
  BY <1>12, <1>17, NestingAssumption

(* How many slots there are for an offset before a field's, and one. *)
Variable(T, f) == {g \in 1..(f - 1) : ~ IsFixed(T.fields[g])}
Ordinal(T, f) == Cardinality(Variable(T, f)) + 1

LEMMA VariableIsFinite ==
  ASSUME NEW T, NEW f \in Nat
  PROVE  IsFiniteSet(Variable(T, f)) /\ Ordinal(T, f) \in Nat \ {0}
<1>1. f - 1 \in Int
  OBVIOUS
<1>2. IsFiniteSet(1..(f - 1)) /\ Variable(T, f) \subseteq 1..(f - 1)
  BY <1>1, FS_Interval DEF Variable
<1>3. IsFiniteSet(Variable(T, f))
  BY <1>2, FS_Subset
<1>4. Cardinality(Variable(T, f)) \in Nat
  BY <1>3, FS_CardinalityType
<1>. QED
  BY <1>3, <1>4 DEF Ordinal

(* A field of no fixed width has an offset of its own. *)
LEMMA OrdinalsRise ==
  ASSUME NEW T
  PROVE  /\ Variable(T, 1) = {} /\ Ordinal(T, 1) = 1
         /\ \A f \in Nat \ {0} :
              /\ IsFixed(T.fields[f]) =>
                   Variable(T, f + 1) = Variable(T, f) /\ Ordinal(T, f + 1) = Ordinal(T, f)
              /\ ~ IsFixed(T.fields[f]) =>
                   /\ Variable(T, f + 1) = Variable(T, f) \cup {f}
                   /\ Ordinal(T, f + 1) = Ordinal(T, f) + 1
<1>1. Variable(T, 1) = {} /\ Ordinal(T, 1) = 1
  <2>1. Variable(T, 1) = {}
    BY DEF Variable
  <2>2. Cardinality({}) = 0
    BY FS_EmptySet
  <2>. QED
    BY <2>1, <2>2 DEF Ordinal
<1>2. ASSUME NEW f \in Nat \ {0}
      PROVE  /\ IsFixed(T.fields[f]) => Variable(T, f + 1) = Variable(T, f)
             /\ ~ IsFixed(T.fields[f]) => Variable(T, f + 1) = Variable(T, f) \cup {f}
             /\ f \notin Variable(T, f)
  <2>1. \A g : g \in 1..((f + 1) - 1) <=> g \in 1..(f - 1) \/ g = f
    OBVIOUS
  <2>2. f \notin 1..(f - 1)
    OBVIOUS
  <2>. QED
    BY <2>1, <2>2, Zenon DEF Variable
<1>3. ASSUME NEW f \in Nat \ {0}, ~ IsFixed(T.fields[f])
      PROVE  Ordinal(T, f + 1) = Ordinal(T, f) + 1
  <2> DEFINE before == Variable(T, f)
  <2>1. IsFiniteSet(before) /\ f \notin before /\ Variable(T, f + 1) = before \cup {f}
    BY <1>2, <1>3, VariableIsFinite
  <2> HIDE DEF before
  <2>2. Cardinality(before \cup {f}) = Cardinality(before) + 1
    BY <2>1, FS_AddElement
  <2>3. Cardinality(before) \in Nat
    BY <2>1, FS_CardinalityType
  <2>. QED
    BY <2>1, <2>2, <2>3 DEF Ordinal, before
<1>4. ASSUME NEW f \in Nat \ {0}, IsFixed(T.fields[f])
      PROVE  Ordinal(T, f + 1) = Ordinal(T, f)
  BY <1>2, <1>4 DEF Ordinal
<1>. QED
  BY <1>1, <1>2, <1>3, <1>4

LEMMA OrdinalsBelow ==
  ASSUME NEW T, NEW n \in Nat, NEW f \in 1..(n + 1)
  PROVE  Ordinal(T, f) \in 1..Ordinal(T, n + 1)
<1> DEFINE m == n + 1
           ordinals == [g \in 1..m |-> Ordinal(T, g)]
<1>1. m \in Nat /\ \A g \in 1..m : Ordinal(T, g) \in Nat \ {0}
  BY VariableIsFinite
<1>2. \A g \in 1..m : ordinals[g] = Ordinal(T, g) /\ ordinals[g] \in Int
  BY <1>1
<1>3. \A g \in 1..(m - 1) : ordinals[g] <= ordinals[g + 1]
  <2>1. ASSUME NEW g \in 1..(m - 1)
        PROVE  ordinals[g] <= ordinals[g + 1]
    <3>1. g \in 1..m /\ g + 1 \in 1..m /\ g \in Nat \ {0}
      OBVIOUS
    <3>2. Ordinal(T, g + 1) = Ordinal(T, g) \/ Ordinal(T, g + 1) = Ordinal(T, g) + 1
      BY <3>1, OrdinalsRise
    <3>3. Ordinal(T, g) \in Nat
      BY <1>1, <3>1
    <3>4. ordinals[g] = Ordinal(T, g) /\ ordinals[g + 1] = Ordinal(T, g + 1)
      BY <1>2, <3>1
    <3> HIDE DEF ordinals
    <3>. QED
      BY <3>2, <3>3, <3>4
  <2>. QED
    BY <2>1
<1>4. f \in 1..m /\ m \in f..m
  BY <1>1
<1> HIDE DEF m, ordinals
<1>5. ordinals[f] <= ordinals[m]
  BY <1>1, <1>2, <1>3, <1>4, Rises
<1>6. m \in 1..m
  BY <1>1, <1>4
<1>7. Ordinal(T, f) \in Nat \ {0} /\ Ordinal(T, m) \in Nat \ {0} /\ Ordinal(T, f) <= Ordinal(T, m)
  BY <1>1, <1>2, <1>4, <1>5, <1>6
<1>. QED
  BY <1>7 DEF m

---------------------------------------------------------------------------
(* The parts a call has read, each written as what it was read from.       *)

Place(frame, from, to, s) == Segment(s, frame.start + from, frame.start + to)

(* Which part a body is. *)
Body(frame, j) == IF IsStruct(frame.type) THEN frame.variable_fields[j] ELSE j

(* The fields before one whose offsets are noted are those of no fixed width, *)
(* in their order.                                                         *)
Noted(frame, f) ==
  /\ Len(frame.variable_fields) + 1 = Ordinal(frame.type, f)
  /\ \A j \in 1..Len(frame.variable_fields) :
       /\ frame.variable_fields[j] \in Variable(frame.type, f)
       /\ Ordinal(frame.type, frame.variable_fields[j]) = j
  /\ \A g \in Variable(frame.type, f) :
       /\ Ordinal(frame.type, g) \in 1..Len(frame.variable_fields)
       /\ frame.variable_fields[Ordinal(frame.type, g)] = g

(* The slots before a field's are what the parts and the offsets are written as. *)
SlotsRead(frame, f, depth, s) ==
  \A g \in 1..(f - 1) :
    Place(frame, slotStart[frame.type][g], slotStart[frame.type][g + 1], s) =
      IF IsFixed(frame.type.fields[g]) THEN Encoding(frame.parts[g], depth)
      ELSE ToBytes(frame.offsets[Ordinal(frame.type, g)], OffsetWidth)

BodiesRead(frame, depth, s) ==
  \A j \in 1..(frame.next - 1) :
    Encoding(frame.parts[Body(frame, j)], depth) =
      Place(frame, Bounds(frame)[j], Bounds(frame)[j + 1], s)

TableRead(frame, s) ==
  \A k \in 1..Len(frame.offsets) :
    ToBytes(frame.offsets[k], OffsetWidth) =
      Place(frame, (k - 1) * OffsetWidth, k * OffsetWidth, s)

StructRead(frame, depth, s) ==
  LET n == Len(frame.type.fields)
  IN  /\ frame.offsets # <<>> /\ frame.offsets[1] = LeadingWidth(frame.type)
      /\ Noted(frame, n + 1) /\ SlotsRead(frame, n + 1, depth, s)

SequenceRead(frame, s) ==
  \/ /\ IsFixed(frame.type.element) \/ frame.offsets = <<>>
     /\ Bounds(frame)[1] = 0
  \/ /\ ~ IsFixed(frame.type.element) /\ frame.offsets # <<>>
     /\ frame.offsets[1] = Len(frame.offsets) * OffsetWidth
     /\ TableRead(frame, s)

UnionRead(frame, s) == frame.offsets = <<1>> /\ <<frame.option>> = Place(frame, 0, 1, s)

(* A call and how many wait for it. *)
EncodedSoFar(frame, above, s) ==
  LET depth == Deepest - above - 1
  IN  /\ above \in 0..Deepest /\ frame.type \in TypeLevels[above]
      /\ frame.stage # "called" => ScopeFault(frame.type, frame.scope) = NoFault
      /\ frame.stage = "table" => ~ IsFixed(frame.type.element) /\ TableRead(frame, s)
      /\ frame.stage = "slots" =>
           Noted(frame, frame.next) /\ SlotsRead(frame, frame.next, depth, s)
      /\ frame.stage = "bodies" =>
           /\ BodiesRead(frame, depth, s)
           /\ IsStruct(frame.type) => StructRead(frame, depth, s)
           /\ IsSequence(frame.type) => SequenceRead(frame, s)
           /\ frame.type.shape = "union" => UnionRead(frame, s)

EInv ==
  /\ frames # <<>> => position <= Len(request.stream)
  /\ \A k \in DOMAIN frames : EncodedSoFar(frames[k], k - 1, request.stream)
  /\ Canonical

LEMMA RefuseEncodes ==
  ASSUME EInv, NEW fault, NEW at, Refuse(fault, at)
  PROVE  EInv'
<1>1. frames' = <<>> /\ outcome'.answer = "refused"
  BY DEF Refuse, Refused
<1>2. DOMAIN frames' = {}
  BY <1>1
<1>3. Canonical'
  BY <1>1 DEF Canonical, Accepted
<1>. QED
  BY <1>1, <1>2, <1>3 DEF EInv

(* Nothing is answered while a call is in progress. *)
LEMMA NotYetAccepted ==
  ASSUME IInv, frames # <<>>, UNCHANGED outcome
  PROVE  Canonical'
BY DEF IInv, OutcomeStands, Pending, Canonical, Accepted

LEMMA TopEncoded ==
  ASSUME IInv, EInv, frames # <<>>
  PROVE  /\ EncodedSoFar(current, Len(frames) - 1, request.stream)
         /\ position <= Len(request.stream)
BY StackAt DEF EInv

LEMMA ContinueEncodes ==
  ASSUME IInv, EInv, frames # <<>>, NEW frame, NEW at, Continue(frame, at), UNCHANGED request,
         at <= Len(request.stream), EncodedSoFar(frame, Len(frames) - 1, request.stream)
  PROVE  EInv'
<1> DEFINE n == Len(frames)
<1>1. n \in Nat \ {0} /\ DOMAIN frames = 1..n
  BY StackAt
<1>2. frames' = Append(Front(frames), frame) /\ UNCHANGED outcome /\ position' = at
  BY DEF Continue
<1>3. /\ IsStack(Front(frames)) /\ Len(Front(frames)) = n - 1
      /\ \A i \in 1..(n - 1) : Front(frames)[i] = frames[i]
  BY Popped DEF IInv, FramesStand
<1>4. /\ Len(frames') = n /\ DOMAIN frames' = 1..n
      /\ \A i \in 1..(n - 1) : frames'[i] = frames[i]
      /\ frames'[n] = frame
  <2> HIDE DEF n
  <2>. QED
    BY <1>1, <1>2, <1>3, Pushed
<1>5. EncodedSoFar(frame, n - 1, request.stream)
  OBVIOUS
<1> HIDE DEF n
<1>6. \A i \in 1..n : i \in 1..(n - 1) \/ i = n
  BY <1>1
<1>7. ASSUME NEW i \in 1..n
      PROVE  EncodedSoFar(frames'[i], i - 1, request'.stream)
  <2>1. CASE i = n
    BY <1>4, <1>5, <2>1
  <2>2. CASE i # n
    <3>1. frames'[i] = frames[i]
      BY <1>4, <1>6, <2>2
    <3>2. EncodedSoFar(frames[i], i - 1, request.stream)
      BY <1>1 DEF EInv
    <3>. QED
      BY <3>1, <3>2
  <2>. QED
    BY <2>1, <2>2
<1>8. Canonical'
  BY <1>2, NotYetAccepted
<1>. QED
  BY <1>2, <1>4, <1>7, <1>8 DEF EInv

(* There is a level for every part that is called for. *)
LEMMA PartLevel ==
  ASSUME NEW frame, NEW above, NEW s, EncodedSoFar(frame, above, s),
         NEW T \in PartTypes(frame.type)
  PROVE  above + 1 \in 0..Deepest /\ T \in TypeLevels[above + 1]
<1>1. above \in 0..Deepest /\ frame.type \in TypeLevels[above] /\ Deepest \in Nat
  BY NestingAssumption DEF EncodedSoFar
<1>2. T \in TypeLevels[above + 1]
  BY <1>1, TypeLevelsAre
<1>3. above # Deepest
  BY <1>2, TypeLevelsAre
<1>. QED
  BY <1>1, <1>2, <1>3

LEMMA CallEncodes ==
  ASSUME IInv, EInv, frames # <<>>, NEW T \in PartTypes(current.type), NEW scope, NEW at,
         frames' = Append(frames, Called(T, scope, at)), UNCHANGED <<request, outcome, position>>
  PROVE  EInv'
<1> DEFINE n == Len(frames)
           part == Called(T, scope, at)
<1>1. n \in Nat \ {0} /\ DOMAIN frames = 1..n
  BY StackAt
<1>2. part.type = T /\ part.stage = "called"
  BY DEF Called
<1>3. /\ Len(frames') = n + 1 /\ DOMAIN frames' = 1..(n + 1)
      /\ \A i \in 1..n : frames'[i] = frames[i]
      /\ frames'[n + 1] = part
  BY Pushed DEF IInv, FramesStand
<1>4. EncodedSoFar(current, n - 1, request.stream) /\ position <= Len(request.stream)
  BY TopEncoded
<1> HIDE DEF n, part
<1>5. (n - 1) + 1 \in 0..Deepest /\ T \in TypeLevels[(n - 1) + 1] /\ (n - 1) + 1 = n
      /\ (n + 1) - 1 = n
  <2>1. (n - 1) + 1 \in 0..Deepest /\ T \in TypeLevels[(n - 1) + 1]
    BY <1>4, PartLevel, Zenon
  <2>2. (n - 1) + 1 = n /\ (n + 1) - 1 = n
    BY <1>1
  <2>. QED
    BY <2>1, <2>2
<1>6. EncodedSoFar(part, (n + 1) - 1, request.stream)
  BY <1>2, <1>5 DEF EncodedSoFar
<1>7. ASSUME NEW i \in 1..(n + 1)
      PROVE  EncodedSoFar(frames'[i], i - 1, request'.stream)
  <2>1. CASE i = n + 1
    BY <1>3, <1>6, <2>1
  <2>2. CASE i # n + 1
    <3>1. i \in 1..n
      BY <1>1, <2>2
    <3>2. EncodedSoFar(frames[i], i - 1, request.stream)
      BY <1>1, <3>1 DEF EInv
    <3>. QED
      BY <1>3, <3>1, <3>2
  <2>. QED
    BY <2>1, <2>2
<1>8. Canonical'
  BY NotYetAccepted
<1>. QED
  BY <1>3, <1>4, <1>7, <1>8 DEF EInv

LEMMA Onward ==
  ASSUME NEW x \in Int, NEW y \in Int, NEW z \in Int
  PROVE  (x + y) + z = x + (y + z) /\ (x + y) + (z - y) = x + z
OBVIOUS

(* A caller that is given a part is given what was read for it.            *)
LEMMA FilledEncodes ==
  ASSUME NEW caller, FrameStands(caller), NEW part, Calls(caller, part), ReadSoFar(caller),
         NEW above, NEW s, EncodedSoFar(caller, above, s),
         NEW value, Encoding(value, Deepest - above - 1) = Segment(s, part.start, End(part))
  PROVE  EncodedSoFar(Filled(caller, value), above, s)
<1> DEFINE filled == Filled(caller, value)
           reading == Reading(caller)
           depth == Deepest - above - 1
           T == caller.type
<1>1. /\ IsFrame(caller) /\ caller.stage \in {"slots", "bodies"} /\ caller.next \in Nat \ {0}
      /\ caller.start \in Nat /\ caller.scope \in Int /\ caller.offsets \in Seq(Nat)
      /\ InSlots(caller) \/ InBodies(caller)
  <2>1. IsFrame(caller) /\ caller.stage \in {"slots", "bodies"}
    BY DEF FrameStands, Calls
  <2>2. InSlots(caller) \/ InBodies(caller)
    BY <2>1 DEF FrameStands, JustCalled, InTable
  <2>3. caller.next \in Nat \ {0}
    <3>1. CASE InSlots(caller)
      BY <3>1 DEF InSlots
    <3>2. CASE InBodies(caller)
      BY <3>2 DEF InBodies
    <3>. QED
      BY <2>2, <3>1, <3>2
  <2>4. caller.start \in Nat /\ caller.scope \in Int /\ caller.offsets \in Seq(Nat)
    BY <2>1 DEF IsFrame
  <2>. QED
    BY <2>1, <2>2, <2>3, <2>4
<1>2. DOMAIN caller = FrameFields /\ T \in Types
  BY <1>1 DEF IsFrame
<1>3. /\ filled.next = caller.next + 1 /\ filled.type = T
      /\ filled.stage = caller.stage /\ filled.option = caller.option
      /\ filled.start = caller.start /\ filled.scope = caller.scope
      /\ filled.offsets = caller.offsets /\ filled.variable_fields = caller.variable_fields
      /\ filled.parts = [caller.parts EXCEPT ![reading] = value]
  BY <1>2 DEF Filled, FrameFields
<1>4. IsStack(caller.parts) /\ CountStands(caller)
  BY <1>1 DEF ReadSoFar
<1>5. /\ above \in 0..Deepest /\ T \in TypeLevels[above]
      /\ ScopeFault(T, caller.scope) = NoFault
  BY <1>1 DEF EncodedSoFar
<1>6. Encoding(value, depth) = Segment(s, part.start, End(part))
  OBVIOUS
<1>7. Bounds(filled) = Bounds(caller)
  BY <1>3 DEF Bounds
<1>8. \A from, to : Place(filled, from, to, s) = Place(caller, from, to, s)
  BY <1>3 DEF Place
<1>9. ASSUME reading \in 1..Len(caller.parts)
      PROVE  \A p \in 1..Len(caller.parts) :
               filled.parts[p] = IF p = reading THEN value ELSE caller.parts[p]
  <2> DEFINE parts == caller.parts
  <2>1. IsStack(parts) /\ reading \in 1..Len(parts)
    BY <1>4, <1>9
  <2> HIDE DEF parts, reading
  <2>2. \A p \in 1..Len(parts) :
          [parts EXCEPT ![reading] = value][p] = IF p = reading THEN value ELSE parts[p]
    BY <2>1, Replaced
  <2>. QED
    BY <1>3, <2>2 DEF parts
<1> HIDE DEF filled, depth
<1>10. CASE caller.stage = "slots"
  <2>1. /\ InSlots(caller) /\ IsStruct(T) /\ reading = caller.next
        /\ caller.next <= Len(T.fields) /\ IsFixed(T.fields[caller.next])
        /\ part.start = Reached(caller) /\ part.scope = fixedSize[T.fields[caller.next]]
    BY <1>1, <1>10 DEF Reading, Calls, InSlots, InBodies
  <2>2. /\ Len(T.fields) \in Nat /\ Len(caller.parts) = Len(T.fields)
        /\ caller.next \in 1..Len(T.fields)
    BY <1>1, <1>2, <1>4, <2>1, Parts DEF CountStands
  <2>3. /\ Noted(caller, caller.next) /\ SlotsRead(caller, caller.next, depth, s)
    BY <1>10 DEF EncodedSoFar, depth
  <2>4. /\ Variable(T, caller.next + 1) = Variable(T, caller.next)
        /\ Ordinal(T, caller.next + 1) = Ordinal(T, caller.next)
    BY <1>1, <2>1, OrdinalsRise
  <2>5. Noted(filled, filled.next)
    BY <1>3, <2>3, <2>4 DEF Noted
  <2>6. ASSUME NEW g \in 1..(filled.next - 1)
        PROVE  Place(filled, slotStart[T][g], slotStart[T][g + 1], s) =
                 IF IsFixed(T.fields[g]) THEN Encoding(filled.parts[g], depth)
                 ELSE ToBytes(filled.offsets[Ordinal(T, g)], OffsetWidth)
    <3>1. g \in 1..Len(caller.parts) /\ reading \in 1..Len(caller.parts)
      BY <1>1, <1>3, <2>1, <2>2
    <3>2. filled.parts[g] = IF g = reading THEN value ELSE caller.parts[g]
      BY <1>9, <3>1
    <3>3. CASE g = caller.next
      <4>1. Encoding(filled.parts[g], depth) = Segment(s, part.start, End(part))
        BY <1>6, <2>1, <3>2, <3>3
      <4>2. /\ slotStart[T][g] \in Nat
            /\ slotStart[T][g + 1] = slotStart[T][g] + SlotWidth(T.fields[g])
        <5>1. g \in 1..Len(T.fields) /\ g \in 1..(Len(T.fields) + 1)
          BY <2>2, <3>1
        <5>. QED
          BY <1>2, <2>1, <5>1, Slots
      <4>3. fixedSize[T.fields[g]] \in Nat /\ SlotWidth(T.fields[g]) = fixedSize[T.fields[g]]
        <5>1. T.fields[g] \in Types
          BY <1>2, <2>1, <2>2, <3>3, Parts
        <5>. QED
          BY <2>1, <3>3, <5>1, WidthsAssumption DEF SlotWidth
      <4>4. part.start = caller.start + slotStart[T][g]
        BY <1>10, <2>1, <3>3 DEF Reached
      <4>5. End(part) = caller.start + slotStart[T][g + 1]
        <5>1. End(part) = (caller.start + slotStart[T][g]) + fixedSize[T.fields[g]]
          BY <2>1, <3>3, <4>4 DEF End
        <5>2. (caller.start + slotStart[T][g]) + fixedSize[T.fields[g]] =
                caller.start + (slotStart[T][g] + fixedSize[T.fields[g]])
          <6>1. /\ caller.start \in Int /\ slotStart[T][g] \in Int
                /\ fixedSize[T.fields[g]] \in Int
            BY <1>1, <4>2, <4>3
          <6>. QED
            BY <6>1, Onward, Zenon
        <5>. QED
          BY <4>2, <4>3, <5>1, <5>2
      <4>6. Place(filled, slotStart[T][g], slotStart[T][g + 1], s) = Segment(s, part.start, End(part))
        BY <1>8, <4>4, <4>5 DEF Place
      <4>. QED
        BY <2>1, <3>3, <4>1, <4>6
    <3>4. CASE g # caller.next
      <4>1. g \in 1..(caller.next - 1)
        BY <1>1, <1>3, <3>4
      <4>2. Place(caller, slotStart[T][g], slotStart[T][g + 1], s) =
              IF IsFixed(T.fields[g]) THEN Encoding(caller.parts[g], depth)
              ELSE ToBytes(caller.offsets[Ordinal(T, g)], OffsetWidth)
        BY <2>3, <4>1 DEF SlotsRead
      <4>3. filled.parts[g] = caller.parts[g]
        BY <2>1, <3>2, <3>4
      <4>. QED
        BY <1>3, <1>8, <4>2, <4>3
    <3>. QED
      BY <3>3, <3>4
  <2>7. SlotsRead(filled, filled.next, depth, s)
    BY <1>3, <2>6 DEF SlotsRead
  <2>. QED
    BY <1>3, <1>5, <1>10, <2>5, <2>7 DEF EncodedSoFar, depth, filled
<1>11. CASE caller.stage = "bodies"
  <2>1. /\ InBodies(caller) /\ reading = Body(caller, caller.next)
        /\ caller.next \in 1..Len(caller.offsets) /\ Len(caller.offsets) \in Nat
        /\ part.start = Reached(caller) /\ part.scope = Span(caller, caller.next)
    BY <1>1, <1>11 DEF Reading, Body, Calls, InSlots, InBodies
  <2>2. /\ BodiesRead(caller, depth, s)
        /\ IsStruct(T) => StructRead(caller, depth, s)
        /\ IsSequence(T) => SequenceRead(caller, s)
        /\ T.shape = "union" => UnionRead(caller, s)
    BY <1>11 DEF EncodedSoFar, depth
  <2>3. ASSUME IsStruct(T)
        PROVE  /\ \A j \in 1..Len(caller.offsets) :
                    /\ Body(caller, j) = caller.variable_fields[j]
                    /\ caller.variable_fields[j] \in Variable(T, Len(T.fields) + 1)
                    /\ Ordinal(T, caller.variable_fields[j]) = j
               /\ Len(caller.parts) = Len(T.fields) /\ Len(T.fields) \in Nat
    <3>1. Noted(caller, Len(T.fields) + 1)
      BY <2>2, <2>3 DEF StructRead
    <3>2. Len(caller.variable_fields) = Len(caller.offsets)
      BY <2>1, <2>3 DEF InBodies, IsStruct, IsSequence, IsList
    <3>. QED
      BY <1>2, <1>4, <2>3, <3>1, <3>2, Parts DEF Noted, Body, CountStands
  <2>4. ASSUME NEW j \in 1..Len(caller.offsets)
        PROVE  Body(caller, j) \in 1..Len(caller.parts) /\ Body(filled, j) = Body(caller, j)
    <3>1. CASE IsStruct(T)
      BY <1>3, <2>3, <3>1 DEF Variable, Body
    <3>2. CASE ~ IsStruct(T)
      BY <1>3, <1>4, <2>4, <3>2 DEF Body, CountStands
    <3>. QED
      BY <3>1, <3>2
  <2>5. ASSUME NEW j \in 1..(filled.next - 1)
        PROVE  Encoding(filled.parts[Body(filled, j)], depth) =
                 Place(filled, Bounds(filled)[j], Bounds(filled)[j + 1], s)
    <3>1. j \in 1..Len(caller.offsets) /\ (j # caller.next => j \in 1..(caller.next - 1))
      BY <1>1, <1>3, <2>1
    <3>2. filled.parts[Body(caller, j)] =
            IF Body(caller, j) = reading THEN value ELSE caller.parts[Body(caller, j)]
      BY <1>9, <2>1, <2>4, <3>1
    <3>3. CASE j = caller.next
      <4>1. Encoding(filled.parts[Body(filled, j)], depth) = Segment(s, part.start, End(part))
        BY <1>6, <2>1, <2>4, <3>1, <3>2, <3>3
      <4>2. Bounds(caller)[j] \in Int /\ Bounds(caller)[j + 1] \in Int
        <5>1. j \in 1..(Len(caller.offsets) + 1) /\ j + 1 \in 1..(Len(caller.offsets) + 1)
          BY <2>1, <3>1
        <5>. QED
          BY <1>1, <5>1, BoundsAre
      <4>3. part.start = caller.start + Bounds(caller)[j]
        BY <1>11, <2>1, <3>3 DEF Reached
      <4>4. End(part) = caller.start + Bounds(caller)[j + 1]
        <5>1. End(part) = (caller.start + Bounds(caller)[j]) + (Bounds(caller)[j + 1] - Bounds(caller)[j])
          BY <2>1, <3>3, <4>3 DEF End, Span
        <5>2. caller.start \in Int
          BY <1>1
        <5>. QED
          BY <4>2, <5>1, <5>2, Onward
      <4>. QED
        BY <1>7, <1>8, <4>1, <4>3, <4>4 DEF Place
    <3>4. CASE j # caller.next
      <4>1. Body(caller, j) # reading
        <5>1. CASE IsStruct(T)
          BY <2>1, <2>3, <3>1, <3>4, <5>1
        <5>2. CASE ~ IsStruct(T)
          BY <2>1, <3>4, <5>2 DEF Body
        <5>. QED
          BY <5>1, <5>2
      <4>2. filled.parts[Body(filled, j)] = caller.parts[Body(caller, j)]
        BY <2>4, <3>1, <3>2, <4>1
      <4>3. Encoding(caller.parts[Body(caller, j)], depth) =
              Place(caller, Bounds(caller)[j], Bounds(caller)[j + 1], s)
        BY <2>2, <3>1, <3>4 DEF BodiesRead
      <4>. QED
        BY <1>7, <1>8, <4>2, <4>3
    <3>. QED
      BY <3>3, <3>4
  <2>6. BodiesRead(filled, depth, s)
    BY <2>5 DEF BodiesRead
  <2>7. ASSUME IsStruct(T)
        PROVE  StructRead(filled, depth, s)
    <3> DEFINE n == Len(T.fields)
    <3>1. /\ caller.offsets # <<>> /\ caller.offsets[1] = LeadingWidth(T)
          /\ Noted(caller, n + 1) /\ SlotsRead(caller, n + 1, depth, s)
      BY <2>2, <2>7 DEF StructRead
    <3>2. Noted(filled, n + 1)
      BY <1>3, <3>1 DEF Noted
    <3>3. ASSUME NEW g \in 1..((n + 1) - 1)
          PROVE  Place(filled, slotStart[T][g], slotStart[T][g + 1], s) =
                   IF IsFixed(T.fields[g]) THEN Encoding(filled.parts[g], depth)
                   ELSE ToBytes(filled.offsets[Ordinal(T, g)], OffsetWidth)
      <4>1. Place(caller, slotStart[T][g], slotStart[T][g + 1], s) =
              IF IsFixed(T.fields[g]) THEN Encoding(caller.parts[g], depth)
              ELSE ToBytes(caller.offsets[Ordinal(T, g)], OffsetWidth)
        BY <3>1 DEF SlotsRead
      <4>2. ASSUME IsFixed(T.fields[g])
            PROVE  filled.parts[g] = caller.parts[g]
        <5>1. reading # g
          BY <2>1, <2>3, <2>7, <4>2 DEF Variable
        <5>2. g \in 1..Len(caller.parts) /\ reading \in 1..Len(caller.parts)
          BY <2>1, <2>3, <2>4, <2>7
        <5>. QED
          BY <1>9, <5>1, <5>2
      <4>. QED
        BY <1>3, <1>8, <4>1, <4>2
    <3>4. SlotsRead(filled, n + 1, depth, s)
      BY <1>3, <3>3 DEF SlotsRead
    <3>. QED
      BY <1>3, <3>1, <3>2, <3>4 DEF StructRead
  <2>8. ASSUME IsSequence(T)
        PROVE  SequenceRead(filled, s)
    <3>1. SequenceRead(caller, s)
      BY <2>2, <2>8
    <3>2. TableRead(caller, s) => TableRead(filled, s)
      BY <1>3, <1>8 DEF TableRead
    <3>. QED
      BY <1>3, <1>7, <3>1, <3>2 DEF SequenceRead
  <2>9. ASSUME T.shape = "union"
        PROVE  UnionRead(filled, s)
    BY <1>3, <1>8, <2>2, <2>9 DEF UnionRead
  <2>. QED
    BY <1>3, <1>5, <1>11, <2>6, <2>7, <2>8, <2>9 DEF EncodedSoFar, depth, filled
<1>. QED
  BY <1>1, <1>10, <1>11

(* A value that is returned is written as what was read for it. *)
LEMMA ReturnEncodes ==
  ASSUME IInv, LInv, EInv, frames # <<>>, NEW data, NEW at, Return(data, at), UNCHANGED request,
         at = End(current), at <= Len(request.stream),
         Encoding([type |-> Type, data |-> data], Deepest - (Len(frames) - 1)) =
           Segment(request.stream, current.start, at)
  PROVE  EInv'
<1> DEFINE n == Len(frames)
           value == [type |-> Type, data |-> data]
           callers == Front(frames)
<1>1. n \in Nat \ {0} /\ current = frames[n] /\ DOMAIN frames = 1..n
  BY StackAt
<1>2. /\ IsStack(callers) /\ Len(callers) = n - 1 /\ (callers = <<>> <=> n = 1)
      /\ \A i \in 1..(n - 1) : callers[i] = frames[i]
  BY Popped DEF IInv, FramesStand
<1>3. /\ position' = at
      /\ frames' = IF callers = <<>> THEN <<>>
                   ELSE [callers EXCEPT ![Len(callers)] = Filled(callers[Len(callers)], value)]
      /\ outcome' = IF callers # <<>> THEN outcome
                    ELSE IF whole /\ at < Len(stream) THEN Refused("TRAILING_BYTES")
                    ELSE Value(value)
  BY DEF Return
<1>4. Encoding(value, Deepest - (n - 1)) = Segment(request.stream, current.start, at)
  OBVIOUS
<1> HIDE DEF value
<1>5. CASE n = 1
  <2>1. frames' = <<>> /\ callers = <<>>
    BY <1>2, <1>3, <1>5
  <2>2. DOMAIN frames' = {}
    BY <2>1
  <2>3. current.start = 0 /\ Deepest - (n - 1) = Deepest
    <3>1. current.start = 0
      BY <1>1, <1>5, StackAt
    <3>2. Deepest - (1 - 1) = Deepest
      BY NestingAssumption
    <3>. QED
      BY <1>5, <3>1, <3>2
  <2>4. Serialize(value) = SubSeq(request'.stream, 1, position')
    <3>1. Serialize(value) = Segment(request.stream, 0, at)
      BY <1>4, <2>3 DEF Serialize, Encoding
    <3>2. 0 + 1 = 1
      OBVIOUS
    <3>. QED
      BY <1>3, <3>1, <3>2 DEF Segment
  <2>5. Canonical'
    <3>1. outcome' = [answer |-> "refused", fault |-> "TRAILING_BYTES"]
            \/ outcome' = [answer |-> "value", value |-> value]
      BY <1>3, <2>1 DEF Refused, Value
    <3>2. Accepted' => outcome'.value = value
      BY <3>1 DEF Accepted
    <3>. QED
      BY <2>4, <3>2, Zenon DEF Canonical, stream
  <2>. QED
    BY <2>1, <2>2, <2>5 DEF EInv
<1>6. CASE n # 1
  <2> DEFINE m == n - 1
             caller == frames[m]
  <2>1. m \in 1..n /\ m \in Nat \ {0} /\ m + 1 = n /\ m \in 1..m /\ m \in 1..(n - 1)
    BY <1>1, <1>6
  <2>2. Calls(caller, current) /\ FrameStands(caller)
    BY <1>1, <2>1 DEF IInv, CallsMeet, FramesStand
  <2>3. ReadSoFar(caller) /\ EncodedSoFar(caller, m - 1, request.stream)
    BY <1>1, <2>1 DEF LInv, EInv
  <2>4. callers # <<>> /\ Len(callers) = m /\ callers[m] = caller
    BY <1>2, <1>6, <2>1
  <2>5. frames' = [callers EXCEPT ![m] = Filled(caller, value)] /\ outcome' = outcome
    BY <1>3, <2>4
  <2>6. /\ Len(frames') = m /\ DOMAIN frames' = 1..m
        /\ \A i \in 1..m : frames'[i] = IF i = m THEN Filled(caller, value) ELSE frames[i]
    <3> HIDE DEF m, caller, callers
    <3>1. \A i \in 1..m : callers[i] = frames[i]
      BY <1>2, <2>1 DEF m
    <3>2. IsStack(callers) /\ m \in 1..Len(callers)
      BY <1>2, <2>1, <2>4
    <3>3. /\ Len(frames') = Len(callers) /\ DOMAIN frames' = 1..Len(callers)
          /\ \A i \in 1..Len(callers) :
               frames'[i] = IF i = m THEN Filled(caller, value) ELSE callers[i]
      BY <2>5, <3>2, Replaced
    <3>. QED
      BY <2>4, <3>1, <3>3
  <2>7. Deepest - (m - 1) - 1 = Deepest - (n - 1)
    BY <1>1, NestingAssumption
  <2>8. Encoding(value, Deepest - (m - 1) - 1) = Segment(request.stream, current.start, End(current))
    BY <1>4, <2>7
  <2> HIDE DEF callers, n, m, caller
  <2>9. EncodedSoFar(Filled(caller, value), m - 1, request.stream)
    BY <2>2, <2>3, <2>8, FilledEncodes
  <2>10. ASSUME NEW i \in 1..m
         PROVE  EncodedSoFar(frames'[i], i - 1, request'.stream)
    <3>1. CASE i = m
      BY <2>1, <2>6, <2>9, <3>1
    <3>2. CASE i # m
      <4>1. i \in 1..n
        BY <1>1, <2>1
      <4>2. EncodedSoFar(frames[i], i - 1, request.stream)
        BY <1>1, <4>1 DEF EInv
      <4>. QED
        BY <2>6, <3>2, <4>2
    <3>. QED
      BY <3>1, <3>2
  <2>11. Canonical'
    BY <2>5, NotYetAccepted
  <2>. QED
    BY <1>3, <2>6, <2>10, <2>11 DEF EInv
<1>. QED
  BY <1>5, <1>6

(* What a call is let in with, and what it has read nothing of. *)
LEMMA LetIn ==
  ASSUME IInv, EInv, Entered
  PROVE  /\ frames # <<>> /\ UNCHANGED request /\ JustCalled(current) /\ position = current.start
         /\ Type = current.type /\ IsFrame(current) /\ Type \in Types
         /\ ScopeFault(Type, current.scope) = NoFault
         /\ position \in Nat /\ current.scope \in Int /\ DOMAIN current = FrameFields
         /\ Len(frames) - 1 \in 0..Deepest /\ Type \in TypeLevels[Len(frames) - 1]
         /\ position <= Len(request.stream)
<1>1. /\ frames # <<>> /\ UNCHANGED request /\ JustCalled(current) /\ position = current.start
      /\ Type = current.type /\ IsFrame(current) /\ ScopeFault(Type, current.scope) = NoFault
  BY AtCalled DEF Entered
<1>2. Type \in Types /\ current.scope \in Int /\ position \in Nat
  BY <1>1, StackAt
<1>3. DOMAIN current = FrameFields
  BY <1>1 DEF IsFrame
<1>4. /\ Len(frames) - 1 \in 0..Deepest /\ Type \in TypeLevels[Len(frames) - 1]
      /\ position <= Len(request.stream)
  BY <1>1, TopEncoded DEF EncodedSoFar
<1>. QED
  BY <1>1, <1>2, <1>3, <1>4

LEMMA RefuseScopeEncodes ==
  ASSUME EInv, RefuseScope
  PROVE  EInv'
BY RefuseEncodes DEF RefuseScope

LEMMA ReadLeafEncodes ==
  ASSUME IInv, LInv, EInv, ReadLeaf
  PROVE  EInv'
<1> DEFINE fault == LeafFault(Type, current.scope)
           data == LeafData(Type, Bytes(current.scope))
           value == [type |-> Type, data |-> data]
           depth == Deepest - (Len(frames) - 1)
<1>1. Entered /\ IsLeaf(Type)
  BY DEF ReadLeaf
<1>2. IF fault # NoFault THEN Refuse(fault, position + Taken(current.scope))
      ELSE Return(data, position + current.scope)
  BY DEF ReadLeaf, Either
<1>3. CASE fault # NoFault
  BY <1>2, <1>3, RefuseEncodes
<1>4. CASE fault = NoFault
  <2>1. Taken(current.scope) = current.scope
    BY <1>4 DEF LeafFault, NoFault
  <2>2. current.scope \in Nat /\ frames # <<>> /\ position = current.start
    <3>1. CASE current.start = 0
      BY <1>1, <2>1, <3>1, LetIn, StreamStands DEF Taken, Available
    <3>. QED
      BY <1>1, <3>1, LetIn, ScopeOrOutermost
  <2>3. Return(data, position + current.scope)
    BY <1>2, <1>4
  <2>4. position + current.scope <= Len(request.stream)
    BY <1>1, <2>1, <2>2, LetIn, StreamStands DEF Taken, Available, stream
  <2>5. /\ Written(value, <<>>) = Bytes(current.scope)
        /\ PartsOf(value) = {}
    BY <1>1, <1>4, <2>2, LetIn, LeafWritten
  <2>6. depth \in 0..Deepest
    <3>1. Len(frames) - 1 \in 0..Deepest /\ Deepest \in Nat
      BY <1>1, LetIn, NestingAssumption
    <3>. QED
      BY <3>1
  <2>7. Encoding(value, depth) = Segment(request.stream, current.start, position + current.scope)
    <3> HIDE DEF value, depth
    <3>1. \A p \in PartsOf(value) : FALSE
      BY <2>5
    <3> DEFINE none == <<>>
    <3> HIDE DEF none
    <3>2. Encoding(value, depth) = Written(value, none)
      BY <2>6, <3>1, EncodingIs
    <3>. QED
      BY <2>2, <2>5, <3>2 DEF none, Segment, Bytes, stream
  <2>8. position + current.scope = End(current)
    BY <2>2 DEF End
  <2> HIDE DEF data
  <2>. QED
    BY <1>1, <2>2, <2>3, <2>4, <2>7, <2>8, LetIn, ReturnEncodes
<1>. QED
  BY <1>3, <1>4

LEMMA NothingRead ==
  ASSUME NEW frame, frame.stage = "bodies", frame.next = 1, ~ IsStruct(frame.type),
         NEW above \in 0..Deepest, frame.type \in TypeLevels[above],
         ScopeFault(frame.type, frame.scope) = NoFault, NEW s,
         IsSequence(frame.type) => SequenceRead(frame, s),
         frame.type.shape = "union" => UnionRead(frame, s)
  PROVE  EncodedSoFar(frame, above, s)
<1>1. 1..(frame.next - 1) = {}
  OBVIOUS
<1>2. BodiesRead(frame, Deepest - above - 1, s)
  BY <1>1 DEF BodiesRead
<1>. QED
  BY <1>2 DEF EncodedSoFar

LEMMA OpenUniformEncodes ==
  ASSUME IInv, EInv, OpenUniform
  PROVE  EInv'
<1> DEFINE width == fixedSize[Type.element]
           count == IF current.scope = 0 THEN 0 ELSE current.scope \div width
           offsets == [e \in 1..count |-> (e - 1) * width]
           opened ==
             [current EXCEPT !.stage = "bodies", !.parts = Unread(count), !.offsets = offsets]
<1>1. /\ Entered /\ IsSequence(Type)
      /\ IsFixed(Type.element) \/ current.scope = 0
      /\ Continue(opened, position)
  BY DEF OpenUniform
<1>2. /\ opened.type = Type /\ opened.next = 1 /\ opened.stage = "bodies"
      /\ opened.offsets = offsets /\ opened.scope = current.scope
  BY <1>1, LetIn DEF FrameFields, JustCalled
<1>3. Type \in Types /\ current.scope \in Int
      /\ (current.scope # 0 => width \in Nat \ {0} /\ current.scope \in Nat)
  <2>1. Type \in Types /\ current.scope \in Int /\ ScopeFault(Type, current.scope) = NoFault
    BY <1>1, LetIn
  <2>. QED
    BY <1>1, <2>1, UniformScope
<1>4. count \in Nat /\ (current.scope = 0 => count = 0)
  <2>1. CASE current.scope = 0
    BY <2>1
  <2>2. CASE current.scope # 0
    BY <1>3, <2>2, Quotients
  <2>. QED
    BY <2>1, <2>2
<1> HIDE DEF count, opened
<1>5. Bounds(opened)[1] = 0 /\ (IsFixed(Type.element) \/ opened.offsets = <<>>)
  <2>1. CASE count = 0
    <3>1. opened.offsets = <<>>
      BY <1>2, <2>1
    <3>2. current.scope = 0
      <4>0. SUFFICES ASSUME current.scope # 0
                     PROVE  FALSE
        OBVIOUS
      <4>1. IsFixed(Type.element) /\ current.scope \div width = 0
        BY <1>1, <2>1, <4>0 DEF count
      <4>2. current.scope = (current.scope \div width) * width
        BY <1>1, <4>1, LetIn, UniformScope
      <4>3. 0 * width = 0
        BY <1>3, <4>0
      <4>. QED
        BY <4>0, <4>1, <4>2, <4>3
    <3>3. Bounds(opened) = Append(<<>>, 0)
      BY <1>2, <3>1, <3>2 DEF Bounds
    <3>4. Append(<<>>, 0)[1] = 0
      OBVIOUS
    <3>. QED
      BY <3>1, <3>3, <3>4
  <2>2. CASE count # 0
    <3>1. IsFixed(Type.element) /\ width \in Nat
      BY <1>1, <1>3, <1>4, <2>2
    <3>2. 1 \in 1..count /\ (1 - 1) * width = 0
      BY <1>4, <2>2, <3>1
    <3>3. \A e \in 1..count : (e - 1) * width \in Nat
      BY <3>1, <1>4, NatTimes
    <3>4. offsets \in Seq(Nat) /\ offsets[1] = 0 /\ offsets # <<>>
      <4>1. offsets[1] = 0
        BY <3>2
      <4>2. offsets \in [1..count -> Nat]
        BY <3>3
      <4> HIDE DEF offsets
      <4>. QED
        BY <1>4, <3>2, <4>1, <4>2
    <3> HIDE DEF offsets
    <3>. QED
      BY <1>2, <1>3, <3>1, <3>4, FirstBound
  <2>. QED
    BY <2>1, <2>2
<1>6. SequenceRead(opened, request.stream)
  BY <1>2, <1>5 DEF SequenceRead
<1> HIDE DEF offsets
<1>7. EncodedSoFar(opened, Len(frames) - 1, request.stream)
  <2>1. ~ IsStruct(Type) /\ Type.shape # "union"
    BY <1>1 DEF IsStruct, IsSequence, IsList
  <2>. QED
    BY <1>1, <1>2, <1>6, <2>1, LetIn, NothingRead
<1>. QED
  BY <1>1, <1>7, LetIn, ContinueEncodes

(* An offset is written as it is read. *)
LEMMA OffsetWritten ==
  ASSUME IInv, frames # <<>>, NEW k \in Nat \ {0}, k * OffsetWidth <= Available
  PROVE  ToBytes(Offset(k), OffsetWidth) =
           Segment(request.stream, position + (k - 1) * OffsetWidth, position + k * OffsetWidth)
<1> DEFINE from == position + (k - 1) * OffsetWidth
           to == position + k * OffsetWidth
           bytes == Segment(stream, from, to)
<1>1. position \in Nat /\ Len(stream) \in Nat /\ OffsetWidth \in Nat /\ stream \in Seq(Octets)
  BY Positioned, StreamStands, OffsetsAreWide
<1>2. (k - 1) * OffsetWidth \in Nat /\ (k - 1) * OffsetWidth + OffsetWidth = k * OffsetWidth
      /\ k * OffsetWidth \in Nat
  BY <1>1, Multiples
<1>3. from \in Nat /\ to \in Nat /\ from <= to /\ to - from = OffsetWidth
  BY <1>1, <1>2
<1>4. to <= Len(stream)
  BY <1>1, <1>2 DEF Available
<1>5. Offset(k) = FromBytes(bytes)
  BY DEF Offset, Segment
<1> HIDE DEF from, to
<1>6. bytes \in Seq(Octets) /\ Len(bytes) = OffsetWidth
  <2>1. /\ stream \in Seq(Octets) /\ from \in Nat /\ to \in Nat
        /\ from <= to /\ to <= Len(stream)
    BY <1>1, <1>3, <1>4
  <2>2. bytes \in Seq(Octets) /\ Len(bytes) = to - from
    BY <2>1, SegmentIs, Zenon
  <2>. QED
    BY <1>3, <2>2
<1> HIDE DEF bytes
<1>7. ToBytes(FromBytes(bytes), OffsetWidth) = bytes
  BY <1>6, WrittenAsRead
<1>. QED
  BY <1>5, <1>7 DEF bytes, from, to, stream

LEMMA OpenVectorEncodes ==
  ASSUME IInv, EInv, OpenVector
  PROVE  EInv'
<1> DEFINE n == Type.length
           width == n * OffsetWidth
           fault == VectorTableFault(Type, current.scope)
           opened ==
             [current EXCEPT !.stage = "bodies", !.parts = Unread(n), !.offsets = Offsets(n)]
<1>1. /\ Entered /\ Type.shape = "vector" /\ ~ IsFixed(Type.element)
      /\ IF fault # NoFault THEN Refuse(fault, position + Taken(width))
         ELSE Continue(opened, position + width)
  BY DEF OpenVector, Either
<1>2. CASE fault # NoFault
  BY <1>1, <1>2, RefuseEncodes
<1>3. CASE fault = NoFault
  <2>1. n \in Nat \ {0} /\ width \in Nat \ {0} /\ IsSequence(Type)
    <3>1. n \in Nat \ {0}
      BY <1>1, LetIn, WidthsAssumption
    <3>. QED
      BY <1>1, <3>1, OffsetsAreWide, Products DEF IsSequence
  <2>2. /\ opened.type = Type /\ opened.next = 1 /\ opened.stage = "bodies"
        /\ opened.offsets = Offsets(n) /\ opened.scope = current.scope
        /\ opened.start = position
    BY <1>1, LetIn DEF FrameFields, JustCalled
  <2>3. Continue(opened, position + width)
    BY <1>1, <1>3
  <2>4. /\ frames # <<>> /\ UNCHANGED request /\ Type \in Types
        /\ ScopeFault(Type, current.scope) = NoFault
        /\ Len(frames) - 1 \in 0..Deepest /\ Type \in TypeLevels[Len(frames) - 1]
    BY <1>1, LetIn
  <2>5. width <= Available /\ Offsets(n)[1] = width /\ Available \in Int
    <3>1. width \in Nat /\ Available \in Int
      BY <2>1, <2>4, Positioned, StreamStands DEF Available
    <3>. QED
      BY <1>3, <3>1 DEF VectorTableFault, FirstOffsetFault, NoFault
  <2>6. position + width <= Len(request.stream)
    <3> HIDE DEF width
    <3>. QED
      BY <2>1, <2>4, <2>5, Positioned, StreamStands DEF Available, stream
  <2> HIDE DEF opened, fault, n
  <2>7. Len(Offsets(n)) = n /\ \A k \in 1..n : Offsets(n)[k] = Offset(k)
    BY <2>1, <2>4, <2>5, TableOfOffsets
  <2>8. ASSUME NEW k \in 1..n
        PROVE  ToBytes(opened.offsets[k], OffsetWidth) =
                 Place(opened, (k - 1) * OffsetWidth, k * OffsetWidth, request.stream)
    <3>1. k \in Nat \ {0} /\ k * OffsetWidth <= Available
      <4>1. k * OffsetWidth <= width /\ k * OffsetWidth \in Nat
        BY <2>1, OffsetsAreWide, Multiples
      <4> HIDE DEF width
      <4>. QED
        BY <2>1, <2>5, <4>1
    <3>2. ToBytes(Offset(k), OffsetWidth) =
            Segment(request.stream, position + (k - 1) * OffsetWidth, position + k * OffsetWidth)
      BY <2>4, <3>1, OffsetWritten
    <3>. QED
      BY <2>2, <2>7, <3>2 DEF Place
  <2>9. TableRead(opened, request.stream)
    BY <2>2, <2>7, <2>8 DEF TableRead
  <2>10. opened.offsets # <<>>
    BY <2>1, <2>2, <2>7
  <2>11. SequenceRead(opened, request.stream)
    BY <1>1, <2>2, <2>5, <2>7, <2>9, <2>10 DEF SequenceRead
  <2>12. ~ IsStruct(Type) /\ Type.shape # "union"
    BY <1>1 DEF IsStruct
  <2> HIDE DEF width
  <2>13. EncodedSoFar(opened, Len(frames) - 1, request.stream)
    BY <2>2, <2>4, <2>11, <2>12, NothingRead
  <2>. QED
    BY <2>3, <2>4, <2>6, <2>13, ContinueEncodes
<1>. QED
  BY <1>2, <1>3

LEMMA OpenListEncodes ==
  ASSUME IInv, EInv, OpenList
  PROVE  EInv'
<1> DEFINE fault == ListHeadFault(Type, current.scope)
           opened == [current EXCEPT !.stage = "table", !.offsets = Offsets(1)]
<1>1. /\ Entered /\ IsList(Type) /\ ~ IsFixed(Type.element)
      /\ IF fault # NoFault THEN Refuse(fault, position + Taken(OffsetWidth))
         ELSE Continue(opened, position + OffsetWidth)
  BY DEF OpenList, Either
<1>2. CASE fault # NoFault
  BY <1>1, <1>2, RefuseEncodes
<1>3. CASE fault = NoFault
  <2>1. /\ frames # <<>> /\ UNCHANGED request
        /\ ScopeFault(Type, current.scope) = NoFault
        /\ Len(frames) - 1 \in 0..Deepest /\ Type \in TypeLevels[Len(frames) - 1]
    BY <1>1, LetIn
  <2>2. /\ opened.type = Type /\ opened.stage = "table" /\ opened.scope = current.scope
        /\ opened.offsets = Offsets(1) /\ opened.start = position
    BY <1>1, LetIn DEF FrameFields
  <2>3. Continue(opened, position + OffsetWidth)
    BY <1>1, <1>3
  <2>4. /\ OffsetWidth <= Available /\ OffsetWidth \in Nat \ {0}
        /\ position + OffsetWidth <= Len(request.stream)
    <3>1. /\ OffsetWidth \in Nat \ {0} /\ Available \in Int /\ position \in Nat
          /\ Len(stream) \in Nat
      BY <2>1, Positioned, StreamStands, OffsetsAreWide DEF Available
    <3>2. OffsetWidth <= Available
      BY <1>3, <3>1 DEF ListHeadFault, NoFault
    <3>. QED
      BY <3>1, <3>2 DEF Available, stream
  <2> HIDE DEF opened, fault
  <2>5. 1 * OffsetWidth = OffsetWidth /\ (1 - 1) * OffsetWidth = 0 * OffsetWidth
    BY <2>4
  <2>6. Len(Offsets(1)) = 1 /\ Offsets(1)[1] = Offset(1)
    <3>1. \A k \in 1..1 : Offsets(1)[k] = Offset(k)
      BY DEF Offsets
    <3>2. Len(Offsets(1)) = 1
      BY DEF Offsets
    <3>. QED
      BY <3>1, <3>2
  <2>7. ToBytes(Offset(1), OffsetWidth) =
          Segment(request.stream, position + (1 - 1) * OffsetWidth, position + 1 * OffsetWidth)
    <3>1. 1 \in Nat \ {0} /\ 1 * OffsetWidth <= Available
      BY <2>4, <2>5
    <3>. QED
      BY <2>1, <3>1, OffsetWritten
  <2>8. \A k \in 1..1 : k = 1
    OBVIOUS
  <2>9. TableRead(opened, request.stream)
    BY <2>2, <2>6, <2>7, <2>8 DEF TableRead, Place
  <2>10. EncodedSoFar(opened, Len(frames) - 1, request.stream)
    BY <1>1, <2>1, <2>2, <2>9 DEF EncodedSoFar
  <2>. QED
    BY <2>1, <2>3, <2>4, <2>10, ContinueEncodes
<1>. QED
  BY <1>2, <1>3

LEMMA ReadTableEncodes ==
  ASSUME IInv, EInv, ReadTable
  PROVE  EInv'
<1> DEFINE first == current.offsets[1]
           count == first \div OffsetWidth
           width == first - OffsetWidth
           rest == Offsets(count - 1)
           fault == ListTableFault(first, current.scope)
           offsets == current.offsets \o rest
           opened == [current EXCEPT !.stage = "bodies", !.parts = Unread(count),
                                     !.offsets = offsets]
<1>1. /\ frames # <<>> /\ UNCHANGED request /\ current.stage = "table"
      /\ IF fault # NoFault THEN Refuse(fault, position + Taken(width))
         ELSE Continue(opened, position + width)
  BY DEF ReadTable, At, Either
<1>2. CASE fault # NoFault
  BY <1>1, <1>2, RefuseEncodes
<1>3. CASE fault = NoFault
  <2>1. InTable(current) /\ IsFrame(current) /\ position = current.start + OffsetWidth
    BY <1>1, StackAt DEF FrameStands, JustCalled, InTable, InSlots, InBodies, Reached
  <2>2. /\ current.start \in Nat /\ OffsetWidth \in Nat \ {0} /\ Available \in Int
        /\ current.offsets \in Seq(Nat) /\ Len(current.offsets) = 1 /\ first \in Nat
    <3>1. current.offsets \in Seq(Nat) /\ Len(current.offsets) = 1
      BY <1>1, <2>1, StackAt DEF InTable
    <3>2. first \in Nat
      BY <3>1
    <3>. QED
      BY <1>1, <3>1, <3>2, StackAt, Positioned, StreamStands, OffsetsAreWide DEF Available
  <2>3. OffsetWidth <= first /\ first % OffsetWidth = 0 /\ current.next = 1 /\ IsList(current.type)
    BY <2>1 DEF InTable
  <2>4. /\ EncodedSoFar(current, Len(frames) - 1, request.stream)
        /\ ~ IsFixed(current.type.element) /\ TableRead(current, request.stream)
        /\ ScopeFault(current.type, current.scope) = NoFault
        /\ Len(frames) - 1 \in 0..Deepest /\ current.type \in TypeLevels[Len(frames) - 1]
    BY <1>1, TopEncoded DEF EncodedSoFar
  <2>5. /\ opened.type = current.type /\ opened.next = 1 /\ opened.stage = "bodies"
        /\ opened.offsets = offsets /\ opened.scope = current.scope
        /\ opened.start = current.start
    <3>1. DOMAIN current = FrameFields
      BY <2>1 DEF IsFrame
    <3>. QED
      BY <2>3, <3>1 DEF FrameFields
  <2>6. Continue(opened, position + width)
    BY <1>1, <1>3
  <2> HIDE DEF first, opened
  <2>7. /\ count \in Nat \ {0} /\ count - 1 \in Nat /\ first = count * OffsetWidth
        /\ width \in Nat /\ width = (count - 1) * OffsetWidth
    <3>1. count \in Nat /\ first = count * OffsetWidth + (first % OffsetWidth) /\ count >= 1
      BY <2>2, <2>3, Quotients
    <3> HIDE DEF count
    <3>2. /\ (count - 1) * OffsetWidth + OffsetWidth = count * OffsetWidth
          /\ (count - 1) * OffsetWidth \in Nat /\ count * OffsetWidth \in Nat
      BY <2>2, <3>1, Multiples
    <3>3. first = count * OffsetWidth
      BY <2>3, <3>1, <3>2
    <3>. QED
      BY <2>2, <3>1, <3>2, <3>3
  <2>8. width <= Available /\ position + width <= Len(request.stream)
    <3> HIDE DEF width
    <3>1. width <= Available
      <4>1. ~ (Available < width)
        BY <1>3 DEF ListTableFault, NoFault, width
      <4>. QED
        BY <2>2, <2>7, <4>1
    <3>. QED
      BY <1>1, <2>7, <3>1, Positioned, StreamStands DEF Available, stream
  <2> HIDE DEF count, fault
  <2>9. rest \in Seq(Nat) /\ Len(rest) = count - 1 /\ \A k \in 1..(count - 1) : rest[k] = Offset(k)
    <3> DEFINE n == count - 1
    <3>1. n \in Nat /\ n * OffsetWidth <= Available
      BY <2>7, <2>8
    <3> HIDE DEF n
    <3>2. Offsets(n) \in Seq(Nat) /\ Len(Offsets(n)) = n /\ \A k \in 1..n : Offsets(n)[k] = Offset(k)
      BY <1>1, <3>1, TableOfOffsets
    <3>. QED
      BY <3>2 DEF n
  <2> HIDE DEF rest, width
  <2>10. /\ Len(offsets) = count /\ offsets[1] = first
         /\ \A k \in 2..count : offsets[k] = Offset(k - 1)
    <3>1. /\ Len(offsets) = Len(current.offsets) + Len(rest)
          /\ \A k \in 1..(Len(current.offsets) + Len(rest)) :
               offsets[k] = IF k <= Len(current.offsets) THEN current.offsets[k]
                            ELSE rest[k - Len(current.offsets)]
      BY <2>2, <2>9, ConcatProperties
    <3> HIDE DEF offsets
    <3>2. Len(offsets) = count /\ \A k \in 1..count : offsets[k] = IF k <= 1 THEN current.offsets[k] ELSE rest[k - 1]
      BY <2>2, <2>7, <2>9, <3>1
    <3>3. offsets[1] = first
      <4>1. 1 \in 1..count
        BY <2>7
      <4>. QED
        BY <3>2, <4>1 DEF first
    <3>4. ASSUME NEW k \in 2..count
          PROVE  offsets[k] = Offset(k - 1)
      <4>1. k \in 1..count /\ ~ (k <= 1) /\ k - 1 \in 1..(count - 1)
        BY <2>7
      <4>. QED
        BY <2>9, <3>2, <4>1
    <3>. QED
      BY <3>2, <3>3, <3>4
  <2> HIDE DEF offsets
  <2>11. ASSUME NEW k \in 1..count
         PROVE  ToBytes(offsets[k], OffsetWidth) =
                  Place(current, (k - 1) * OffsetWidth, k * OffsetWidth, request.stream)
    <3>1. CASE k = 1
      <4>1. 1 \in 1..Len(current.offsets)
        BY <2>2
      <4>2. ToBytes(current.offsets[1], OffsetWidth) =
              Place(current, (1 - 1) * OffsetWidth, 1 * OffsetWidth, request.stream)
        BY <2>4, <4>1 DEF TableRead
      <4>. QED
        BY <2>10, <3>1, <4>2 DEF first
    <3>2. CASE k # 1
      <4> DEFINE j == k - 1
      <4>1. k \in 2..count /\ j \in Nat \ {0} /\ j <= count - 1 /\ k >= 1
        BY <2>7, <3>2
      <4>2. /\ j * OffsetWidth \in Nat /\ j * OffsetWidth <= (count - 1) * OffsetWidth
            /\ (j - 1) * OffsetWidth \in Nat /\ (j - 1) * OffsetWidth + OffsetWidth = j * OffsetWidth
            /\ (k - 1) * OffsetWidth = j * OffsetWidth
        <5> HIDE DEF j
        <5>. QED
          BY <2>2, <2>7, <4>1, Multiples DEF j
      <4>3. k * OffsetWidth = j * OffsetWidth + OffsetWidth
        BY <2>2, <4>1, Multiples
      <4> HIDE DEF j
      <4>4. j * OffsetWidth <= Available
        BY <2>2, <2>7, <2>8, <4>2
      <4>5. ToBytes(Offset(j), OffsetWidth) =
              Segment(request.stream, position + (j - 1) * OffsetWidth, position + j * OffsetWidth)
        BY <1>1, <4>1, <4>4, OffsetWritten
      <4>6. /\ position + (j - 1) * OffsetWidth = current.start + (k - 1) * OffsetWidth
            /\ position + j * OffsetWidth = current.start + k * OffsetWidth
        <5> DEFINE a == (j - 1) * OffsetWidth
                   b == j * OffsetWidth
                   c == (k - 1) * OffsetWidth
                   d == k * OffsetWidth
        <5>1. a \in Nat /\ b = a + OffsetWidth /\ c = b /\ d = b + OffsetWidth
          BY <4>2, <4>3
        <5> HIDE DEF a, b, c, d
        <5>2. position + a = current.start + c /\ position + b = current.start + d
          BY <2>1, <2>2, <5>1
        <5>. QED
          BY <5>2 DEF a, b, c, d
      <4>7. offsets[k] = Offset(j)
        BY <2>10, <4>1 DEF j
      <4>. QED
        BY <4>5, <4>6, <4>7 DEF Place
    <3>. QED
      BY <3>1, <3>2
  <2>12. TableRead(opened, request.stream)
    BY <2>5, <2>10, <2>11 DEF TableRead, Place
  <2>13. opened.offsets # <<>>
    BY <2>5, <2>7, <2>10
  <2>14. SequenceRead(opened, request.stream)
    BY <2>4, <2>5, <2>7, <2>10, <2>12, <2>13 DEF SequenceRead
  <2>15. ~ IsStruct(current.type) /\ current.type.shape # "union"
    BY <2>3 DEF IsStruct, IsList
  <2>16. EncodedSoFar(opened, Len(frames) - 1, request.stream)
    BY <2>4, <2>5, <2>14, <2>15, NothingRead
  <2>. QED
    BY <1>1, <2>6, <2>8, <2>16, ContinueEncodes
<1>. QED
  BY <1>2, <1>3

LEMMA OpenStructEncodes ==
  ASSUME IInv, EInv, OpenStruct
  PROVE  EInv'
<1> DEFINE opened == [current EXCEPT !.stage = "slots", !.parts = Unread(Len(Type.fields))]
           above == Len(frames) - 1
<1>1. Entered /\ IsStruct(Type) /\ Continue(opened, position)
  BY DEF OpenStruct
<1>2. /\ opened.type = Type /\ opened.next = 1 /\ opened.stage = "slots"
      /\ opened.scope = current.scope /\ opened.variable_fields = <<>>
  BY <1>1, LetIn DEF FrameFields, JustCalled
<1> HIDE DEF opened
<1>3. Noted(opened, 1)
  <2>1. Variable(Type, 1) = {} /\ Ordinal(Type, 1) = 1
    BY OrdinalsRise
  <2>2. Len(opened.variable_fields) = 0
    BY <1>2
  <2>. QED
    BY <1>2, <2>1, <2>2 DEF Noted
<1>4. SlotsRead(opened, 1, Deepest - above - 1, request.stream)
  BY DEF SlotsRead
<1>5. EncodedSoFar(opened, above, request.stream)
  <2>1. above \in 0..Deepest /\ Type \in TypeLevels[above] /\ ScopeFault(Type, current.scope) = NoFault
    BY <1>1, LetIn
  <2>. QED
    BY <1>2, <1>3, <1>4, <2>1 DEF EncodedSoFar
<1>. QED
  BY <1>1, <1>5, LetIn, ContinueEncodes

(* An offset that is noted is of the next field that has one. *)
LEMMA NotedGrows ==
  ASSUME NEW before, NEW after, NEW f \in Nat \ {0}, Noted(before, f),
         before.variable_fields \in Seq(Nat), ~ IsFixed(before.type.fields[f]),
         after.type = before.type,
         after.variable_fields = Append(before.variable_fields, f)
  PROVE  Noted(after, f + 1)
<1> DEFINE T == before.type
           noted == before.variable_fields
           more == Append(noted, f)
           m == Len(noted)
<1>1. /\ m + 1 = Ordinal(T, f)
      /\ \A j \in 1..m : noted[j] \in Variable(T, f) /\ Ordinal(T, noted[j]) = j
      /\ \A g \in Variable(T, f) : Ordinal(T, g) \in 1..m /\ noted[Ordinal(T, g)] = g
  BY DEF Noted
<1>2. Variable(T, f + 1) = Variable(T, f) \cup {f} /\ Ordinal(T, f + 1) = Ordinal(T, f) + 1
  BY OrdinalsRise
<1>3. after.variable_fields = more /\ after.type = T
  OBVIOUS
<1>4. noted \in Seq(Nat) /\ m \in Nat /\ f \in Nat
  OBVIOUS
<1> HIDE DEF noted, T
<1>5. /\ Len(more) = m + 1 /\ \A j \in 1..m : more[j] = noted[j]
      /\ more[m + 1] = f
  BY <1>4, AppendProperties
<1> HIDE DEF more, m
<1>6. Len(more) + 1 = Ordinal(T, f + 1)
  BY <1>1, <1>2, <1>4, <1>5
<1>7. ASSUME NEW j \in 1..(m + 1)
      PROVE  more[j] \in Variable(T, f + 1) /\ Ordinal(T, more[j]) = j
  <2>1. CASE j = m + 1
    BY <1>1, <1>2, <1>5, <2>1
  <2>2. CASE j # m + 1
    <3>1. j \in 1..m
      BY <1>4, <2>2
    <3>. QED
      BY <1>1, <1>2, <1>5, <3>1
  <2>. QED
    BY <2>1, <2>2
<1>8. ASSUME NEW g \in Variable(T, f + 1)
      PROVE  Ordinal(T, g) \in 1..(m + 1) /\ more[Ordinal(T, g)] = g
  <2>1. CASE g = f
    <3>1. m + 1 \in 1..(m + 1)
      BY <1>4
    <3>. QED
      BY <1>1, <1>5, <2>1, <3>1
  <2>2. CASE g # f
    <3>1. g \in Variable(T, f)
      BY <1>2, <2>2
    <3>2. Ordinal(T, g) \in 1..m /\ noted[Ordinal(T, g)] = g
      BY <1>1, <3>1
    <3>3. 1..m \subseteq 1..(m + 1)
      BY <1>4
    <3>. QED
      BY <1>5, <3>2, <3>3
  <2>. QED
    BY <2>1, <2>2
<1>. QED
  BY <1>3, <1>5, <1>6, <1>7, <1>8 DEF Noted

LEMMA ReadSlotEncodes ==
  ASSUME IInv, EInv, ReadSlot
  PROVE  EInv'
<1> DEFINE fault == IF Available < OffsetWidth THEN "TRUNCATED" ELSE NoFault
           offsets == Append(current.offsets, Offset(1))
           opened ==
             [current EXCEPT !.offsets = offsets,
                             !.variable_fields = Append(current.variable_fields, current.next),
                             !.next = current.next + 1]
           above == Len(frames) - 1
           depth == Deepest - above - 1
           s == request.stream
           T == current.type
           f == current.next
<1>1. /\ At("slots") /\ current.next <= Len(Type.fields) /\ ~ IsFixed(Type.fields[current.next])
      /\ IF fault # NoFault THEN Refuse(fault, position + Taken(OffsetWidth))
         ELSE Continue(opened, position + OffsetWidth)
  BY DEF ReadSlot, Either
<1>2. CASE fault # NoFault
  BY <1>1, <1>2, RefuseEncodes
<1>3. CASE fault = NoFault
  <2>1. /\ frames # <<>> /\ UNCHANGED request /\ InSlots(current) /\ IsFrame(current)
        /\ Type = T /\ T \in Types /\ IsStruct(T)
        /\ f \in 1..Len(T.fields) /\ Len(T.fields) \in Nat
        /\ current.start \in Nat /\ slotStart[T][f] \in Nat
        /\ position = current.start + slotStart[T][f]
        /\ slotStart[T][f + 1] = slotStart[T][f] + SlotWidth(T.fields[f])
        /\ current.offsets \in Seq(Nat)
    BY <1>1, AtSlots
  <2>2. /\ current.stage = "slots" /\ current.variable_fields \in Seq(DOMAIN T.fields)
        /\ Len(current.variable_fields) = Len(current.offsets)
    BY <2>1 DEF InSlots
  <2>3. /\ opened.type = T /\ opened.next = f + 1 /\ opened.stage = "slots"
        /\ opened.parts = current.parts /\ opened.offsets = offsets
        /\ opened.variable_fields = Append(current.variable_fields, f)
        /\ opened.scope = current.scope /\ opened.start = current.start
    <3>1. DOMAIN current = FrameFields
      BY <2>1 DEF IsFrame
    <3>. QED
      BY <2>2, <3>1 DEF FrameFields
  <2>4. Continue(opened, position + OffsetWidth)
    BY <1>1, <1>3
  <2>5. /\ above \in 0..Deepest /\ T \in TypeLevels[above]
        /\ ScopeFault(T, current.scope) = NoFault
        /\ Noted(current, f) /\ SlotsRead(current, f, depth, s)
    BY <2>1, <2>2, TopEncoded DEF EncodedSoFar
  <2>6. /\ OffsetWidth <= Available /\ OffsetWidth \in Nat \ {0} /\ position \in Nat
        /\ position + OffsetWidth <= Len(s)
    <3>1. /\ OffsetWidth \in Nat \ {0} /\ Available \in Int /\ position \in Nat
          /\ Len(stream) \in Nat
      BY <2>1, Positioned, StreamStands, OffsetsAreWide DEF Available
    <3>2. OffsetWidth <= Available
      BY <1>3, <3>1 DEF NoFault
    <3>. QED
      BY <3>1, <3>2 DEF Available, stream
  <2>7. ~ IsFixed(T.fields[f]) /\ SlotWidth(T.fields[f]) = OffsetWidth
    BY <1>1, <2>1 DEF SlotWidth
  <2>8. Offset(1) \in Nat /\ ToBytes(Offset(1), OffsetWidth) = Segment(s, position, position + OffsetWidth)
    <3>1. 1 \in Nat \ {0} /\ 1 * OffsetWidth = OffsetWidth /\ (1 - 1) * OffsetWidth = 0
      BY <2>6
    <3>2. 1 * OffsetWidth <= Available
      BY <2>6, <3>1
    <3>3. ToBytes(Offset(1), OffsetWidth) =
            Segment(s, position + (1 - 1) * OffsetWidth, position + 1 * OffsetWidth)
      BY <2>1, <3>1, <3>2, OffsetWritten
    <3>4. position + 0 = position
      BY <2>6
    <3>. QED
      BY <2>1, <3>1, <3>2, <3>3, <3>4, OffsetIsNumber
  <2> HIDE DEF opened, fault, above, depth
  <2>9. current.variable_fields \in Seq(Nat) /\ f \in Nat \ {0}
    <3>1. DOMAIN T.fields \subseteq Nat
      BY <2>1, Parts
    <3>2. f \in Nat \ {0}
      BY <2>1
    <3>. QED
      BY <2>2, <3>1, <3>2, SeqMonotonic
  <2>10. Noted(opened, f + 1)
    BY <2>3, <2>5, <2>7, <2>9, NotedGrows
  <2>11. /\ \A j \in 1..Len(current.offsets) : offsets[j] = current.offsets[j]
         /\ offsets[Len(current.offsets) + 1] = Offset(1)
    <3> DEFINE before == current.offsets
               offset == Offset(1)
    <3>1. before \in Seq(Nat) /\ offset \in Nat
      BY <2>1, <2>8
    <3> HIDE DEF before, offset
    <3>2. /\ \A j \in 1..Len(before) : Append(before, offset)[j] = before[j]
          /\ Append(before, offset)[Len(before) + 1] = offset
      BY <3>1, AppendProperties
    <3>. QED
      BY <3>2 DEF before, offset
  <2> HIDE DEF offsets
  <2>12. ASSUME NEW g \in 1..((f + 1) - 1)
         PROVE  Place(opened, slotStart[T][g], slotStart[T][g + 1], s) =
                  IF IsFixed(T.fields[g]) THEN Encoding(opened.parts[g], depth)
                  ELSE ToBytes(opened.offsets[Ordinal(T, g)], OffsetWidth)
    <3>1. CASE g = f
      <4>1. Ordinal(T, f) = Len(current.offsets) + 1
        BY <2>2, <2>5 DEF Noted
      <4>2. opened.offsets[Ordinal(T, g)] = Offset(1)
        BY <2>3, <2>11, <3>1, <4>1
      <4>3. current.start + slotStart[T][f + 1] = position + OffsetWidth
        <5>1. slotStart[T][f + 1] = slotStart[T][f] + OffsetWidth
          BY <2>1, <2>7
        <5>2. /\ current.start \in Int /\ slotStart[T][f] \in Int /\ OffsetWidth \in Int
          <6>1. \A x \in Nat : x \in Int
            OBVIOUS
          <6>2. OffsetWidth \in Nat
            BY <2>6
          <6>. QED
            BY <2>1, <6>1, <6>2, Zenon
        <5>3. (current.start + slotStart[T][f]) + OffsetWidth = current.start + (slotStart[T][f] + OffsetWidth)
          BY <5>2, Onward, Zenon
        <5>. QED
          BY <2>1, <5>1, <5>3
      <4>4. Place(opened, slotStart[T][f], slotStart[T][f + 1], s) = Segment(s, position, position + OffsetWidth)
        BY <2>1, <2>3, <4>3 DEF Place
      <4>. QED
        BY <2>7, <2>8, <3>1, <4>2, <4>4
    <3>2. CASE g # f
      <4>1. g \in 1..(f - 1)
        BY <2>9, <3>2
      <4>2. Place(current, slotStart[T][g], slotStart[T][g + 1], s) =
              IF IsFixed(T.fields[g]) THEN Encoding(current.parts[g], depth)
              ELSE ToBytes(current.offsets[Ordinal(T, g)], OffsetWidth)
        BY <2>5, <4>1 DEF SlotsRead
      <4>3. ~ IsFixed(T.fields[g]) => offsets[Ordinal(T, g)] = current.offsets[Ordinal(T, g)]
        <5>1. ASSUME ~ IsFixed(T.fields[g])
              PROVE  Ordinal(T, g) \in 1..Len(current.offsets)
          <6>1. g \in Variable(T, f)
            BY <4>1, <5>1 DEF Variable
          <6>. QED
            BY <2>2, <2>5, <6>1 DEF Noted
        <5>. QED
          BY <2>11, <5>1
      <4>. QED
        BY <2>3, <4>2, <4>3 DEF Place
    <3>. QED
      BY <3>1, <3>2
  <2>13. SlotsRead(opened, f + 1, depth, s)
    BY <2>3, <2>12 DEF SlotsRead
  <2>14. EncodedSoFar(opened, above, s)
    BY <2>3, <2>5, <2>10, <2>13 DEF EncodedSoFar, depth
  <2>. QED
    BY <2>1, <2>4, <2>6, <2>14, ContinueEncodes DEF above
<1>. QED
  BY <1>2, <1>3

LEMMA SettleSlotsEncodes ==
  ASSUME IInv, EInv, SettleSlots
  PROVE  EInv'
<1> DEFINE fault == FirstOffsetFault(current.offsets, LeadingWidth(Type), current.scope)
           opened == [current EXCEPT !.stage = "bodies", !.next = 1]
           above == Len(frames) - 1
           depth == Deepest - above - 1
           s == request.stream
           T == current.type
           n == Len(T.fields)
<1>1. /\ At("slots") /\ current.next > Len(Type.fields) /\ current.offsets # <<>>
      /\ IF fault # NoFault THEN Refuse(fault, position) ELSE Continue(opened, position)
  BY DEF SettleSlots, Either
<1>2. CASE fault # NoFault
  BY <1>1, <1>2, RefuseEncodes
<1>3. CASE fault = NoFault
  <2>1. /\ frames # <<>> /\ UNCHANGED request /\ InSlots(current) /\ IsFrame(current)
        /\ Type = T /\ IsStruct(T) /\ n \in Nat /\ current.next \in 1..(n + 1)
    BY <1>1, AtSlots
  <2>2. current.stage = "slots" /\ current.next = n + 1
    BY <1>1, <2>1 DEF InSlots
  <2>3. /\ opened.type = T /\ opened.next = 1 /\ opened.stage = "bodies"
        /\ opened.parts = current.parts /\ opened.offsets = current.offsets
        /\ opened.variable_fields = current.variable_fields
        /\ opened.scope = current.scope /\ opened.start = current.start
    <3>1. DOMAIN current = FrameFields
      BY <2>1 DEF IsFrame
    <3>. QED
      BY <3>1 DEF FrameFields
  <2>4. Continue(opened, position)
    BY <1>1, <1>3
  <2>5. current.offsets[1] = LeadingWidth(T)
    BY <1>3, <2>1 DEF FirstOffsetFault, NoFault
  <2>6. /\ above \in 0..Deepest /\ T \in TypeLevels[above]
        /\ ScopeFault(T, current.scope) = NoFault
        /\ Noted(current, n + 1) /\ SlotsRead(current, n + 1, depth, s)
        /\ position <= Len(s)
    BY <2>1, <2>2, TopEncoded DEF EncodedSoFar
  <2> HIDE DEF opened, fault, above, depth
  <2>7. Noted(opened, n + 1)
    BY <2>3, <2>6 DEF Noted
  <2>8. SlotsRead(opened, n + 1, depth, s)
    BY <2>3, <2>6 DEF SlotsRead, Place
  <2>9. StructRead(opened, depth, s)
    BY <1>1, <2>3, <2>5, <2>7, <2>8 DEF StructRead
  <2>10. BodiesRead(opened, depth, s)
    <3>1. 1..(opened.next - 1) = {}
      BY <2>3
    <3>. QED
      BY <3>1 DEF BodiesRead
  <2>11. ~ IsSequence(T) /\ T.shape # "union"
    BY <2>1 DEF IsStruct, IsSequence, IsList
  <2>12. EncodedSoFar(opened, above, s)
    BY <2>3, <2>6, <2>9, <2>10, <2>11 DEF EncodedSoFar, depth
  <2>. QED
    BY <2>1, <2>4, <2>6, <2>12, ContinueEncodes DEF above
<1>. QED
  BY <1>2, <1>3

LEMMA OpenUnionEncodes ==
  ASSUME IInv, EInv, OpenUnion
  PROVE  EInv'
<1> DEFINE selector == FromBytes(Bytes(1))
           fault == IF Available < 1 THEN "TRUNCATED"
                    ELSE IF selector \notin DOMAIN Type.options THEN "UNKNOWN_SELECTOR"
                    ELSE NoFault
           opened == [current EXCEPT !.stage = "bodies", !.option = selector, !.offsets = <<1>>,
                                     !.parts = Unread(1)]
           above == Len(frames) - 1
           s == request.stream
<1>1. /\ Entered /\ Type.shape = "union"
      /\ IF fault # NoFault THEN Refuse(fault, position + Taken(1))
         ELSE Continue(opened, position + 1)
  BY DEF OpenUnion, Either
<1>2. CASE fault # NoFault
  BY <1>1, <1>2, RefuseEncodes
<1>3. CASE fault = NoFault
  <2>1. /\ frames # <<>> /\ UNCHANGED request /\ position = current.start
        /\ ScopeFault(Type, current.scope) = NoFault
        /\ above \in 0..Deepest /\ Type \in TypeLevels[above]
    BY <1>1, LetIn
  <2>2. /\ opened.type = Type /\ opened.next = 1 /\ opened.stage = "bodies"
        /\ opened.offsets = <<1>> /\ opened.option = selector
        /\ opened.scope = current.scope /\ opened.start = current.start
    BY <1>1, LetIn DEF FrameFields, JustCalled
  <2>3. Continue(opened, position + 1)
    BY <1>1, <1>3
  <2>4. /\ position \in Nat /\ Len(s) \in Nat /\ s \in Seq(Octets)
        /\ position + 1 <= Len(s)
    <3>1. position \in Nat /\ Len(s) \in Nat /\ s \in Seq(Octets)
      BY <2>1, Positioned, StreamStands DEF stream
    <3>2. ~ (Len(s) - position < 1)
      BY <1>3 DEF NoFault, Available, stream
    <3>. QED
      BY <3>1, <3>2
  <2>5. <<selector>> = Segment(s, position, position + 1)
    <3> DEFINE bytes == Segment(s, position, position + 1)
    <3>1. /\ s \in Seq(Octets) /\ position \in Nat /\ position + 1 \in Nat
          /\ position <= position + 1 /\ position + 1 <= Len(s) /\ (position + 1) - position = 1
      BY <2>4
    <3>2. bytes \in Seq(Octets) /\ Len(bytes) = (position + 1) - position
      BY <3>1, SegmentIs, Zenon
    <3>3. selector = FromBytes(bytes)
      BY DEF Bytes, Segment, stream
    <3> HIDE DEF bytes
    <3>4. <<FromBytes(bytes)>> = bytes
      BY <3>1, <3>2, OneByte
    <3>. QED
      BY <3>3, <3>4 DEF bytes
  <2> HIDE DEF opened, fault, selector, above
  <2>6. UnionRead(opened, s)
    <3>1. opened.start + 0 = position /\ opened.start + 1 = position + 1
      BY <2>1, <2>2, <2>4
    <3>. QED
      BY <2>2, <2>5, <3>1 DEF UnionRead, Place
  <2>7. ~ IsStruct(Type) /\ ~ IsSequence(Type)
    BY <1>1 DEF IsStruct, IsSequence, IsList
  <2>8. EncodedSoFar(opened, above, s)
    BY <2>1, <2>2, <2>6, <2>7, NothingRead
  <2>. QED
    BY <2>1, <2>3, <2>4, <2>8, ContinueEncodes DEF above
<1>. QED
  BY <1>2, <1>3

LEMMA ReadFieldEncodes ==
  ASSUME IInv, EInv, ReadField
  PROVE  EInv'
<1> DEFINE type == Type.fields[current.next]
<1>1. /\ At("slots") /\ current.next <= Len(Type.fields)
      /\ frames' = Append(frames, Called(type, fixedSize[type], position))
      /\ UNCHANGED <<position, outcome>>
  BY DEF ReadField
<1>2. /\ frames # <<>> /\ UNCHANGED request /\ Type = current.type /\ IsStruct(Type)
      /\ Type \in Types /\ current.next \in 1..Len(Type.fields)
  BY <1>1, AtSlots
<1>3. type \in PartTypes(current.type)
  <2>1. PartTypes(Type) = Range(Type.fields)
    BY <1>2 DEF PartTypes, IsStruct, IsSequence, IsList
  <2>2. current.next \in DOMAIN Type.fields
    BY <1>2, Parts
  <2>. QED
    BY <1>2, <2>1, <2>2 DEF Range
<1> HIDE DEF type
<1>4. UNCHANGED <<request, outcome, position>>
  BY <1>1, <1>2
<1>. QED
  BY <1>1, <1>2, <1>3, <1>4, CallEncodes

LEMMA ReadBodyEncodes ==
  ASSUME IInv, EInv, ReadBody
  PROVE  EInv'
<1> DEFINE type == PartType(current, Reading(current))
<1>1. /\ At("bodies") /\ current.next <= Len(current.offsets)
      /\ frames' = Append(frames, Called(type, Span(current, current.next), position))
      /\ UNCHANGED <<position, outcome>>
  BY DEF ReadBody
<1>2. /\ frames # <<>> /\ UNCHANGED request /\ InBodies(current)
      /\ current.type \in Types /\ Len(current.offsets) \in Nat
      /\ current.next \in 1..Len(current.offsets)
  <2>1. frames # <<>> /\ UNCHANGED request /\ InBodies(current) /\ Len(current.offsets) \in Nat
    BY <1>1, AtBodies
  <2>2. current.next \in 1..(Len(current.offsets) + 1)
    BY <2>1 DEF InBodies
  <2>. QED
    BY <1>1, <2>1, <2>2, StackAt
<1>3. type \in PartTypes(current.type)
  <2> DEFINE T == current.type
  <2>1. CASE IsSequence(T)
    BY <2>1 DEF PartTypes, PartType, IsStruct, IsSequence, IsList
  <2>2. CASE IsStruct(T)
    <3>1. /\ current.variable_fields \in Seq(DOMAIN T.fields)
          /\ Len(current.variable_fields) = Len(current.offsets) /\ current.stage = "bodies"
      BY <1>2, <2>2 DEF InBodies, IsStruct, IsSequence, IsList
    <3>2. current.variable_fields[current.next] \in DOMAIN T.fields
      BY <1>2, <3>1
    <3>3. type = T.fields[current.variable_fields[current.next]]
      BY <2>2, <3>1 DEF PartType, Reading, IsStruct, IsSequence, IsList
    <3>4. PartTypes(T) = Range(T.fields)
      BY <2>2 DEF PartTypes, IsStruct, IsSequence, IsList
    <3>. QED
      BY <3>2, <3>3, <3>4 DEF Range
  <2>3. CASE T.shape = "union" /\ current.option \in DOMAIN T.options
    BY <2>3 DEF PartTypes, PartType, IsStruct, IsSequence, IsList
  <2>. QED
    BY <1>2, <2>1, <2>2, <2>3 DEF InBodies
<1> HIDE DEF type
<1>4. UNCHANGED <<request, outcome, position>>
  BY <1>1, <1>2
<1>. QED
  BY <1>1, <1>2, <1>3, <1>4, CallEncodes

---------------------------------------------------------------------------
(* A call whose every part is read.                                        *)

PartsAre(v, serialized, above) ==
  \A p \in PartsOf(v) : serialized[p] = Encoding(p, Deepest - above - 1)
MayHaveParts(v, T) == PartsOf(v) # {} => PartTypes(T) # {}

LEMMA PartsEncoded ==
  ASSUME NEW frame, NEW above, NEW s, EncodedSoFar(frame, above, s),
         NEW v, MayHaveParts(v, frame.type),
         NEW serialized, PartsAre(v, serialized, above)
  PROVE  Encoding(v, Deepest - above) = Written(v, serialized)
<1> DEFINE depth == Deepest - above
<1>1. above \in 0..Deepest /\ Deepest \in Nat
  BY NestingAssumption DEF EncodedSoFar
<1>2. depth \in 0..Deepest
  BY <1>1
<1>3. ASSUME NEW p \in PartsOf(v)
      PROVE  depth >= 1 /\ serialized[p] = Encoding(p, depth - 1)
  <2>1. PICK T : T \in PartTypes(frame.type)
    BY <1>3 DEF MayHaveParts
  <2>2. above + 1 \in 0..Deepest
    BY <2>1, PartLevel
  <2>3. depth >= 1
    BY <1>1, <2>2
  <2>. QED
    BY <1>3, <2>3 DEF PartsAre
<1>. QED
  BY <1>2, <1>3, EncodingIs

Fits(s, from, to) ==
  /\ s \in Seq(Octets) /\ from \in Nat /\ to \in Nat /\ from <= to /\ to <= Len(s)
  /\ ~ Oversized(to - from)

Spans(bytes, s, from, to) == bytes = Segment(s, from, to)

AreOctets(parts) == \A k \in DOMAIN parts : parts[k] \in Seq(Octets)

(* What is laid out as it was read is what it was read from.               *)
LEMMA LaidWritten ==
  ASSUME NEW s, NEW from, NEW to, Fits(s, from, to), NEW types, NEW leading, NEW parts, AreOctets(parts),
         Spans(Laid(types, leading, parts), s, from, to)
  PROVE  Spans(WrittenParts(types, leading, parts), s, from, to)
<1>1. \A k \in DOMAIN parts : parts[k] # Overflow
  <2>1. Octets \subseteq Nat
    BY DEF Octets
  <2>2. Seq(Octets) \subseteq Seq(Nat)
    BY <2>1, SeqMonotonic
  <2>. QED
    BY <2>2, OverflowAssumption DEF AreOctets
<1>2. Len(Segment(s, from, to)) = to - from
  BY SegmentIs DEF Fits
<1>3. Sized(Segment(s, from, to)) = Segment(s, from, to)
  BY <1>2 DEF Sized, Fits
<1>. QED
  BY <1>1, <1>3 DEF WrittenParts, Spans

LEMMA SegmentWithin ==
  ASSUME NEW S, NEW s \in Seq(S), NEW start \in Nat, NEW x \in Nat, NEW y \in Nat, x <= y,
         start + y <= Len(s)
  PROVE  Segment(s, start + x, start + y) \in Seq(S)
<1> DEFINE from == start + x
           to == start + y
<1>1. from \in Nat /\ to \in Nat /\ from <= to /\ to <= Len(s)
  OBVIOUS
<1> HIDE DEF from, to
<1>2. Segment(s, from, to) \in Seq(S)
  BY <1>1, SegmentIs
<1>. QED
  BY <1>2 DEF from, to

Laying(frame, types, leading) ==
  LET n == Len(frame.parts)
  IN  \/ /\ IsStruct(frame.type) /\ n = Len(frame.type.fields)
         /\ types = frame.type.fields /\ leading = LeadingWidth(frame.type)
      \/ /\ IsSequence(frame.type)
         /\ types = [k \in 1..n |-> frame.type.element] /\ leading = n * OffsetWidth

EncodedParts(frame, depth, n, encoded) ==
  n = Len(frame.parts) /\ encoded = [k \in 1..n |-> Encoding(frame.parts[k], depth - 1)]

LEMMA CompositeWritten ==
  ASSUME NEW frame, NEW above, NEW s \in Seq(Octets), EncodedSoFar(frame, above, s),
         frame.stage # "called", frame.type \in Types, IsStack(frame.parts),
         frame.start \in Nat, frame.scope \in Nat, End(frame) <= Len(s),
         NEW types, NEW leading, Laying(frame, types, leading),
         NEW slotAt, NEW bodyAt, NEW n, NEW encoded,
         EncodedParts(frame, Deepest - above, n, encoded),
         Places(s, frame.start, n, slotAt, bodyAt),
         InPlace(s, frame.start, n, types, leading, encoded, slotAt, bodyAt),
         bodyAt[n + 1] = frame.scope
  PROVE  Encoding([type |-> frame.type, data |-> Built(frame)], Deepest - above) =
           Segment(s, frame.start, End(frame))
<1> DEFINE T == frame.type
           parts == frame.parts
           v == [type |-> T, data |-> Built(frame)]
           serialized == [p \in PartsOf(v) |-> Encoding(p, Deepest - above - 1)]
<1>1. n \in Nat /\ DOMAIN parts = 1..n /\ Len(encoded) = n /\ DOMAIN encoded = 1..n
  BY DEF IsStack, EncodedParts
<1>2. IsStruct(T) \/ IsSequence(T)
  BY DEF Laying
<1>3. v.type = T /\ v.data = parts /\ T.shape \notin {"basic", "boolean", "byte_vector", "byte_list", "bit_vector", "bit_list", "union"}
  BY <1>2 DEF Built, IsStruct, IsSequence, IsList
<1> HIDE DEF v
<1>4. PartsOf(v) = Range(parts)
  BY <1>2, <1>3 DEF PartsOf, IsStruct, IsSequence, IsList
<1>5. ASSUME PartsOf(v) # {}
      PROVE  PartTypes(T) # {}
  <2>1. CASE IsSequence(T)
    BY <2>1 DEF PartTypes, IsStruct, IsSequence, IsList
  <2>2. CASE IsStruct(T)
    <3>1. n = Len(T.fields)
      BY <2>2 DEF Laying, EncodedParts, IsStruct, IsSequence, IsList
    <3>2. DOMAIN T.fields = 1..n
      BY <1>1, <2>2, <3>1, Parts
    <3>3. PICK k : k \in 1..n
      BY <1>1, <1>4, <1>5 DEF Range
    <3>4. T.fields[k] \in PartTypes(T)
      BY <2>2, <3>2, <3>3 DEF PartTypes, Range, IsStruct, IsSequence, IsList
    <3>. QED
      BY <3>4
  <2>. QED
    BY <1>2, <2>1, <2>2
<1>6. Encoding(v, Deepest - above) = Written(v, serialized)
  <2>1. MayHaveParts(v, frame.type)
    BY <1>5 DEF MayHaveParts
  <2>2. PartsAre(v, serialized, above)
    BY DEF PartsAre
  <2>3. EncodedSoFar(frame, above, s)
    OBVIOUS
  <2> HIDE DEF serialized, T
  <2>. QED
    BY <2>1, <2>2, <2>3, PartsEncoded, ZenonT(30)
<1>7. [k \in DOMAIN v.data |-> serialized[v.data[k]]] = encoded
  <2>1. ASSUME NEW k \in 1..n
        PROVE  serialized[parts[k]] = Encoding(parts[k], Deepest - above - 1)
    BY <1>1, <1>4 DEF Range
  <2> HIDE DEF serialized
  <2>. QED
    BY <1>1, <1>3, <2>1 DEF EncodedParts
<1> HIDE DEF serialized
<1>8. Written(v, serialized) = WrittenParts(types, leading, encoded)
  <2>1. CASE IsStruct(T)
    <3>1. types = T.fields /\ leading = LeadingWidth(T)
      BY <2>1 DEF Laying, IsStruct, IsSequence, IsList
    <3>. QED
      BY <1>3, <1>7, <2>1, <3>1 DEF Written, IsStruct, IsSequence, IsList
  <2>2. CASE IsSequence(T)
    <3>1. types = [k \in DOMAIN v.data |-> T.element] /\ leading = Len(v.data) * OffsetWidth
      BY <1>1, <1>3, <2>2 DEF Laying, EncodedParts, IsStruct, IsSequence, IsList
    <3>. QED
      BY <1>3, <1>7, <2>2, <3>1 DEF Written, IsStruct, IsSequence, IsList
  <2>. QED
    BY <1>2, <2>1, <2>2
<1>9. Laid(types, leading, encoded) = Segment(s, frame.start, frame.start + frame.scope)
  BY <1>1, LaidAsRead
<1>10. ASSUME NEW k \in DOMAIN encoded
       PROVE  encoded[k] \in Seq(Octets)
  <2>1. k \in 1..n /\ k \in 1..(n + 1) /\ k + 1 \in 1..(n + 1)
    <3>1. \A j \in 1..n : j \in 1..(n + 1) /\ j + 1 \in 1..(n + 1)
      BY <1>1
    <3>. QED
      BY <1>1, <3>1, Zenon
  <2>2. /\ slotAt[k] \in Nat /\ slotAt[k + 1] \in Nat /\ slotAt[k] <= slotAt[k + 1]
        /\ bodyAt[k] \in Nat /\ bodyAt[k + 1] \in Nat /\ bodyAt[k] <= bodyAt[k + 1]
        /\ frame.start + slotAt[k + 1] <= Len(s) /\ frame.start + bodyAt[k + 1] <= Len(s)
    BY <2>1, Zenon DEF Places
  <2>3. \/ encoded[k] = Segment(s, frame.start + slotAt[k], frame.start + slotAt[k + 1])
        \/ encoded[k] = Segment(s, frame.start + bodyAt[k], frame.start + bodyAt[k + 1])
    BY <2>1, Zenon DEF InPlace
  <2>. QED
    BY <2>2, <2>3, SegmentWithin, Zenon
<1>11. ~ Oversized(frame.scope)
  <2>1. ScopeFault(T, frame.scope) = NoFault
    BY DEF EncodedSoFar
  <2>. QED
    BY <1>3, <2>1, LetInFits
<1>12. WrittenParts(types, leading, encoded) = Segment(s, frame.start, End(frame))
  <2> DEFINE from == frame.start
             to == frame.start + frame.scope
  <2>1. Fits(s, from, to)
    BY <1>11 DEF Fits, End
  <2>2. Spans(Laid(types, leading, encoded), s, from, to)
    BY <1>9 DEF Spans
  <2>3. End(frame) = to
    BY DEF End
  <2> HIDE DEF from, to
  <2>5. AreOctets(encoded)
    BY <1>10 DEF AreOctets
  <2>6. Spans(WrittenParts(types, leading, encoded), s, from, to)
    BY <2>1, <2>2, <2>5, LaidWritten, Zenon
  <2>. QED
    BY <2>3, <2>6 DEF from, Spans
<1>. QED
  BY <1>6, <1>8, <1>12 DEF v

---------------------------------------------------------------------------
(* A call that has read all of its parts, and what they are written as.    *)

Closing(frame, above, s) ==
  /\ s \in Seq(Octets) /\ EncodedSoFar(frame, above, s) /\ frame.stage # "called"
  /\ IsFrame(frame) /\ frame.scope >= 0 /\ End(frame) <= Len(s)
  /\ IsStack(frame.parts) /\ CountStands(frame)

Rewritten(frame, above, s) ==
  Encoding([type |-> frame.type, data |-> Built(frame)], Deepest - above) =
    Segment(s, frame.start, End(frame))

LaidOut(frame, above, s, slotAt, bodyAt) ==
  \E types, leading, n, encoded :
    /\ Laying(frame, types, leading) /\ EncodedParts(frame, Deepest - above, n, encoded)
    /\ Places(s, frame.start, n, slotAt, bodyAt)
    /\ InPlace(s, frame.start, n, types, leading, encoded, slotAt, bodyAt)
    /\ bodyAt[n + 1] = frame.scope

LEMMA LaidOutWritten ==
  ASSUME NEW frame, NEW above, NEW s, Closing(frame, above, s),
         NEW slotAt, NEW bodyAt, LaidOut(frame, above, s, slotAt, bodyAt)
  PROVE  Rewritten(frame, above, s)
<1>1. PICK types, leading, n, encoded :
        /\ Laying(frame, types, leading) /\ EncodedParts(frame, Deepest - above, n, encoded)
        /\ Places(s, frame.start, n, slotAt, bodyAt)
        /\ InPlace(s, frame.start, n, types, leading, encoded, slotAt, bodyAt)
        /\ bodyAt[n + 1] = frame.scope
  BY Zenon DEF LaidOut
<1>2. /\ s \in Seq(Octets) /\ EncodedSoFar(frame, above, s) /\ frame.stage # "called"
      /\ frame.type \in Types /\ IsStack(frame.parts)
      /\ frame.start \in Nat /\ frame.scope \in Nat /\ End(frame) <= Len(s)
  BY DEF Closing, IsFrame
<1>. QED
  BY <1>1, <1>2, CompositeWritten, Zenon DEF Rewritten

LEMMA PlacesStand ==
  ASSUME NEW S, NEW s \in Seq(S), NEW start \in Nat, NEW scope \in Nat, start + scope <= Len(s),
         NEW n \in Nat, NEW slotAt, NEW bodyAt,
         Rising(slotAt, n, scope), Rising(bodyAt, n, scope),
         slotAt[1] = 0, slotAt[n + 1] = bodyAt[1]
  PROVE  Places(s, start, n, slotAt, bodyAt)
<1>1. Len(s) \in Nat
  BY LenProperties
<1>2. ASSUME NEW x \in 0..scope
      PROVE  x \in Nat /\ start + x <= Len(s)
  BY <1>1
<1>3. /\ \A k \in 1..(n + 1) : slotAt[k] \in 0..scope /\ bodyAt[k] \in 0..scope
      /\ \A k \in 1..n : slotAt[k] <= slotAt[k + 1] /\ bodyAt[k] <= bodyAt[k + 1]
  BY DEF Rising
<1>. QED
  BY <1>2, <1>3 DEF Places

(* The slots of a struct. *)
LEMMA SlotsRise ==
  ASSUME NEW T \in Types, IsStruct(T), NEW scope \in Nat, LeadingWidth(T) <= scope
  PROVE  /\ Rising(slotStart[T], Len(T.fields), scope)
         /\ slotStart[T][1] = 0 /\ slotStart[T][Len(T.fields) + 1] = LeadingWidth(T)
<1> DEFINE n == Len(T.fields)
           at == slotStart[T]
<1>1. /\ n \in Nat /\ \A f \in 1..n : T.fields[f] \in Types
  BY Parts
<1>2. /\ LeadingWidth(T) \in Nat /\ at[1] = 0
      /\ \A f \in 1..(n + 1) : at[f] \in Nat /\ at[f] <= LeadingWidth(T)
      /\ \A f \in 1..n : at[f + 1] = at[f] + SlotWidth(T.fields[f])
  BY Slots
<1>3. at[n + 1] = LeadingWidth(T)
  BY DEF LeadingWidth
<1>4. \A f \in 1..n : SlotWidth(T.fields[f]) \in Nat
  BY <1>1, WidthsAssumption, BytesAssumption DEF SlotWidth
<1> HIDE DEF n, at
<1>5. \A f \in 1..(n + 1) : at[f] \in 0..scope
  BY <1>2
<1>6. ASSUME NEW f \in 1..n
      PROVE  at[f] <= at[f + 1]
  <2>1. f \in 1..(n + 1)
    BY <1>1
  <2>2. at[f] \in Nat /\ SlotWidth(T.fields[f]) \in Nat
    BY <1>2, <1>4, <2>1
  <2>. QED
    BY <1>2, <2>2
<1>. QED
  BY <1>2, <1>3, <1>5, <1>6 DEF Rising, n, at

LEMMA Indices ==
  ASSUME NEW n \in Nat
  PROVE  /\ 1 \in 1..(n + 1) /\ n + 1 \in 1..(n + 1) /\ (n + 1) - 1 = n
         /\ \A k \in 1..n : k \in 1..(n + 1) /\ k + 1 \in 1..(n + 1)
OBVIOUS

LEMMA PastLast ==
  ASSUME NEW n \in Nat, NEW k \in 1..(n + 1), k > n
  PROVE  k = n + 1 /\ k - 1 = n
OBVIOUS

LEMMA Constantly ==
  ASSUME NEW n \in Nat, NEW x \in Nat, NEW at, \A k \in 1..(n + 1) : at[k] = x
  PROVE  Rising(at, n, x)
<1>1. x \in 0..x /\ x <= x
  OBVIOUS
<1>2. \A k \in 1..n : k \in 1..(n + 1) /\ k + 1 \in 1..(n + 1)
  BY Indices
<1>3. \A k \in 1..n : at[k] = x /\ at[k + 1] = x
  BY <1>2
<1>. QED
  BY <1>1, <1>3 DEF Rising

LEMMA StructCloses ==
  ASSUME NEW frame, NEW above, NEW s, Closing(frame, above, s), IsStruct(frame.type)
  PROVE  LET T == frame.type
             n == Len(T.fields)
         IN  /\ n \in Nat /\ Len(frame.parts) = n /\ T \in Types
             /\ frame.start \in Nat /\ frame.scope \in Nat /\ frame.start + frame.scope <= Len(s)
             /\ Rising(slotStart[T], n, frame.scope)
             /\ slotStart[T][1] = 0 /\ slotStart[T][n + 1] = LeadingWidth(T)
             /\ LeadingWidth(T) \in Nat /\ LeadingWidth(T) <= frame.scope
             /\ Laying(frame, T.fields, LeadingWidth(T))
<1> DEFINE T == frame.type
           n == Len(T.fields)
<1>1. /\ T \in Types /\ frame.scope \in Int /\ frame.start \in Nat /\ frame.scope >= 0
      /\ frame.start + frame.scope <= Len(s)
      /\ ScopeFault(T, frame.scope) = NoFault /\ Len(frame.parts) = n
  BY DEF Closing, IsFrame, EncodedSoFar, End, CountStands
<1>2. frame.scope \in Nat
  BY <1>1
<1>3. n \in Nat /\ LeadingWidth(T) \in Nat
  BY <1>1, Parts, Slots
<1>4. LeadingWidth(T) <= frame.scope
  BY <1>1, StructScope
<1>5. /\ Rising(slotStart[T], n, frame.scope)
      /\ slotStart[T][1] = 0 /\ slotStart[T][n + 1] = LeadingWidth(T)
  BY <1>1, <1>2, <1>4, SlotsRise
<1>6. Laying(frame, T.fields, LeadingWidth(T))
  BY <1>1 DEF Laying
<1>. QED
  BY <1>1, <1>2, <1>3, <1>4, <1>5, <1>6

(* A struct of slots alone. *)
LEMMA SlotsClose ==
  ASSUME NEW frame, NEW above, NEW s, Closing(frame, above, s), InSlots(frame),
         frame.next > Len(frame.type.fields), frame.offsets = <<>>
  PROVE  Rewritten(frame, above, s)
<1> DEFINE T == frame.type
           n == Len(T.fields)
           scope == frame.scope
           bodyAt == [k \in 1..(n + 1) |-> scope]
           encoded == [k \in 1..n |-> Encoding(frame.parts[k], Deepest - above - 1)]
<1>1. IsStruct(T) /\ frame.stage = "slots" /\ frame.next \in 1..(n + 1)
  BY DEF InSlots
<1>2. /\ n \in Nat /\ Len(frame.parts) = n /\ T \in Types
      /\ frame.start \in Nat /\ scope \in Nat /\ frame.start + scope <= Len(s)
      /\ Rising(slotStart[T], n, scope)
      /\ slotStart[T][1] = 0 /\ slotStart[T][n + 1] = LeadingWidth(T)
      /\ Laying(frame, T.fields, LeadingWidth(T))
  BY <1>1, StructCloses
<1>3. frame.next = n + 1 /\ frame.next - 1 = n
  <2>1. frame.next > n
    OBVIOUS
  <2>. QED
    BY <1>1, <1>2, <2>1, PastLast, Zenon
<1>4. \A f \in 1..n : IsFixed(T.fields[f])
  BY <1>3 DEF InSlots
<1>5. scope = LeadingWidth(T)
  BY <1>1, <1>2, <1>4, FixedStruct DEF InSlots
<1>6. SlotsRead(frame, n + 1, Deepest - above - 1, s)
  BY <1>1, <1>3 DEF Closing, EncodedSoFar
<1>7. \A g \in 1..n : Place(frame, slotStart[T][g], slotStart[T][g + 1], s) =
                        Encoding(frame.parts[g], Deepest - above - 1)
  <2>1. 1..((n + 1) - 1) = 1..n
    BY <1>2
  <2>. QED
    BY <1>4, <1>6, <2>1 DEF SlotsRead
<1>8. EncodedParts(frame, Deepest - above, n, encoded)
  BY <1>2 DEF EncodedParts
<1>9. s \in Seq(Octets)
  BY DEF Closing
<1>10. \A k \in 1..(n + 1) : bodyAt[k] = scope
  OBVIOUS
<1>11. 1 \in 1..(n + 1) /\ n + 1 \in 1..(n + 1) /\ \A k \in 1..n : k \in 1..(n + 1) /\ k + 1 \in 1..(n + 1)
  BY <1>2, Indices, Zenon
<1>12. \A k \in 1..n : encoded[k] = Encoding(frame.parts[k], Deepest - above - 1)
  OBVIOUS
<1> HIDE DEF bodyAt, encoded, n, T
<1>13. Rising(bodyAt, n, scope)
  BY <1>2, <1>10, Constantly
<1>14. slotStart[T][n + 1] = bodyAt[1] /\ bodyAt[n + 1] = scope
  BY <1>2, <1>5, <1>10, <1>11
<1>15. Places(s, frame.start, n, slotStart[T], bodyAt)
  BY <1>2, <1>9, <1>13, <1>14, PlacesStand
<1>16. InPlace(s, frame.start, n, T.fields, LeadingWidth(T), encoded, slotStart[T], bodyAt)
  <2>1. ASSUME NEW k \in 1..n
        PROVE  /\ IsFixed(T.fields[k])
               /\ encoded[k] = Segment(s, frame.start + slotStart[T][k], frame.start + slotStart[T][k + 1])
               /\ bodyAt[k + 1] = bodyAt[k]
    BY <1>4, <1>7, <1>10, <1>11, <1>12 DEF Place
  <2>. QED
    BY <2>1, Zenon DEF InPlace
<1>17. LaidOut(frame, above, s, slotStart[T], bodyAt)
  BY <1>2, <1>8, <1>14, <1>15, <1>16, Zenon DEF LaidOut
<1>. QED
  BY <1>17, LaidOutWritten

LEMMA BoundsRise ==
  ASSUME NEW frame, IsFrame(frame), InBodies(frame)
  PROVE  /\ Len(frame.offsets) \in Nat /\ frame.scope \in Nat
         /\ Rising(Bounds(frame), Len(frame.offsets), frame.scope)
         /\ Bounds(frame)[Len(frame.offsets) + 1] = frame.scope
         /\ \A k \in 1..Len(frame.offsets) : Bounds(frame)[k] = frame.offsets[k]
<1> DEFINE m == Len(frame.offsets)
           at == Bounds(frame)
           scope == frame.scope
<1>1. /\ frame.offsets \in Seq(Nat) /\ scope \in Int /\ scope >= 0
      /\ \A k \in 1..m : at[k] <= at[k + 1]
  BY DEF IsFrame, InBodies
<1>2. /\ m \in Nat /\ at[m + 1] = scope
      /\ \A k \in 1..m : at[k] = frame.offsets[k] /\ frame.offsets[k] \in Nat
      /\ \A k \in 1..(m + 1) : at[k] \in Int
  BY <1>1, BoundsAre
<1>3. \A k \in 1..(m + 1) : at[k] <= scope
  BY <1>1, BoundsEnd
<1> HIDE DEF m, at
<1>4. ASSUME NEW k \in 1..(m + 1)
      PROVE  at[k] \in 0..scope
  <2>1. at[k] \in Nat
    <3>1. k \in 1..m \/ k = m + 1
      BY <1>2
    <3>2. scope \in Nat
      BY <1>1
    <3>3. CASE k = m + 1
      BY <1>2, <3>2, <3>3
    <3>4. CASE k \in 1..m
      BY <1>2, <3>4
    <3>. QED
      BY <3>1, <3>3, <3>4
  <2>. QED
    BY <1>1, <1>3, <2>1
<1>5. Rising(at, m, scope)
  BY <1>1, <1>4 DEF Rising
<1>. QED
  BY <1>1, <1>2, <1>5 DEF m, at

(* Where the bodies of a struct begin: that of a field of a width where the *)
(* next one's does.                                                        *)
BodyStart(frame) ==
  [k \in 1..(Len(frame.type.fields) + 1) |-> Bounds(frame)[Ordinal(frame.type, k)]]

LEMMA BodyStartsRise ==
  ASSUME NEW frame, IsFrame(frame), InBodies(frame), NEW n \in Nat, n = Len(frame.type.fields),
         Noted(frame, n + 1), frame.offsets # <<>>,
         Len(frame.variable_fields) = Len(frame.offsets)
  PROVE  /\ Rising(BodyStart(frame), n, frame.scope)
         /\ BodyStart(frame)[1] = frame.offsets[1] /\ BodyStart(frame)[n + 1] = frame.scope
         /\ \A k \in 1..n :
              /\ IsFixed(frame.type.fields[k]) => BodyStart(frame)[k + 1] = BodyStart(frame)[k]
              /\ ~ IsFixed(frame.type.fields[k]) =>
                   LET o == Ordinal(frame.type, k)
                   IN  /\ o \in 1..Len(frame.offsets) /\ frame.variable_fields[o] = k
                       /\ BodyStart(frame)[k] = Bounds(frame)[o]
                       /\ BodyStart(frame)[k + 1] = Bounds(frame)[o + 1]
<1> DEFINE T == frame.type
           m == Len(frame.offsets)
           at == Bounds(frame)
           start == BodyStart(frame)
           o(k) == Ordinal(T, k)
<1>1. /\ m \in Nat /\ frame.scope \in Nat /\ Rising(at, m, frame.scope)
      /\ at[m + 1] = frame.scope /\ \A k \in 1..m : at[k] = frame.offsets[k]
  BY BoundsRise
<1>2. \A k \in 1..(n + 1) : start[k] = at[o(k)]
  BY DEF BodyStart
<1>3. o(n + 1) = m + 1
  BY DEF Noted
<1>4. o(1) = 1
  BY OrdinalsRise
<1>5. 1 \in 1..m
  <2>1. frame.offsets \in Seq(Nat)
    BY DEF IsFrame
  <2>. QED
    BY <2>1
<1>6. \A k \in 1..(n + 1) : o(k) \in 1..(m + 1)
  BY <1>3, OrdinalsBelow
<1>7. /\ 1 \in 1..(n + 1) /\ n + 1 \in 1..(n + 1)
      /\ \A k \in 1..n : k \in 1..(n + 1) /\ k + 1 \in 1..(n + 1)
  BY Indices, Zenon
<1>8. ASSUME NEW k \in 1..n, IsFixed(T.fields[k])
      PROVE  o(k + 1) = o(k)
  BY <1>8, OrdinalsRise
<1>9. ASSUME NEW k \in 1..n, ~ IsFixed(T.fields[k])
      PROVE  o(k + 1) = o(k) + 1 /\ o(k) \in 1..m /\ frame.variable_fields[o(k)] = k
  <2>1. o(k + 1) = o(k) + 1
    BY <1>9, OrdinalsRise
  <2>2. k \in Variable(T, n + 1)
    BY <1>9 DEF Variable
  <2>. QED
    BY <2>1, <2>2 DEF Noted
<1> HIDE DEF o, start, at, m
<1>10. ASSUME NEW k \in 1..n
       PROVE  /\ IsFixed(T.fields[k]) => start[k + 1] = start[k]
              /\ ~ IsFixed(T.fields[k]) =>
                   /\ o(k) \in 1..m /\ frame.variable_fields[o(k)] = k
                   /\ start[k] = at[o(k)] /\ start[k + 1] = at[o(k) + 1]
  BY <1>2, <1>7, <1>8, <1>9
<1>11. ASSUME NEW k \in 1..(n + 1)
       PROVE  start[k] \in 0..frame.scope
  BY <1>1, <1>2, <1>6 DEF Rising
<1>12. ASSUME NEW k \in 1..n
       PROVE  start[k] <= start[k + 1]
  <2>1. CASE IsFixed(T.fields[k])
    <3>1. start[k + 1] = start[k] /\ start[k] \in 0..frame.scope
      BY <1>7, <1>10, <1>11, <2>1
    <3>. QED
      BY <3>1
  <2>2. CASE ~ IsFixed(T.fields[k])
    BY <1>1, <1>10, <2>2 DEF Rising
  <2>. QED
    BY <2>1, <2>2
<1>13. Rising(start, n, frame.scope)
  BY <1>11, <1>12 DEF Rising
<1>14. start[1] = frame.offsets[1] /\ start[n + 1] = frame.scope
  BY <1>1, <1>2, <1>3, <1>4, <1>5, <1>7
<1>. QED
  BY <1>10, <1>13, <1>14 DEF o, start, at, m

(* A struct with bodies. *)
LEMMA StructBodiesClose ==
  ASSUME NEW frame, NEW above, NEW s, Closing(frame, above, s), InBodies(frame),
         IsStruct(frame.type), frame.next = Len(frame.offsets) + 1
  PROVE  Rewritten(frame, above, s)
<1> DEFINE T == frame.type
           n == Len(T.fields)
           depth == Deepest - above
           bodyAt == BodyStart(frame)
           encoded == [k \in 1..n |-> Encoding(frame.parts[k], depth - 1)]
<1>1. /\ n \in Nat /\ Len(frame.parts) = n /\ T \in Types
      /\ frame.start \in Nat /\ frame.scope \in Nat /\ frame.start + frame.scope <= Len(s)
      /\ Rising(slotStart[T], n, frame.scope)
      /\ slotStart[T][1] = 0 /\ slotStart[T][n + 1] = LeadingWidth(T)
      /\ Laying(frame, T.fields, LeadingWidth(T))
  BY StructCloses
<1>2. /\ s \in Seq(Octets) /\ IsFrame(frame) /\ frame.stage = "bodies"
      /\ EncodedSoFar(frame, above, s) /\ Len(frame.offsets) \in Nat
  BY BoundsRise DEF Closing, InBodies
<1>3. Len(frame.variable_fields) = Len(frame.offsets)
  BY DEF InBodies, IsStruct, IsSequence, IsList
<1>4. /\ frame.offsets # <<>> /\ frame.offsets[1] = LeadingWidth(T)
      /\ Noted(frame, n + 1) /\ SlotsRead(frame, n + 1, depth - 1, s)
      /\ BodiesRead(frame, depth - 1, s)
  BY <1>2 DEF EncodedSoFar, StructRead
<1>5. /\ Rising(bodyAt, n, frame.scope)
      /\ bodyAt[1] = frame.offsets[1] /\ bodyAt[n + 1] = frame.scope
      /\ \A k \in 1..n :
           /\ IsFixed(T.fields[k]) => bodyAt[k + 1] = bodyAt[k]
           /\ ~ IsFixed(T.fields[k]) =>
                LET o == Ordinal(T, k)
                IN  /\ o \in 1..Len(frame.offsets) /\ frame.variable_fields[o] = k
                    /\ bodyAt[k] = Bounds(frame)[o] /\ bodyAt[k + 1] = Bounds(frame)[o + 1]
  BY <1>1, <1>2, <1>3, <1>4, BodyStartsRise
<1>6. EncodedParts(frame, depth, n, encoded)
  BY <1>1 DEF EncodedParts
<1>7. \A k \in 1..n : encoded[k] = Encoding(frame.parts[k], depth - 1)
  OBVIOUS
<1>8. \A k \in 1..n : Place(frame, slotStart[T][k], slotStart[T][k + 1], s) =
                        IF IsFixed(T.fields[k]) THEN Encoding(frame.parts[k], depth - 1)
                        ELSE ToBytes(frame.offsets[Ordinal(T, k)], OffsetWidth)
  <2>1. (n + 1) - 1 = n
    BY <1>1, Indices, Zenon
  <2>. QED
    BY <1>4, <2>1 DEF SlotsRead
<1>9. \A j \in 1..Len(frame.offsets) :
        Encoding(frame.parts[frame.variable_fields[j]], depth - 1) =
          Place(frame, Bounds(frame)[j], Bounds(frame)[j + 1], s)
  <2>1. frame.next - 1 = Len(frame.offsets)
    BY <1>2
  <2>. QED
    BY <1>4, <2>1 DEF BodiesRead, Body
<1>10. \A k \in 1..Len(frame.offsets) : Bounds(frame)[k] = frame.offsets[k]
  BY <1>2, BoundsRise
<1> HIDE DEF bodyAt, encoded, n, T, depth
<1>11. slotStart[T][n + 1] = bodyAt[1] /\ LeadingWidth(T) = bodyAt[1]
  BY <1>1, <1>4, <1>5
<1>12. Places(s, frame.start, n, slotStart[T], bodyAt)
  BY <1>1, <1>2, <1>5, <1>11, PlacesStand
<1>13. InPlace(s, frame.start, n, T.fields, LeadingWidth(T), encoded, slotStart[T], bodyAt)
  <2>1. ASSUME NEW k \in 1..n, IsFixed(T.fields[k])
        PROVE  /\ encoded[k] = Segment(s, frame.start + slotStart[T][k], frame.start + slotStart[T][k + 1])
               /\ bodyAt[k + 1] = bodyAt[k]
    BY <1>5, <1>7, <1>8, <2>1 DEF Place
  <2>2. ASSUME NEW k \in 1..n, ~ IsFixed(T.fields[k])
        PROVE  /\ LeadingWidth(T) = bodyAt[1]
               /\ encoded[k] = Segment(s, frame.start + bodyAt[k], frame.start + bodyAt[k + 1])
               /\ ToBytes(bodyAt[k], OffsetWidth) =
                    Segment(s, frame.start + slotStart[T][k], frame.start + slotStart[T][k + 1])
    <3> DEFINE o == Ordinal(T, k)
    <3>1. /\ o \in 1..Len(frame.offsets) /\ frame.variable_fields[o] = k
          /\ bodyAt[k] = Bounds(frame)[o] /\ bodyAt[k + 1] = Bounds(frame)[o + 1]
      BY <1>5, <2>2
    <3>2. Place(frame, slotStart[T][k], slotStart[T][k + 1], s) = ToBytes(frame.offsets[o], OffsetWidth)
      BY <1>8, <2>2
    <3> HIDE DEF o
    <3>3. encoded[k] = Place(frame, bodyAt[k], bodyAt[k + 1], s)
      BY <1>7, <1>9, <3>1
    <3>4. bodyAt[k] = frame.offsets[o]
      BY <1>10, <3>1
    <3>. QED
      BY <1>11, <3>2, <3>3, <3>4 DEF Place
  <2>. QED
    BY <2>1, <2>2, Zenon DEF InPlace
<1>14. LaidOut(frame, above, s, slotStart[T], bodyAt)
  <2>1. EncodedParts(frame, Deepest - above, n, encoded)
    BY <1>6 DEF depth
  <2>2. Laying(frame, T.fields, LeadingWidth(T))
    BY <1>1
  <2>3. bodyAt[n + 1] = frame.scope
    BY <1>5
  <2>. QED
    BY <1>12, <1>13, <2>1, <2>2, <2>3, Zenon DEF LaidOut
<1>. QED
  BY <1>14, LaidOutWritten

(* A sequence of elements of one width, or of nothing. *)
LEMMA UniformCloses ==
  ASSUME NEW frame, NEW above, NEW s, Closing(frame, above, s), InBodies(frame),
         IsSequence(frame.type), frame.next = Len(frame.offsets) + 1,
         IsFixed(frame.type.element) \/ frame.offsets = <<>>, Bounds(frame)[1] = 0
  PROVE  Rewritten(frame, above, s)
<1> DEFINE n == Len(frame.parts)
           depth == Deepest - above
           scope == frame.scope
           at == Bounds(frame)
           bodyAt == [k \in 1..(n + 1) |-> scope]
           types == [k \in 1..n |-> frame.type.element]
           encoded == [k \in 1..n |-> Encoding(frame.parts[k], depth - 1)]
<1>1. /\ s \in Seq(Octets) /\ IsFrame(frame) /\ frame.stage = "bodies"
      /\ EncodedSoFar(frame, above, s) /\ frame.start \in Nat /\ frame.start + scope <= Len(s)
  BY DEF Closing, InBodies, IsFrame, End
<1>2. /\ Len(frame.offsets) \in Nat /\ scope \in Nat
      /\ Rising(at, Len(frame.offsets), scope)
      /\ at[Len(frame.offsets) + 1] = scope
  BY <1>1, BoundsRise
<1>3. n = Len(frame.offsets) /\ n \in Nat
  <2>1. ~ IsStruct(frame.type)
    BY DEF IsStruct, IsSequence, IsList
  <2>. QED
    BY <1>2, <2>1 DEF Closing, CountStands
<1>4. \A j \in 1..n : Encoding(frame.parts[j], depth - 1) = Place(frame, at[j], at[j + 1], s)
  <2>1. frame.next - 1 = n /\ ~ IsStruct(frame.type)
    BY <1>2, <1>3 DEF IsStruct, IsSequence, IsList
  <2>. QED
    BY <1>1, <2>1 DEF EncodedSoFar, BodiesRead, Body
<1>5. \A k \in 1..n : IsFixed(types[k])
  <2>1. CASE frame.offsets = <<>>
    <3>1. n = 0
      BY <1>3, <2>1
    <3>. QED
      BY <3>1
  <2>2. CASE IsFixed(frame.type.element)
    BY <2>2
  <2>. QED
    BY <2>1, <2>2
<1>6. Laying(frame, types, n * OffsetWidth)
  BY DEF Laying
<1>7. EncodedParts(frame, depth, n, encoded)
  BY DEF EncodedParts
<1>8. \A k \in 1..n : encoded[k] = Encoding(frame.parts[k], depth - 1)
  OBVIOUS
<1>9. \A k \in 1..(n + 1) : bodyAt[k] = scope
  OBVIOUS
<1>10. /\ 1 \in 1..(n + 1) /\ n + 1 \in 1..(n + 1)
       /\ \A k \in 1..n : k \in 1..(n + 1) /\ k + 1 \in 1..(n + 1)
  BY <1>3, Indices, Zenon
<1> HIDE DEF n, depth, at, bodyAt, types, encoded
<1>11. Rising(at, n, scope) /\ at[n + 1] = scope
  BY <1>2, <1>3
<1>12. Rising(bodyAt, n, scope)
  BY <1>2, <1>3, <1>9, Constantly
<1>13. at[1] = 0 /\ at[n + 1] = bodyAt[1] /\ bodyAt[n + 1] = scope
  BY <1>9, <1>10, <1>11 DEF at
<1>14. Places(s, frame.start, n, at, bodyAt)
  BY <1>1, <1>2, <1>3, <1>11, <1>12, <1>13, PlacesStand
<1>15. InPlace(s, frame.start, n, types, n * OffsetWidth, encoded, at, bodyAt)
  <2>1. ASSUME NEW k \in 1..n
        PROVE  /\ IsFixed(types[k])
               /\ encoded[k] = Segment(s, frame.start + at[k], frame.start + at[k + 1])
               /\ bodyAt[k + 1] = bodyAt[k]
    BY <1>4, <1>5, <1>8, <1>9, <1>10 DEF Place
  <2>. QED
    BY <2>1, Zenon DEF InPlace
<1>16. LaidOut(frame, above, s, at, bodyAt)
  <2>1. EncodedParts(frame, Deepest - above, n, encoded)
    BY <1>7 DEF depth
  <2>. QED
    BY <1>6, <1>13, <1>14, <1>15, <2>1, Zenon DEF LaidOut
<1>. QED
  BY <1>16, LaidOutWritten

(* A sequence that begins with a table of where its elements do. *)
LEMMA TableRises ==
  ASSUME NEW n \in Nat, NEW scope \in Nat, n * OffsetWidth <= scope,
         NEW at, \A k \in 1..(n + 1) : at[k] = (k - 1) * OffsetWidth
  PROVE  /\ Rising(at, n, scope) /\ at[1] = 0 /\ at[n + 1] = n * OffsetWidth
         /\ \A k \in 1..n : at[k + 1] = k * OffsetWidth
<1>1. OffsetWidth \in Nat
  BY OffsetsAreWide
<1>2. /\ 1 \in 1..(n + 1) /\ n + 1 \in 1..(n + 1) /\ (n + 1) - 1 = n
      /\ \A k \in 1..n : k \in 1..(n + 1) /\ k + 1 \in 1..(n + 1)
  BY Indices
<1>3. ASSUME NEW k \in 1..n
      PROVE  at[k + 1] = k * OffsetWidth
  <2>1. (k + 1) - 1 = k
    OBVIOUS
  <2>. QED
    BY <1>2, <2>1
<1>4. at[n + 1] = n * OffsetWidth
  BY <1>2
<1>5. at[1] = 0
  <2>1. (1 - 1) * OffsetWidth = 0
    BY <1>1
  <2>. QED
    BY <1>2, <2>1
<1>6. ASSUME NEW k \in 1..(n + 1)
      PROVE  at[k] \in 0..scope
  <2>1. k - 1 \in Nat /\ k - 1 <= n
    OBVIOUS
  <2>2. (k - 1) * OffsetWidth \in Nat /\ (k - 1) * OffsetWidth <= n * OffsetWidth
    BY <1>1, <2>1, Multiples
  <2>3. n * OffsetWidth \in Nat
    BY <1>1, Multiples
  <2>4. at[k] = (k - 1) * OffsetWidth
    OBVIOUS
  <2> DEFINE a == (k - 1) * OffsetWidth
             b == n * OffsetWidth
  <2>5. a \in Nat /\ a <= b /\ b \in Nat /\ b <= scope /\ at[k] = a
    BY <2>2, <2>3, <2>4
  <2> HIDE DEF a, b
  <2>. QED
    BY <2>5
<1>7. ASSUME NEW k \in 1..n
      PROVE  at[k] <= at[k + 1]
  <2>1. k \in Nat /\ k - 1 \in Nat /\ k - 1 <= k
    OBVIOUS
  <2>2. (k - 1) * OffsetWidth <= k * OffsetWidth
    BY <1>1, <2>1, Multiples
  <2>3. at[k] = (k - 1) * OffsetWidth
    BY <1>2
  <2>. QED
    BY <1>3, <2>2, <2>3
<1>. QED
  BY <1>3, <1>4, <1>5, <1>6, <1>7 DEF Rising

LEMMA TabledCloses ==
  ASSUME NEW frame, NEW above, NEW s, Closing(frame, above, s), InBodies(frame),
         IsSequence(frame.type), frame.next = Len(frame.offsets) + 1,
         ~ IsFixed(frame.type.element), frame.offsets # <<>>,
         frame.offsets[1] = Len(frame.offsets) * OffsetWidth, TableRead(frame, s)
  PROVE  Rewritten(frame, above, s)
<1> DEFINE n == Len(frame.parts)
           depth == Deepest - above
           scope == frame.scope
           at == Bounds(frame)
           slotAt == [k \in 1..(n + 1) |-> (k - 1) * OffsetWidth]
           types == [k \in 1..n |-> frame.type.element]
           leading == n * OffsetWidth
           encoded == [k \in 1..n |-> Encoding(frame.parts[k], depth - 1)]
<1>1. /\ s \in Seq(Octets) /\ IsFrame(frame) /\ frame.stage = "bodies"
      /\ EncodedSoFar(frame, above, s) /\ frame.start \in Nat /\ frame.start + scope <= Len(s)
  BY DEF Closing, InBodies, IsFrame, End
<1>2. /\ Len(frame.offsets) \in Nat /\ scope \in Nat
      /\ Rising(at, Len(frame.offsets), scope)
      /\ at[Len(frame.offsets) + 1] = scope
      /\ \A k \in 1..Len(frame.offsets) : at[k] = frame.offsets[k]
  BY <1>1, BoundsRise
<1>3. n = Len(frame.offsets) /\ n \in Nat
  <2>1. ~ IsStruct(frame.type)
    BY DEF IsStruct, IsSequence, IsList
  <2>. QED
    BY <1>2, <2>1 DEF Closing, CountStands
<1>4. \A j \in 1..n : Encoding(frame.parts[j], depth - 1) = Place(frame, at[j], at[j + 1], s)
  <2>1. frame.next - 1 = n /\ ~ IsStruct(frame.type)
    BY <1>2, <1>3 DEF IsStruct, IsSequence, IsList
  <2>. QED
    BY <1>1, <2>1 DEF EncodedSoFar, BodiesRead, Body
<1>5. /\ \A k \in 1..n : ~ IsFixed(types[k])
      /\ \A k \in 1..n : encoded[k] = Encoding(frame.parts[k], depth - 1)
      /\ \A k \in 1..(n + 1) : slotAt[k] = (k - 1) * OffsetWidth
  OBVIOUS
<1>6. Laying(frame, types, leading)
  BY DEF Laying
<1>7. EncodedParts(frame, depth, n, encoded)
  BY DEF EncodedParts
<1>8. \A k \in 1..n : ToBytes(frame.offsets[k], OffsetWidth) =
                        Place(frame, (k - 1) * OffsetWidth, k * OffsetWidth, s)
  BY <1>3 DEF TableRead
<1>9. 1 \in 1..n
  <2>1. frame.offsets \in Seq(Nat)
    BY <1>1 DEF IsFrame
  <2>. QED
    BY <1>3, <2>1
<1>10. leading = frame.offsets[1]
  BY <1>3
<1>11. at[1] = leading
  BY <1>2, <1>3, <1>9, <1>10
<1>12. \A k \in 1..n : k \in 1..(n + 1)
  BY <1>3, Indices
<1> HIDE DEF n, depth, at, slotAt, types, encoded
<1>13. Rising(at, n, scope) /\ at[n + 1] = scope
  BY <1>2, <1>3
<1>14. n * OffsetWidth <= scope
  <2>1. at[1] \in 0..scope
    BY <1>9, <1>12, <1>13 DEF Rising
  <2>. QED
    BY <1>2, <1>11, <2>1
<1>15. /\ Rising(slotAt, n, scope) /\ slotAt[1] = 0 /\ slotAt[n + 1] = leading
       /\ \A k \in 1..n : slotAt[k + 1] = k * OffsetWidth
  BY <1>2, <1>3, <1>5, <1>14, TableRises
<1> HIDE DEF leading
<1>16. slotAt[n + 1] = at[1]
  BY <1>11, <1>15
<1>17. Places(s, frame.start, n, slotAt, at)
  BY <1>1, <1>2, <1>3, <1>13, <1>15, <1>16, PlacesStand
<1>18. InPlace(s, frame.start, n, types, leading, encoded, slotAt, at)
  <2>1. ASSUME NEW k \in 1..n
        PROVE  /\ ~ IsFixed(types[k]) /\ leading = at[1]
               /\ encoded[k] = Segment(s, frame.start + at[k], frame.start + at[k + 1])
               /\ ToBytes(at[k], OffsetWidth) =
                    Segment(s, frame.start + slotAt[k], frame.start + slotAt[k + 1])
    <3>1. slotAt[k] = (k - 1) * OffsetWidth /\ slotAt[k + 1] = k * OffsetWidth
      BY <1>5, <1>12, <1>15
    <3>2. at[k] = frame.offsets[k]
      BY <1>2, <1>3
    <3>3. ToBytes(at[k], OffsetWidth) = Place(frame, slotAt[k], slotAt[k + 1], s)
      BY <1>8, <3>1, <3>2
    <3>4. encoded[k] = Place(frame, at[k], at[k + 1], s)
      BY <1>4, <1>5
    <3>. QED
      BY <1>5, <1>11, <3>3, <3>4 DEF Place
  <2>. QED
    BY <2>1, Zenon DEF InPlace
<1>19. LaidOut(frame, above, s, slotAt, at)
  <2>1. EncodedParts(frame, Deepest - above, n, encoded)
    BY <1>7 DEF depth
  <2>2. at[n + 1] = frame.scope
    BY <1>13
  <2>. QED
    BY <1>6, <1>17, <1>18, <2>1, <2>2, Zenon DEF LaidOut
<1>. QED
  BY <1>19, LaidOutWritten

LEMMA Ahead ==
  ASSUME NEW start \in Nat, NEW scope \in Nat, 1 <= scope
  PROVE  /\ start + 1 \in Nat /\ start + scope \in Nat /\ start <= start + 1
         /\ start + 1 <= start + scope /\ start + 0 = start
OBVIOUS

(* A union: a selector, and what it selects. *)
LEMMA UnionCloses ==
  ASSUME NEW frame, NEW above, NEW s, Closing(frame, above, s), InBodies(frame),
         frame.type.shape = "union", frame.next = Len(frame.offsets) + 1
  PROVE  Rewritten(frame, above, s)
<1> DEFINE T == frame.type
           scope == frame.scope
           start == frame.start
           part == frame.parts[1]
           v == [type |-> T, data |-> [selector |-> frame.option, value |-> part]]
           encoded == Encoding(part, Deepest - above - 1)
           serialized == [p \in {part} |-> Encoding(p, Deepest - above - 1)]
<1>1. /\ s \in Seq(Octets) /\ IsFrame(frame) /\ frame.stage = "bodies"
      /\ EncodedSoFar(frame, above, s) /\ start \in Nat /\ start + scope <= Len(s)
  BY DEF Closing, InBodies, IsFrame, End
<1>2. ~ IsStruct(T) /\ ~ IsSequence(T)
  BY DEF IsStruct, IsSequence, IsList
<1>3. /\ frame.offsets = <<1>> /\ <<frame.option>> = Place(frame, 0, 1, s)
      /\ BodiesRead(frame, Deepest - above - 1, s)
  BY <1>1 DEF EncodedSoFar, UnionRead
<1>4. /\ Rising(Bounds(frame), 1, scope) /\ scope \in Nat
      /\ Bounds(frame)[2] = scope /\ Bounds(frame)[1] = 1
  <2>1. Len(frame.offsets) = 1 /\ frame.offsets[1] = 1 /\ 1 + 1 = 2 /\ 1 \in 1..1
    BY <1>3
  <2>. QED
    BY <1>1, <2>1, BoundsRise
<1>5. 1 <= scope
  <2>1. 1 \in 1..(1 + 1)
    OBVIOUS
  <2>2. Bounds(frame)[1] \in 0..scope
    BY <1>4, <2>1 DEF Rising
  <2>. QED
    BY <1>4, <2>2
<1>6. encoded = Place(frame, 1, scope, s)
  <2>1. 1 \in 1..(frame.next - 1)
    BY <1>3
  <2>2. Body(frame, 1) = 1 /\ 1 + 1 = 2
    BY <1>2 DEF Body
  <2>. QED
    BY <1>3, <1>4, <2>1, <2>2 DEF BodiesRead
<1>7. [type |-> T, data |-> Built(frame)] = v
  BY DEF Built
<1>8. v.type = T /\ v.data.selector = frame.option /\ v.data.value = part
  OBVIOUS
<1> HIDE DEF v
<1>9. PartsOf(v) = {part}
  BY <1>8 DEF PartsOf, IsStruct, IsSequence, IsList
<1>10. MayHaveParts(v, T)
  <2>1. frame.option \in DOMAIN T.options
    BY <1>2 DEF InBodies
  <2>2. T.options[frame.option] \in PartTypes(T)
    BY <1>2, <2>1 DEF PartTypes
  <2>. QED
    BY <2>2 DEF MayHaveParts
<1>11. serialized[part] = encoded
  OBVIOUS
<1>12. PartsAre(v, serialized, above)
  BY <1>9 DEF PartsAre
<1> HIDE DEF serialized, encoded
<1>13. Encoding(v, Deepest - above) = Written(v, serialized)
  <2>1. EncodedSoFar(frame, above, s)
    BY <1>1
  <2>2. MayHaveParts(v, frame.type)
    BY <1>10
  <2>. QED
    BY <1>12, <2>1, <2>2, PartsEncoded
<1> DEFINE at == start + 1
           to == start + scope
<1>14. /\ start \in Nat /\ at \in Nat /\ to \in Nat /\ start <= at /\ at <= to /\ to <= Len(s)
       /\ start + 0 = start
  BY <1>1, <1>4, <1>5, Ahead, Zenon
<1>15. encoded = Segment(s, at, to) /\ <<frame.option>> = Segment(s, start, at)
  BY <1>3, <1>6, <1>14 DEF Place
<1> HIDE DEF at
<1>16. encoded # Overflow
  <2>1. encoded \in Seq(Octets)
    BY <1>1, <1>14, <1>15, SegmentIs
  <2>2. Octets \subseteq Nat
    BY DEF Octets
  <2>3. encoded \in Seq(Nat)
    BY <2>1, <2>2, SeqMonotonic
  <2>. QED
    BY <2>3, OverflowAssumption
<1>17. Written(v, serialized) = <<frame.option>> \o encoded
  BY <1>8, <1>11, <1>16 DEF Written, IsStruct, IsSequence, IsList
<1>18. <<frame.option>> \o encoded = Segment(s, start, to)
  <2> HIDE DEF to, start
  <2>1. Segment(s, start, at) \o Segment(s, at, to) = Segment(s, start, to)
    BY <1>1, <1>14, SegmentsMeet
  <2>. QED
    BY <1>15, <2>1
<1>. QED
  BY <1>7, <1>13, <1>17, <1>18 DEF Rewritten, End

LEMMA TopCloses ==
  ASSUME IInv, LInv, EInv, frames # <<>>, position = End(current),
         current.stage \in {"slots", "bodies"}, current.scope >= 0
  PROVE  Closing(current, Len(frames) - 1, request.stream)
<1>1. IsFrame(current) /\ request.stream \in Seq(Octets)
  <2>1. FrameStands(current)
    BY StackAt, Zenon
  <2>2. stream \in Seq(Octets)
    BY StreamStands, Zenon
  <2>. QED
    BY <2>1, <2>2 DEF FrameStands, stream
<1>2. EncodedSoFar(current, Len(frames) - 1, request.stream) /\ position <= Len(request.stream)
  BY TopEncoded
<1>3. IsStack(current.parts) /\ CountStands(current)
  BY TopReads DEF ReadSoFar
<1>. QED
  BY <1>1, <1>2, <1>3 DEF Closing

LEMMA CloseEncodes ==
  ASSUME IInv, LInv, EInv, Close
  PROVE  EInv'
<1> DEFINE above == Len(frames) - 1
           s == request.stream
<1>1. Return(Built(current), position)
  BY DEF Close
<1>2. ASSUME frames # <<>>, UNCHANGED request, position = End(current),
             Closing(current, above, s), Rewritten(current, above, s)
      PROVE  EInv'
  <2>1. position <= Len(s) /\ Type = current.type
    BY <1>2, TopEncoded DEF Type
  <2>2. Encoding([type |-> Type, data |-> Built(current)], Deepest - (Len(frames) - 1)) =
          Segment(request.stream, current.start, position)
    BY <1>2, <2>1 DEF Rewritten
  <2>. QED
    BY <1>1, <1>2, <2>1, <2>2, ReturnEncodes
<1>3. CASE At("bodies") /\ current.next > Len(current.offsets)
  <2>1. /\ frames # <<>> /\ UNCHANGED request /\ InBodies(current)
        /\ current.scope \in Int /\ current.start \in Nat
        /\ current.offsets \in Seq(Nat) /\ Len(current.offsets) \in Nat
        /\ position = current.start + Bounds(current)[current.next]
    BY <1>3, AtBodies
  <2>2. /\ current.next = Len(current.offsets) + 1 /\ current.scope >= 0
        /\ current.stage = "bodies"
    BY <1>3, <2>1 DEF InBodies
  <2>3. position = End(current)
    BY <2>1, <2>2, BoundsAre DEF End
  <2>4. Closing(current, above, s)
    BY <2>1, <2>2, <2>3, TopCloses
  <2>5. Rewritten(current, above, s)
    <3>1. CASE IsStruct(current.type)
      BY <2>1, <2>2, <2>4, <3>1, StructBodiesClose
    <3>2. CASE IsSequence(current.type)
      <4>1. SequenceRead(current, s)
        BY <2>2, <2>4, <3>2 DEF Closing, EncodedSoFar
      <4>2. CASE (IsFixed(current.type.element) \/ current.offsets = <<>>) /\ Bounds(current)[1] = 0
        BY <2>1, <2>2, <2>4, <3>2, <4>2, UniformCloses
      <4>3. CASE /\ ~ IsFixed(current.type.element) /\ current.offsets # <<>>
                 /\ current.offsets[1] = Len(current.offsets) * OffsetWidth
                 /\ TableRead(current, s)
        BY <2>1, <2>2, <2>4, <3>2, <4>3, TabledCloses
      <4>. QED
        BY <4>1, <4>2, <4>3 DEF SequenceRead
    <3>3. CASE current.type.shape = "union"
      BY <2>1, <2>2, <2>4, <3>3, UnionCloses
    <3>. QED
      BY <2>1, <3>1, <3>2, <3>3 DEF InBodies
  <2>. QED
    BY <1>2, <2>1, <2>3, <2>4, <2>5
<1>4. CASE At("slots") /\ current.next > Len(Type.fields) /\ current.offsets = <<>>
  <2>1. /\ frames # <<>> /\ UNCHANGED request /\ InSlots(current)
        /\ Type = current.type /\ Type \in Types /\ IsStruct(Type)
        /\ current.scope \in Int /\ current.start \in Nat
        /\ Len(Type.fields) \in Nat
        /\ current.next \in 1..(Len(Type.fields) + 1)
        /\ LeadingWidth(Type) \in Nat
        /\ position = current.start + slotStart[Type][current.next]
    BY <1>4, AtSlots
  <2>2. current.next = Len(Type.fields) + 1 /\ current.next - 1 = Len(Type.fields)
    BY <1>4, <2>1, PastLast
  <2>3. \A f \in 1..Len(Type.fields) : IsFixed(Type.fields[f])
    BY <1>4, <2>1, <2>2 DEF InSlots
  <2>4. current.scope = LeadingWidth(Type) /\ current.stage = "slots"
    BY <2>1, <2>3, FixedStruct DEF InSlots
  <2>5. position = End(current)
    BY <2>1, <2>2, <2>4 DEF End, LeadingWidth
  <2>6. current.scope >= 0
    BY <2>1, <2>4
  <2>7. Closing(current, above, s)
    BY <2>1, <2>4, <2>5, <2>6, TopCloses
  <2>8. Rewritten(current, above, s)
    <3>1. current.next > Len(current.type.fields) /\ current.offsets = <<>>
      BY <1>4, <2>1
    <3>. QED
      BY <2>1, <2>7, <3>1, SlotsClose
  <2>. QED
    BY <1>2, <2>1, <2>5, <2>7, <2>8
<1>. QED
  BY <1>3, <1>4 DEF Close

LEMMA InitEncodes == Init => EInv
<1> SUFFICES ASSUME Init
             PROVE  EInv
  OBVIOUS
<1> DEFINE first == Called(request.type, request.scope, 0)
<1>1. frames = <<first>> /\ outcome.answer = "pending" /\ position = 0
  BY DEF Init, Pending
<1>2. first.stage = "called" /\ first.type = request.type
  BY DEF Called
<1>3. IInv
  BY InitStands
<1>4. request.type \in Types /\ Len(request.stream) \in Nat
  BY <1>3, StreamStands DEF IInv, RequestStands, stream
<1>5. first.type \in TypeLevels[0] /\ 0 \in 0..Deepest
  BY <1>2, <1>4, TypeLevelsAre, NestingAssumption
<1>6. EncodedSoFar(first, 0, request.stream)
  BY <1>2, <1>5 DEF EncodedSoFar
<1> HIDE DEF first
<1>7. DOMAIN frames = 1..1 /\ frames[1] = first
  BY <1>1
<1>8. \A k \in DOMAIN frames : EncodedSoFar(frames[k], k - 1, request.stream)
  <2>1. \A k \in 1..1 : k = 1 /\ k - 1 = 0
    OBVIOUS
  <2>. QED
    BY <1>6, <1>7, <2>1
<1>9. position <= Len(request.stream)
  BY <1>1, <1>4
<1>. QED
  BY <1>1, <1>8, <1>9 DEF EInv, Canonical, Accepted

LEMMA StepEncodes == IInv /\ LInv /\ EInv /\ [Next]_vars => EInv'
<1> SUFFICES ASSUME IInv, LInv, EInv, [Next]_vars
             PROVE  EInv'
  OBVIOUS
<1>1. CASE UNCHANGED vars
  BY <1>1 DEF vars, EInv, Canonical, Accepted, stream
<1>. QED
  BY <1>1, RefuseScopeEncodes, ReadLeafEncodes, OpenUniformEncodes, OpenVectorEncodes,
     OpenListEncodes, ReadTableEncodes, OpenStructEncodes, ReadSlotEncodes, SettleSlotsEncodes,
     OpenUnionEncodes, ReadFieldEncodes, ReadBodyEncodes, CloseEncodes DEF Next

(* One value has one encoding (collections.py:474, container.py:230,        *)
(* bitfields.py:222, bitfields.py:521): whatever the decoders accept is, to *)
(* the byte, what the encoders write for the value that was read from it.   *)
(* An encoding that a decoder let through and no encoder writes would give  *)
(* one value two names.                                                    *)
THEOREM CanonicalTheorem == Spec => []Canonical
<1>1. EInv => Canonical
  BY DEF EInv
<1>. QED
  BY <1>1, InitStands, InitHolds, InitEncodes, StepKeeps, StepHolds, StepEncodes, PTL DEF Spec

=============================================================================
