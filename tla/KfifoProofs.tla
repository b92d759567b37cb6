----------------------------- MODULE KfifoProofs -----------------------------
(***************************************************************************)
(* The ring buffer is a queue of bytes, for every size, every width of the *)
(* indices and every length of put and get.                                *)
(*                                                                         *)
(* The first lemmas are about remainders; from the lemma Distance on, the  *)
(* indices are only spoken of through kfifo_len and Place.                 *)
(***************************************************************************)
EXTENDS Kfifo, TLAPS, SequenceTheorems

-----------------------------------------------------------------------------
(* A remainder is known once a quotient is.                                *)
LEMMA ModUnique ==
  ASSUME NEW n \in Int, NEW w \in Nat \ {0}, NEW q \in Int, NEW r \in 0 .. w - 1,
         n = w * q + r
  PROVE  n % w = r
OBVIOUS

(* Every number has a quotient.                                            *)
LEMMA ModQuotient ==
  ASSUME NEW n \in Int, NEW w \in Nat \ {0}
  PROVE  /\ n % w \in 0 .. w - 1
         /\ \E q \in Int : n = w * q + (n % w)
<1>1. n = w * (n \div w) + (n % w) /\ n \div w \in Int
  OBVIOUS
<1>2. n % w \in 0 .. w - 1
  OBVIOUS
<1> QED BY <1>1, <1>2

(* Near its range a remainder is taken by one addition or subtraction.     *)
LEMMA ModNear ==
  ASSUME NEW n \in Int, NEW w \in Nat \ {0}
  PROVE  /\ 0 <= n /\ n < w => n % w = n
         /\ w <= n /\ n < 2 * w => n % w = n - w
         /\ -w <= n /\ n < 0 => n % w = n + w
<1>1. ASSUME 0 <= n, n < w PROVE n % w = n
  BY <1>1
<1>2. ASSUME w <= n, n < 2 * w PROVE n % w = n - w
  BY <1>2
<1>3. ASSUME -w <= n, n < 0 PROVE n % w = n + w
  BY <1>3
<1> QED BY <1>1, <1>2, <1>3

(* The constants, as the proofs use them.                                  *)
LEMMA Sizes == Size \in Nat \ {0} /\ Word \in Nat \ {0} /\ Size < Word
<1>1. PICK k \in 2 .. Word : Word = k * Size
  BY SizeAssumption
<1>2. Word >= 2 * Size
  BY <1>1, SizeAssumption
<1> QED BY <1>2, SizeAssumption

(* A remainder by Word, taken again by Size, is the remainder by Size.     *)
LEMMA MaskOfWrapped ==
  ASSUME NEW x \in Nat, NEW i \in Nat
  PROVE  ((x % Word) + i) % Size = (x + i) % Size
<1> DEFINE w == x % Word
           y == w + i
           r == y % Size
<1>1. PICK k \in 2 .. Word : Word = k * Size
  BY SizeAssumption
<1>2. x \in Int /\ i \in Int /\ x + i \in Int /\ Word \in Nat \ {0} /\ Size \in Nat \ {0}
  BY Sizes
<1>3. w \in 0 .. Word - 1 /\ \E q \in Int : x = Word * q + w
  BY <1>2, ModQuotient, Zenon
<1>4. y \in Int
  BY <1>2, <1>3
<1>5. r \in 0 .. Size - 1 /\ \E p \in Int : y = Size * p + r
  BY <1>2, <1>4, ModQuotient, Zenon
<1> HIDE DEF r
<1>6. PICK p \in Int : w + i = Size * p + r
  BY <1>5
<1> HIDE DEF y, w
<1>7. PICK q \in Int : x = Word * q + w
  BY <1>3
<1> DEFINE c == k * q
<1>8. c \in Int /\ Word * q = Size * c
  BY <1>1, <1>2
<1> HIDE DEF c
<1>9. x + i = Size * c + (Size * p + r)
  BY <1>2, <1>3, <1>5, <1>6, <1>7, <1>8
<1>10. x + i = Size * (c + p) + r /\ c + p \in Int
  BY <1>2, <1>5, <1>8, <1>9
<1>11. (x + i) % Size = r
  BY <1>2, <1>5, <1>10, ModUnique, Zenon
<1> QED BY <1>11 DEF r, y, w

(* The two memcpy of a copy put byte i at index + i, masked.               *)
LEMMA PlaceMasks ==
  ASSUME NEW index \in Nat, NEW i \in 0 .. Size - 1
  PROVE  Place(index, i) = (index + i) % Size /\ Place(index, i) \in 0 .. Size - 1
<1> DEFINE r == index % Size
<1>1. index \in Int /\ index + i \in Int /\ Size \in Nat \ {0} /\ i \in Int
  BY Sizes
<1>2. r \in 0 .. Size - 1 /\ \E q \in Int : index = Size * q + r
  BY <1>1, ModQuotient, Zenon
<1>3. Place(index, i) = IF i < Size - r THEN r + i ELSE i - (Size - r)
  BY DEF Place, Masked
<1> HIDE DEF r
<1>4. PICK q \in Int : index = Size * q + r
  BY <1>2
<1>5. CASE i < Size - r
  <2>1. index + i = Size * q + (r + i) /\ r + i \in 0 .. Size - 1
    BY <1>1, <1>2, <1>4, <1>5
  <2>2. (index + i) % Size = r + i
    BY <1>1, <2>1, ModUnique, Zenon
  <2> QED BY <1>3, <1>5, <2>1, <2>2
<1>6. CASE ~(i < Size - r)
  <2>1. /\ index + i = Size * (q + 1) + (i - (Size - r))
        /\ i - (Size - r) \in 0 .. Size - 1
        /\ q + 1 \in Int
    BY <1>1, <1>2, <1>4, <1>6
  <2>2. (index + i) % Size = i - (Size - r)
    BY <1>1, <2>1, ModUnique, Zenon
  <2> QED BY <1>3, <1>6, <2>1, <2>2
<1> QED BY <1>5, <1>6

(* Moving an index by n moves the places after it by n, wrap or no wrap.   *)
LEMMA PlaceShift ==
  ASSUME NEW x \in 0 .. Word - 1, NEW n \in Nat, NEW i \in Nat, n + i < Size
  PROVE  Place(Unsigned(x + n), i) = Place(x, n + i)
<1>1. Unsigned(x + n) \in Nat
  BY Sizes, ModQuotient DEF Unsigned
<1>2. Place(Unsigned(x + n), i) = (((x + n) % Word) + i) % Size
  BY <1>1, PlaceMasks, Sizes DEF Unsigned
<1>3. (((x + n) % Word) + i) % Size = ((x + n) + i) % Size
  <2>1. x + n \in Nat
    BY Sizes
  <2> QED BY <2>1, MaskOfWrapped, Zenon
<1>4. Place(x, n + i) = (x + (n + i)) % Size
  BY PlaceMasks, Sizes
<1> QED BY <1>2, <1>3, <1>4, Sizes

(* The places of a copy no longer than the buffer are different.           *)
LEMMA PlaceInjective ==
  ASSUME NEW x \in Nat, NEW i \in 0 .. Size - 1, NEW j \in 0 .. Size - 1,
         Place(x, i) = Place(x, j)
  PROVE  i = j
<1>1. Masked(x) \in 0 .. Size - 1
  BY Sizes, ModQuotient DEF Masked
<1> QED BY <1>1, Sizes DEF Place

(* Unsigned arithmetic on a number near the range of the indices.          *)
LEMMA UnsignedNear ==
  ASSUME NEW n \in Int
  PROVE  /\ 0 <= n /\ n < Word => Unsigned(n) = n
         /\ Word <= n /\ n < 2 * Word => Unsigned(n) = n - Word
         /\ -Word <= n /\ n < 0 => Unsigned(n) = n + Word
<1>1. Unsigned(n) = n % Word
  BY DEF Unsigned
<1> QED BY <1>1, ModNear, Sizes

(* __kfifo_len, without a remainder.                                       *)
LEMMA Distance ==
  ASSUME NEW a \in 0 .. Word - 1, NEW b \in 0 .. Word - 1
  PROVE  /\ Unsigned(a - b) = IF b <= a THEN a - b ELSE a - b + Word
         /\ Unsigned(a - b) \in 0 .. Word - 1
<1>1. a - b \in Int /\ -Word <= a - b /\ a - b < Word
  BY Sizes
<1>2. CASE b <= a
  BY <1>1, <1>2, Sizes, UnsignedNear
<1>3. CASE ~(b <= a)
  BY <1>1, <1>3, Sizes, UnsignedNear
<1> QED BY <1>2, <1>3

(* An index moved by at most a buffer.                                     *)
LEMMA Advance ==
  ASSUME NEW a \in 0 .. Word - 1, NEW n \in 0 .. Size
  PROVE  /\ Unsigned(a + n) = IF a + n < Word THEN a + n ELSE a + n - Word
         /\ Unsigned(a + n) \in 0 .. Word - 1
<1>1. a + n \in Int /\ 0 <= a + n /\ a + n < 2 * Word
  BY Sizes
<1>2. CASE a + n < Word
  BY <1>1, <1>2, Sizes, UnsignedNear
<1>3. CASE ~(a + n < Word)
  BY <1>1, <1>3, Sizes, UnsignedNear
<1> QED BY <1>2, <1>3

(* The room __kfifo_put computes is what the reader has left free.         *)
LEMMA RoomLeft ==
  ASSUME NEW a \in 0 .. Word - 1, NEW b \in 0 .. Word - 1, Unsigned(a - b) <= Size
  PROVE  Unsigned(Size - a + b) = Size - Unsigned(a - b)
<1>1. Size - a + b \in Int
  BY Sizes
<1> QED BY <1>1, Sizes, Distance, UnsignedNear

(* A put of n bytes makes the distance grow by n, across the wrap too...   *)
LEMMA LenAfterPut ==
  ASSUME NEW a \in 0 .. Word - 1, NEW b \in 0 .. Word - 1, NEW n \in Nat,
         Unsigned(a - b) + n <= Size
  PROVE  /\ Unsigned(a + n) \in 0 .. Word - 1
         /\ Unsigned(Unsigned(a + n) - b) = Unsigned(a - b) + n
<1>1. n \in 0 .. Size
  BY Sizes, Distance
<1>2. /\ Unsigned(a + n) = IF a + n < Word THEN a + n ELSE a + n - Word
      /\ Unsigned(a + n) \in 0 .. Word - 1
  BY <1>1, Advance
<1>3. Unsigned(a - b) = IF b <= a THEN a - b ELSE a - b + Word
  BY Distance
<1> DEFINE c == Unsigned(a + n)
<1>4. c \in 0 .. Word - 1
  BY <1>2
<1> HIDE DEF c
<1>5. Unsigned(c - b) = IF b <= c THEN c - b ELSE c - b + Word
  BY <1>4, Distance
<1> QED BY <1>1, <1>2, <1>3, <1>5, Sizes DEF c

(* ...and a get makes it shrink.                                           *)
LEMMA LenAfterGet ==
  ASSUME NEW a \in 0 .. Word - 1, NEW b \in 0 .. Word - 1, NEW n \in Nat,
         Unsigned(a - b) <= Size, n <= Unsigned(a - b)
  PROVE  /\ Unsigned(b + n) \in 0 .. Word - 1
         /\ Unsigned(a - Unsigned(b + n)) = Unsigned(a - b) - n
<1>1. n \in 0 .. Size
  BY Sizes, Distance
<1>2. /\ Unsigned(b + n) = IF b + n < Word THEN b + n ELSE b + n - Word
      /\ Unsigned(b + n) \in 0 .. Word - 1
  BY <1>1, Advance
<1>3. Unsigned(a - b) = IF b <= a THEN a - b ELSE a - b + Word
  BY Distance
<1> DEFINE c == Unsigned(b + n)
<1>4. c \in 0 .. Word - 1
  BY <1>2
<1> HIDE DEF c
<1>5. Unsigned(a - c) = IF c <= a THEN a - c ELSE a - c + Word
  BY <1>4, Distance
<1> QED BY <1>1, <1>2, <1>3, <1>5, Sizes DEF c

(* The writer's places follow the reader's: byte i of a put is byte        *)
(* kfifo_len + i counted from out.                                         *)
LEMMA Facing ==
  ASSUME NEW a \in 0 .. Word - 1, NEW b \in 0 .. Word - 1, NEW i \in Nat,
         Unsigned(a - b) + i < Size
  PROVE  Place(a, i) = Place(b, Unsigned(a - b) + i)
<1> DEFINE n == Unsigned(a - b)
<1>1. n \in Nat /\ n = IF b <= a THEN a - b ELSE a - b + Word
  BY Distance
<1>2. n \in 0 .. Size
  BY <1>1, Sizes
<1> HIDE DEF n
<1>3. Unsigned(b + n) = a
  <2>1. Unsigned(b + n) = IF b + n < Word THEN b + n ELSE b + n - Word
    BY <1>2, Advance
  <2> QED BY <1>1, <2>1, Sizes
<1>4. n + i < Size
  BY DEF n
<1>5. Place(Unsigned(b + n), i) = Place(b, n + i)
  BY <1>1, <1>4, PlaceShift
<1> QED BY <1>3, <1>5 DEF n

-----------------------------------------------------------------------------
(* The inductive part of KfifoInv: what keeps the two sides apart follows. *)
Claims ==
  /\ kfifo_len + Len(src) <= Size
  /\ len <= kfifo_len

LEMMA ClaimsSuffice ==
  ASSUME TypeOK, Claims
  PROVE  NeverOverrun
<1>1. in \in 0 .. Word - 1 /\ out \in 0 .. Word - 1 /\ Len(src) \in Nat /\ len \in Nat
  BY DEF TypeOK
<1>2. kfifo_len \in Nat /\ kfifo_len = Unsigned(in - out)
  BY <1>1, Distance DEF kfifo_len
<1>3. ASSUME NEW i \in 0 .. Len(src) - 1, NEW j \in 0 .. len - 1
      PROVE  Place(in, i) # Place(out, j)
  <2>1. kfifo_len + i < Size /\ i \in Nat /\ j < kfifo_len /\ j \in 0 .. Size - 1
    BY <1>1, <1>2, <1>3, Sizes DEF Claims
  <2>2. Place(in, i) = Place(out, kfifo_len + i)
    BY <1>1, <1>2, <2>1, Facing
  <2>3. kfifo_len + i \in 0 .. Size - 1 /\ out \in Nat /\ kfifo_len + i # j
    BY <1>1, <1>2, <2>1, Sizes
  <2> QED BY <2>1, <2>2, <2>3, PlaceInjective
<1> QED BY <1>1, <1>2, <1>3, Sizes DEF NeverOverrun, Claims

IndInv == TypeOK /\ Claims /\ CopiesAgree

LEMMA InitInd == Init => IndInv
<1> SUFFICES ASSUME Init PROVE IndInv
  OBVIOUS
<1>1. (CHOOSE d \in Data : TRUE) \in Data
  BY DataAssumption
<1>2. TypeOK
  BY <1>1, Sizes, SizeAssumption DEF Init, TypeOK
<1>3. kfifo_len = 0
  BY Distance, Sizes DEF Init, kfifo_len
<1>4. Claims
  BY <1>3, Sizes DEF Init, Claims
<1>5. CopiesAgree
  BY DEF Init, CopiesAgree
<1> QED BY <1>2, <1>4, <1>5 DEF IndInv

(* The room of a put, while nothing has been claimed of it.                *)
LEMMA RoomBesideContent ==
  ASSUME IndInv
  PROVE  Room = Size - kfifo_len /\ Room \in 0 .. Size
<1>1. in \in 0 .. Word - 1 /\ out \in 0 .. Word - 1 /\ Len(src) \in Nat
  BY DEF IndInv, TypeOK
<1>2. kfifo_len \in Nat /\ kfifo_len = Unsigned(in - out)
  BY <1>1, Distance DEF kfifo_len
<1>3. kfifo_len <= Size
  BY <1>1, <1>2, Sizes DEF IndInv, Claims
<1>4. Room = Size - kfifo_len
  BY <1>1, <1>2, <1>3, RoomLeft DEF Room
<1> QED BY <1>2, <1>3, <1>4, Sizes

(* A put that begins: what it takes fits beside what is in the buffer...   *)
LEMMA PutTestInd ==
  ASSUME IndInv, NEW s \in Strings, PutTest(s)
  PROVE  IndInv'
<1>1. s \in Seq(Data) /\ Len(s) \in Nat
  <2>1. PICK n \in 0 .. MaxLen : s \in [1 .. n -> Data]
    BY DEF Strings
  <2> QED BY <2>1, SizeAssumption
<1>2. src' \in Seq(Data) /\ Len(src') \in Nat /\ Len(src') <= Room
  <2>1. CASE Len(s) < Room
    BY <1>1, <2>1, RoomBesideContent, Sizes DEF PutTest
  <2>2. CASE ~(Len(s) < Room)
    BY <1>1, <2>2, RoomBesideContent, Sizes DEF PutTest
  <2> QED BY <2>1, <2>2
<1>3. kfifo_len' = kfifo_len
  BY DEF PutTest, kfifo_len
<1>4. TypeOK'
  BY <1>1, <1>2 DEF IndInv, TypeOK, PutTest, rvars
<1>5. kfifo_len \in Nat
  BY Distance DEF IndInv, TypeOK, kfifo_len
<1>6. Claims'
  BY <1>2, <1>3, <1>5, RoomBesideContent, Sizes DEF IndInv, Claims, PutTest, rvars
<1>7. CopiesAgree'
  BY DEF IndInv, CopiesAgree, PutTest, rvars, Place, Masked
<1> QED BY <1>4, <1>6, <1>7 DEF IndInv

(* ...also when the room has grown since it was compared.                  *)
LEMMA PutAgainInd ==
  ASSUME IndInv, PutAgain
  PROVE  IndInv'
<1>1. PICK t \in [1 .. Room -> Data] : src' = t
  BY DEF PutAgain
<1>2. src' \in Seq(Data) /\ Len(src') = Room
  BY <1>1, RoomBesideContent, Sizes
<1>3. kfifo_len' = kfifo_len
  BY DEF PutAgain, kfifo_len
<1>4. kfifo_len \in Nat
  BY Distance DEF IndInv, TypeOK, kfifo_len
<1>5. done = 0 /\ done' = 0
  BY DEF IndInv, TypeOK, CopiesAgree, PutAgain
<1>6. TypeOK'
  BY <1>2, <1>5, RoomBesideContent, Sizes DEF IndInv, TypeOK, PutAgain, rvars
<1>7. Claims'
  BY <1>2, <1>3, <1>4, RoomBesideContent, Sizes DEF IndInv, Claims, PutAgain, rvars
<1>8. CopiesAgree'
  BY <1>5 DEF IndInv, CopiesAgree, PutAgain, rvars, Place, Masked
<1> QED BY <1>6, <1>7, <1>8 DEF IndInv

(* A byte copied in: it touches no byte the other side is copying out.     *)
LEMMA PutByteInd ==
  ASSUME IndInv, PutByte
  PROVE  IndInv'
<1> USE DEF IndInv
<1>1. /\ in \in 0 .. Word - 1 /\ out \in 0 .. Word - 1
      /\ src \in Seq(Data) /\ Len(src) \in Nat /\ done \in 0 .. Len(src)
      /\ len \in Nat /\ got \in Seq(Data) /\ Len(got) \in Nat /\ Len(got) <= len
      /\ buffer \in [0 .. Size - 1 -> Data]
  BY DEF TypeOK
<1>2. done < Len(src) /\ src[done + 1] \in Data
  BY <1>1 DEF PutByte
<1>3. kfifo_len \in Nat /\ kfifo_len = Unsigned(in - out)
  BY <1>1, Distance DEF kfifo_len
<1>4. NeverOverrun
  BY ClaimsSuffice
<1>5. Len(src) <= Size /\ len <= Size
  BY <1>1, <1>3, Sizes DEF Claims
<1>6. buffer' = [buffer EXCEPT ![Place(in, done)] = src[done + 1]]
  BY DEF PutByte
<1>7. in' = in /\ out' = out /\ src' = src /\ len' = len /\ got' = got /\ done' = done + 1
      /\ wpc' = wpc /\ rpc' = rpc /\ dest' = dest /\ ask' = ask /\ want' = want
  BY DEF PutByte, rvars
<1>8. Place(in, done) \in 0 .. Size - 1
  <2>1. done \in 0 .. Size - 1 /\ in \in Nat
    BY <1>1, <1>2, <1>5, Sizes
  <2> QED BY <2>1, PlaceMasks
<1>9. TypeOK'
  BY <1>1, <1>2, <1>6, <1>7, <1>8 DEF TypeOK
<1>10. Claims'
  BY <1>7 DEF Claims, kfifo_len
<1>11. ASSUME NEW i \in 0 .. done' - 1
       PROVE  buffer'[Place(in, i)] = src[i + 1]
  <2>1. i \in 0 .. Size - 1 /\ done \in 0 .. Size - 1 /\ in \in Nat
    BY <1>1, <1>2, <1>5, <1>7, Sizes
  <2>2. Place(in, i) \in 0 .. Size - 1
    BY <2>1, PlaceMasks
  <2>3. CASE i = done
    BY <1>1, <1>6, <1>8, <2>3
  <2>4. CASE i # done
    <3>1. Place(in, i) # Place(in, done)
      BY <2>1, <2>4, PlaceInjective
    <3>2. i \in 0 .. done - 1
      BY <1>1, <1>7, <2>4
    <3> QED BY <1>1, <1>6, <2>2, <3>1, <3>2 DEF CopiesAgree
  <2> QED BY <2>3, <2>4
<1>12. ASSUME NEW i \in 1 .. Len(got)
       PROVE  got[i] = buffer'[Place(out, i - 1)]
  <2>1. i - 1 \in 0 .. len - 1 /\ i - 1 \in 0 .. Size - 1 /\ out \in Nat
    BY <1>1, <1>5, Sizes
  <2>2. Place(out, i - 1) \in 0 .. Size - 1
    BY <2>1, PlaceMasks
  <2>3. Place(in, done) # Place(out, i - 1)
    <3>1. done \in 0 .. Len(src) - 1
      BY <1>1, <1>2, <1>5
    <3> QED BY <1>1, <1>2, <1>4, <2>1, <3>1 DEF NeverOverrun
  <2> QED BY <1>1, <1>6, <2>2, <2>3 DEF CopiesAgree
<1>13. (\A i \in 0 .. done - 1 : buffer[Place(in, i)] = src[i + 1])'
  BY <1>7, <1>11 DEF Place, Masked
<1>14. (\A i \in 1 .. Len(got) : got[i] = buffer[Place(out, i - 1)])'
  BY <1>7, <1>12 DEF Place, Masked
<1>15. CopiesAgree'
  BY <1>7, <1>13, <1>14 DEF CopiesAgree
<1> QED BY <1>9, <1>10, <1>15

(* The lengths a state of the invariant allows.                            *)
LEMMA Lengths ==
  ASSUME IndInv
  PROVE  /\ in \in 0 .. Word - 1 /\ out \in 0 .. Word - 1
         /\ kfifo_len \in Nat /\ kfifo_len = Unsigned(in - out)
         /\ Len(src) \in Nat /\ Len(got) \in Nat /\ len \in Nat
         /\ kfifo_len + Len(src) <= Size /\ kfifo_len <= Size /\ len <= kfifo_len
<1>1. /\ in \in 0 .. Word - 1 /\ out \in 0 .. Word - 1
      /\ Len(src) \in Nat /\ Len(got) \in Nat /\ len \in Nat
  BY DEF IndInv, TypeOK
<1>2. kfifo_len \in Nat /\ kfifo_len = Unsigned(in - out)
  BY <1>1, Distance DEF kfifo_len
<1> QED BY <1>1, <1>2, Sizes DEF IndInv, Claims

(* A put that ends hands all its bytes over at once.                       *)
LEMMA PutEndInd ==
  ASSUME IndInv, PutEnd
  PROVE  IndInv' /\ kfifo_len' = kfifo_len + Len(src)
<1>1. in' \in 0 .. Word - 1 /\ kfifo_len' = kfifo_len + Len(src)
  BY Lengths, LenAfterPut DEF PutEnd, kfifo_len
<1>2. TypeOK'
  BY <1>1 DEF IndInv, TypeOK, PutEnd, rvars
<1>3. Claims'
  BY <1>1, Lengths DEF Claims, PutEnd, rvars
<1>4. CopiesAgree'
  BY DEF IndInv, CopiesAgree, PutEnd, rvars, Place, Masked
<1> QED BY <1>1, <1>2, <1>3, <1>4 DEF IndInv

(* A get that begins: what it takes is in the buffer...                    *)
LEMMA GetTestInd ==
  ASSUME IndInv, NEW n \in 0 .. MaxLen, GetTest(n)
  PROVE  IndInv'
<1>1. kfifo_len' = kfifo_len /\ len' = IF n < kfifo_len THEN n ELSE 0
  BY DEF GetTest, kfifo_len
<1>2. len' \in 0 .. Size /\ len' <= kfifo_len /\ n \in Nat
  BY <1>1, Lengths, Sizes, SizeAssumption
<1>3. got = << >>
  BY DEF IndInv, TypeOK, CopiesAgree, GetTest
<1>4. TypeOK'
  BY <1>2, <1>3 DEF IndInv, TypeOK, GetTest, wvars
<1>5. Claims'
  BY <1>1, <1>2, Lengths DEF Claims, GetTest, wvars
<1>6. CopiesAgree'
  BY <1>3 DEF IndInv, CopiesAgree, GetTest, wvars, Place, Masked
<1> QED BY <1>4, <1>5, <1>6 DEF IndInv

(* ...also when bytes have been added since they were counted.             *)
LEMMA GetAgainInd ==
  ASSUME IndInv, GetAgain
  PROVE  IndInv'
<1>1. kfifo_len' = kfifo_len /\ len' = kfifo_len
  BY DEF GetAgain, kfifo_len
<1>2. len' \in 0 .. Size
  BY <1>1, Lengths, Sizes
<1>3. got = << >>
  BY DEF IndInv, TypeOK, CopiesAgree, GetAgain
<1>4. TypeOK'
  BY <1>2, <1>3 DEF IndInv, TypeOK, GetAgain, wvars
<1>5. Claims'
  BY <1>1, Lengths DEF Claims, GetAgain, wvars
<1>6. CopiesAgree'
  BY <1>3 DEF IndInv, CopiesAgree, GetAgain, wvars, Place, Masked
<1> QED BY <1>4, <1>5, <1>6 DEF IndInv

(* A byte copied out.                                                      *)
LEMMA GetByteInd ==
  ASSUME IndInv, GetByte
  PROVE  IndInv'
<1> DEFINE b == buffer[Place(out, Len(got))]
<1>1. got' = Append(got, b) /\ got \in Seq(Data) /\ Len(got) < len
  BY DEF GetByte, IndInv, TypeOK
<1>2. Len(got) \in 0 .. Size - 1 /\ out \in Nat
  BY <1>1, Lengths, Sizes
<1>3. Place(out, Len(got)) \in 0 .. Size - 1
  BY <1>2, PlaceMasks
<1>4. b \in Data
  BY <1>3 DEF IndInv, TypeOK
<1> HIDE DEF b
<1>5. got' \in Seq(Data) /\ Len(got') = Len(got) + 1
  BY <1>1, <1>4
<1>6. TypeOK'
  BY <1>1, <1>5, Lengths DEF IndInv, TypeOK, GetByte, wvars
<1>7. Claims'
  BY DEF IndInv, Claims, kfifo_len, GetByte, wvars
<1>8. ASSUME NEW i \in 1 .. Len(got')
      PROVE  got'[i] = buffer[Place(out, i - 1)]
  <2>1. CASE i = Len(got) + 1
    BY <1>1, <1>4, <2>1, Lengths DEF b
  <2>2. CASE i # Len(got) + 1
    <3>1. i \in 1 .. Len(got)
      BY <1>5, <2>2, Lengths
    <3> QED BY <1>1, <1>4, <3>1, Lengths DEF IndInv, CopiesAgree
  <2> QED BY <2>1, <2>2
<1>9. CopiesAgree'
  BY <1>8 DEF IndInv, CopiesAgree, GetByte, wvars, Place, Masked
<1> QED BY <1>6, <1>7, <1>9 DEF IndInv

(* A get that ends gives all its bytes back at once.                       *)
LEMMA GetEndInd ==
  ASSUME IndInv, GetEnd
  PROVE  IndInv' /\ kfifo_len' = kfifo_len - len
<1>1. out' \in 0 .. Word - 1 /\ kfifo_len' = kfifo_len - len
  BY Lengths, LenAfterGet DEF GetEnd, kfifo_len
<1>2. TypeOK'
  BY <1>1, Sizes, SizeAssumption DEF IndInv, TypeOK, GetEnd, wvars
<1>3. Claims'
  BY <1>1, Lengths, Sizes DEF Claims, GetEnd, wvars
<1>4. CopiesAgree'
  BY DEF IndInv, CopiesAgree, GetEnd, wvars, Place, Masked
<1> QED BY <1>1, <1>2, <1>3, <1>4 DEF IndInv

(* A reset between operations.                                             *)
LEMMA ResetInd ==
  ASSUME IndInv, kfifo_reset
  PROVE  IndInv' /\ kfifo_len' = 0
<1>1. src = << >> /\ len = 0 /\ done = 0 /\ got = << >>
  BY DEF IndInv, TypeOK, CopiesAgree, kfifo_reset
<1>2. TypeOK'
  BY Sizes DEF IndInv, TypeOK, kfifo_reset, wvars, rvars
<1>3. kfifo_len' = 0
  BY Distance, Sizes DEF kfifo_reset, kfifo_len
<1>4. Claims'
  BY <1>1, <1>3, Sizes DEF Claims, kfifo_reset, wvars, rvars
<1>5. CopiesAgree'
  BY <1>1 DEF CopiesAgree, kfifo_reset, wvars, rvars
<1> QED BY <1>2, <1>3, <1>4, <1>5 DEF IndInv

(* One step per action of either side.                                     *)
LEMMA StepInd == IndInv /\ [Next]_vars => IndInv'
<1> SUFFICES ASSUME IndInv, [Next]_vars PROVE IndInv'
  OBVIOUS
<1>1. CASE \E s \in Strings : PutTest(s)
  BY <1>1, PutTestInd
<1>2. CASE PutAgain
  BY <1>2, PutAgainInd
<1>3. CASE PutByte
  BY <1>3, PutByteInd
<1>4. CASE PutEnd
  BY <1>4, PutEndInd
<1>5. CASE \E n \in 0 .. MaxLen : GetTest(n)
  BY <1>5, GetTestInd
<1>6. CASE GetAgain
  BY <1>6, GetAgainInd
<1>7. CASE GetByte
  BY <1>7, GetByteInd
<1>8. CASE GetEnd
  BY <1>8, GetEndInd
<1>9. CASE kfifo_reset
  BY <1>9, ResetInd
<1>10. CASE UNCHANGED vars
  BY <1>10 DEF IndInv, TypeOK, Claims, CopiesAgree, kfifo_len, Place, Masked, vars, wvars, rvars
<1> QED BY <1>1, <1>2, <1>3, <1>4, <1>5, <1>6, <1>7, <1>8, <1>9, <1>10 DEF Next

(* In every instance, writer and reader stay in bounds and apart, and what *)
(* they have copied agrees with the buffer (__kfifo_put, __kfifo_get).     *)
THEOREM RingInvariant == Spec => []KfifoInv
<1>1. IndInv => KfifoInv
  BY ClaimsSuffice DEF IndInv, KfifoInv
<1> QED BY <1>1, InitInd, StepInd, PTL DEF Spec

(* In particular no byte being copied in ever lies where one is being      *)
(* copied out.                                                             *)
THEOREM RingNeverOverrun == Spec => []NeverOverrun
<1>1. KfifoInv => NeverOverrun
  BY DEF KfifoInv
<1> QED BY <1>1, RingInvariant, PTL

(* What a side has copied stays in the buffer until it moves its index,    *)
(* whatever the other side does meanwhile.                                 *)
THEOREM RingCopiesAgree == Spec => []CopiesAgree
<1>1. KfifoInv => CopiesAgree
  BY DEF KfifoInv
<1> QED BY <1>1, RingInvariant, PTL

(* in and out stay unsigned ints, and no copy runs past what was sampled.  *)
THEOREM RingTypes == Spec => []TypeOK
<1>1. KfifoInv => TypeOK
  BY DEF KfifoInv
<1> QED BY <1>1, RingInvariant, PTL

-----------------------------------------------------------------------------
(* The refinement.  The bytes put and not yet got are a sequence.          *)
LEMMA ContentIsSeq ==
  ASSUME IndInv
  PROVE  /\ content \in Seq(Data) /\ Len(content) = kfifo_len
         /\ \A i \in 1 .. kfifo_len : content[i] = buffer[Place(out, i - 1)]
<1>1. ASSUME NEW i \in 1 .. kfifo_len PROVE buffer[Place(out, i - 1)] \in Data
  <2>1. i - 1 \in 0 .. Size - 1 /\ out \in Nat
    BY Lengths, Sizes
  <2>2. Place(out, i - 1) \in 0 .. Size - 1
    BY <2>1, PlaceMasks
  <2> QED BY <2>2 DEF IndInv, TypeOK
<1> QED BY <1>1, Lengths DEF content

(* The same after a step.                                                  *)
LEMMA ContentIsSeqPrimed ==
  ASSUME IndInv'
  PROVE  /\ content' \in Seq(Data) /\ Len(content') = kfifo_len'
         /\ \A i \in 1 .. kfifo_len' : content'[i] = buffer'[Place(out', i - 1)]
<1>1. /\ in' \in 0 .. Word - 1 /\ out' \in 0 .. Word - 1 /\ Len(src') \in Nat
      /\ buffer' \in [0 .. Size - 1 -> Data]
  BY DEF IndInv, TypeOK
<1>2. kfifo_len' \in Nat
  <2>1. kfifo_len' = Unsigned(in' - out')
    BY DEF kfifo_len, Unsigned
  <2>2. Unsigned(in' - out') \in 0 .. Word - 1
    BY <1>1, Distance
  <2> QED BY <2>1, <2>2, Sizes
<1>3. kfifo_len' <= Size
  BY <1>1, <1>2, Sizes DEF IndInv, Claims
<1>4. ASSUME NEW i \in 1 .. kfifo_len' PROVE buffer'[Place(out', i - 1)] \in Data
  <2>1. i - 1 \in 0 .. Size - 1 /\ out' \in Nat
    BY <1>1, <1>2, <1>3, Sizes
  <2>2. Place(out', i - 1) \in 0 .. Size - 1
    BY <2>1, PlaceMasks
  <2> QED BY <1>1, <2>2
<1>5. content' = [i \in 1 .. kfifo_len' |-> buffer'[Place(out', i - 1)]]
  BY DEF content, Place, Masked
<1> QED BY <1>2, <1>4, <1>5

(* While the indices stand still, only a byte inside the content could     *)
(* change it.                                                              *)
LEMMA ContentStays ==
  ASSUME in' = in, out' = out,
         \A i \in 1 .. kfifo_len : buffer'[Place(out, i - 1)] = buffer[Place(out, i - 1)]
  PROVE  content' = content
BY DEF content, kfifo_len, Place, Masked

(* The end of a put appends its bytes.                                     *)
LEMMA PutEndAppends ==
  ASSUME IndInv, IndInv', PutEnd
  PROVE  Bytes!Put(src) /\ src \in [1 .. Len(src) -> Data] /\ Len(src) \in 0 .. Size
<1>1. kfifo_len' = kfifo_len + Len(src)
  BY PutEndInd
<1>2. out' = out /\ buffer' = buffer /\ dest' = dest /\ done = Len(src)
  BY DEF PutEnd, rvars
<1>3. /\ content \in Seq(Data) /\ Len(content) = kfifo_len
      /\ \A i \in 1 .. kfifo_len : content[i] = buffer[Place(out, i - 1)]
  BY ContentIsSeq
<1>4. content' = [i \in 1 .. kfifo_len + Len(src) |-> buffer[Place(out, i - 1)]]
  BY <1>1, <1>2 DEF content, Place, Masked
<1>5. src \in Seq(Data)
  BY DEF IndInv, TypeOK
<1>6. ASSUME NEW i \in 1 .. kfifo_len + Len(src)
      PROVE  buffer[Place(out, i - 1)] = (content \o src)[i]
  <2>1. CASE i <= kfifo_len
    BY <1>3, <1>5, <2>1, Lengths
  <2>2. CASE ~(i <= kfifo_len)
    <3> DEFINE j == i - 1 - kfifo_len
    <3>1. j \in 0 .. Len(src) - 1 /\ j \in Nat /\ kfifo_len + j < Size /\ i - 1 = kfifo_len + j
      BY <2>2, Lengths, Sizes
    <3> HIDE DEF j
    <3>2. Place(in, j) = Place(out, i - 1)
      BY <3>1, Facing, Lengths
    <3>3. buffer[Place(in, j)] = src[j + 1]
      BY <1>2, <3>1 DEF IndInv, CopiesAgree
    <3>4. (content \o src)[i] = src[j + 1]
      <4>1. /\ Len(content) \in Nat /\ Len(src) \in Nat /\ i \in Len(content) + 1 .. Len(content) + Len(src)
            /\ i - Len(content) = j + 1
        BY <1>3, <2>2, <3>1, Lengths
      <4> HIDE DEF content
      <4> QED BY <1>3, <1>5, <4>1, ConcatProperties
    <3> QED BY <3>2, <3>3, <3>4
  <2> QED BY <2>1, <2>2
<1>7. content \o src \in Seq(Data) /\ Len(content \o src) = kfifo_len + Len(src)
  BY <1>3, <1>5
<1>8. content' = content \o src
  <2>1. content' \in Seq(Data) /\ Len(content') = kfifo_len'
    BY ContentIsSeqPrimed
  <2>2. \A i \in 1 .. kfifo_len + Len(src) : content'[i] = (content \o src)[i]
    BY <1>4, <1>6
  <2> DEFINE c == content'
             d == content \o src
  <2> HIDE DEF c, d
  <2>3. /\ c \in Seq(Data) /\ d \in Seq(Data) /\ Len(c) = Len(d)
        /\ \A i \in 1 .. Len(d) : c[i] = d[i]
    BY <1>1, <1>7, <2>1, <2>2 DEF c, d
  <2>4. c = d
    BY <2>3
  <2> QED BY <2>4 DEF c, d
<1>9. Len(content) + Len(src) <= Size
  BY <1>3, Lengths
<1>10. src \in [1 .. Len(src) -> Data] /\ Len(src) \in 0 .. Size
  BY <1>5, Lengths, Sizes
<1> QED BY <1>2, <1>8, <1>9, <1>10 DEF Bytes!Put

(* What is left of a sequence without its first n elements.                *)
LEMMA SuffixOf ==
  ASSUME NEW c \in Seq(Data), NEW n \in 0 .. Len(c)
  PROVE  LET rest == SubSeq(c, n + 1, Len(c))
         IN /\ rest \in Seq(Data) /\ Len(rest) = Len(c) - n
            /\ \A i \in 1 .. Len(c) - n : rest[i] = c[n + i]
OBVIOUS

(* The end of a get takes the oldest bytes.                                *)
LEMMA GetEndTakes ==
  ASSUME IndInv, IndInv', GetEnd
  PROVE  Bytes!Get(len) /\ len \in 0 .. Len(content)
<1>1. kfifo_len' = kfifo_len - len
  BY GetEndInd
<1>2. out' = Unsigned(out + len) /\ buffer' = buffer /\ dest' = got /\ Len(got) = len
  BY DEF GetEnd
<1>3. /\ content \in Seq(Data) /\ Len(content) = kfifo_len
      /\ \A i \in 1 .. kfifo_len : content[i] = buffer[Place(out, i - 1)]
  BY ContentIsSeq
<1>4. got \in Seq(Data) /\ \A i \in 1 .. len : got[i] = content[i]
  <2>1. got \in Seq(Data)
    BY DEF IndInv, TypeOK
  <2>2. \A i \in 1 .. len : got[i] = buffer[Place(out, i - 1)]
    BY <1>2 DEF IndInv, CopiesAgree
  <2>3. \A i \in 1 .. len : i \in 1 .. kfifo_len
    BY Lengths
  <2> QED BY <1>3, <2>1, <2>2, <2>3
<1>5. dest' = SubSeq(content, 1, len)
  <2>1. SubSeq(content, 1, len) \in Seq(Data) /\ Len(SubSeq(content, 1, len)) = len
    BY <1>3, Lengths
  <2>2. \A i \in 1 .. len : SubSeq(content, 1, len)[i] = content[i]
    BY <1>3, Lengths
  <2> QED BY <1>2, <1>4, <2>1, <2>2, Lengths
<1> DEFINE rest == SubSeq(content, len + 1, Len(content))
<1>6. /\ rest \in Seq(Data) /\ Len(rest) = kfifo_len - len
      /\ \A i \in 1 .. kfifo_len - len : rest[i] = content[len + i]
  <2>1. len \in 0 .. Len(content)
    BY <1>3, Lengths
  <2>2. /\ rest \in Seq(Data) /\ Len(rest) = Len(content) - len
        /\ \A i \in 1 .. Len(content) - len : rest[i] = content[len + i]
    BY <1>3, <2>1, SuffixOf
  <2> QED BY <1>3, <2>2
<1>7. /\ content' \in Seq(Data) /\ Len(content') = kfifo_len - len
      /\ \A i \in 1 .. kfifo_len - len : content'[i] = buffer[Place(out', i - 1)]
  BY <1>1, <1>2, ContentIsSeqPrimed
<1>8. ASSUME NEW i \in 1 .. kfifo_len - len
      PROVE  content'[i] = rest[i]
  <2>1. i - 1 \in Nat /\ len + (i - 1) < Size /\ len + i \in 1 .. kfifo_len
        /\ (len + i) - 1 = len + (i - 1)
    <3> HIDE DEF rest
    <3>1. kfifo_len \in Nat /\ len \in Nat /\ len <= kfifo_len /\ kfifo_len <= Size
      BY Lengths
    <3> QED BY <3>1, Sizes
  <2>2. Place(out', i - 1) = Place(out, (len + i) - 1)
    BY <1>2, <2>1, PlaceShift, Lengths
  <2> QED BY <1>3, <1>6, <1>7, <2>1, <2>2
<1>9. content' = rest
  <2> DEFINE c == content'
             d == rest
  <2> HIDE DEF c, d, rest
  <2>1. /\ c \in Seq(Data) /\ d \in Seq(Data) /\ Len(c) = Len(d)
        /\ \A i \in 1 .. Len(d) : c[i] = d[i]
    BY <1>6, <1>7, <1>8 DEF c, d
  <2>2. c = d
    BY <2>1
  <2> QED BY <2>2 DEF c, d
<1> QED BY <1>3, <1>5, <1>9, Lengths DEF Bytes!Get

(* Every step is a step of ByteFifo or leaves the content alone.           *)
LEMMA StepRefines ==
  IndInv /\ IndInv' /\ [Next]_vars => [Bytes!Next]_<<content, dest>>
<1> SUFFICES ASSUME IndInv, IndInv', [Next]_vars
             PROVE  [Bytes!Next]_<<content, dest>>
  OBVIOUS
<1>1. CASE (\E s \in Strings : PutTest(s)) \/ PutAgain
  <2>1. content' = content
    BY <1>1 DEF PutTest, PutAgain, content, kfifo_len, Place, Masked
  <2>2. dest' = dest
    BY <1>1 DEF PutTest, PutAgain, rvars
  <2> QED BY <2>1, <2>2
<1>2. CASE PutByte
  <2>1. in' = in /\ out' = out /\ dest' = dest
        /\ buffer' = [buffer EXCEPT ![Place(in, done)] = src[done + 1]] /\ done < Len(src)
    BY <1>2 DEF PutByte, rvars
  <2>2. done \in Nat /\ kfifo_len + done < Size /\ out \in Nat
    <3>1. done \in 0 .. Len(src)
      BY DEF IndInv, TypeOK
    <3> QED BY <2>1, <3>1, Lengths, Sizes
  <2>3. Place(in, done) = Place(out, kfifo_len + done)
    BY <2>2, Facing, Lengths
  <2>4. ASSUME NEW i \in 1 .. kfifo_len
        PROVE  buffer'[Place(out, i - 1)] = buffer[Place(out, i - 1)]
    <3>1. i - 1 \in 0 .. Size - 1 /\ kfifo_len + done \in 0 .. Size - 1 /\ i - 1 # kfifo_len + done
      BY <2>2, Lengths, Sizes
    <3>2. Place(out, i - 1) # Place(in, done) /\ Place(out, i - 1) \in 0 .. Size - 1
      <4>1. Place(out, i - 1) # Place(out, kfifo_len + done)
        BY <2>2, <3>1, PlaceInjective
      <4>2. Place(out, i - 1) \in 0 .. Size - 1
        BY <2>2, <3>1, PlaceMasks
      <4> QED BY <2>3, <4>1, <4>2
    <3> QED BY <2>1, <3>2 DEF IndInv, TypeOK
  <2>5. content' = content
    BY <2>1, <2>4, ContentStays
  <2> QED BY <2>1, <2>5
<1>3. CASE PutEnd
  <2>1. Bytes!Put(src) /\ src \in [1 .. Len(src) -> Data] /\ Len(src) \in 0 .. Size
    BY <1>3, PutEndAppends
  <2> QED BY <2>1 DEF Bytes!Next
<1>4. CASE (\E n \in 0 .. MaxLen : GetTest(n)) \/ GetAgain
  <2>1. content' = content
    BY <1>4 DEF GetTest, GetAgain, content, kfifo_len, Place, Masked
  <2>2. dest' = dest
    BY <1>4 DEF GetTest, GetAgain
  <2> QED BY <2>1, <2>2
<1>5. CASE GetByte
  <2>1. content' = content
    BY <1>5 DEF GetByte, content, kfifo_len, Place, Masked
  <2>2. dest' = dest
    BY <1>5 DEF GetByte
  <2> QED BY <2>1, <2>2
<1>6. CASE GetEnd
  <2>1. Bytes!Get(len) /\ len \in 0 .. Len(content)
    BY <1>6, GetEndTakes
  <2> QED BY <2>1 DEF Bytes!Next
<1>7. CASE kfifo_reset
  <2>1. kfifo_len' = 0
    BY <1>7, ResetInd
  <2>2. content' = << >>
    BY <2>1 DEF content
  <2>3. dest' = dest
    BY <1>7 DEF kfifo_reset, rvars
  <2> QED BY <2>2, <2>3 DEF Bytes!Next, Bytes!Clear
<1>8. CASE UNCHANGED vars
  BY <1>8 DEF vars, rvars, content, kfifo_len, Place, Masked
<1> QED BY <1>1, <1>2, <1>3, <1>4, <1>5, <1>6, <1>7, <1>8 DEF Next

(* The lock-free ring is a queue of bytes, as the comments of __kfifo_put  *)
(* and __kfifo_get promise one writer and one reader, for every size and   *)
(* every wrap of the indices.                                              *)
THEOREM RingImplementsBytes == Spec => ImplementsBytes
<1>1. Init => Bytes!Init
  <2> SUFFICES ASSUME Init PROVE Bytes!Init
    OBVIOUS
  <2>1. kfifo_len = 0
    BY Distance, Sizes DEF Init, kfifo_len
  <2> QED BY <2>1 DEF Init, Bytes!Init, content
<1> QED BY <1>1, InitInd, StepInd, StepRefines, PTL DEF Spec, ImplementsBytes, Bytes!Spec
==============================================================================
