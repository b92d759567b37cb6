-------------------------- MODULE PersistenceProofs --------------------------
(* Proofs about Persistence, for every size of the sectors, every number    *)
(* of heads and every length of the texts.                                  *)
EXTENDS Persistence, TLAPS, SequenceTheorems, WellFoundedInduction

(***************************************************************************)
(* A set of numbers that is not empty has a least element.                 *)
(***************************************************************************)
LEMMA LeastNumber ==
  ASSUME NEW S \in SUBSET Nat, S # {}
  PROVE  \E i \in S : \A j \in S : i <= j
<1>1. PICK x \in S : \A y \in S : ~(<<y, x>> \in OpToRel(<, Nat))
  BY NatLessThanWellFounded, WFMin
<1>2. \A y \in S : ~(y < x)
  BY <1>1 DEF OpToRel
<1>3. QED
  BY <1>2

(***************************************************************************)
(* The inductive invariant.                                                *)
(*                                                                         *)
(* Configurations the program arrives at: the next text starts inside the  *)
(* section, and what is erased ends with a sector.                         *)
(***************************************************************************)
Slots == 0 .. HeadSlots - 1
Marks == {Erased, Torn, Mixed}
GoodConfigs ==
  {c \in Configs : c.write <= LogEnd /\ c.erase \in {Sector4, LogEnd, LogEnd + 1}}

Programs == {f \in [op : {"program"}, from : Addresses, n : Nat] : f.from + f.n - 1 <= LogEnd}
Erasures == [op : {"erase"}, addr : Addresses]
HeadErasures == [op : {"erase_heads"}]
Marking == [op : {"invalidate", "magic"}, slot : Slots]
Filling == [op : {"fields"}, slot : Slots, config : GoodConfigs]
Operations == Programs \cup Erasures \cup HeadErasures \cup Marking \cup Filling

GoodHeads == [config : GoodConfigs \cup Marks, magic : BOOLEAN, valid : BOOLEAN]

Types ==
  /\ programmed \subseteq 0 .. LogEnd
  /\ heads \in [Slots -> GoodHeads]
  /\ config \in GoodConfigs
  /\ head_index \in 0 .. HeadSlots
  /\ todo \in Seq(Operations)
  /\ up \in BOOLEAN
  /\ twice \subseteq 0 .. LogEnd
  /\ around \in BOOLEAN

(* The same configuration, but for the cursor of the reader.               *)
SameBut(c, d) ==
  /\ c \in Configs
  /\ c.write = d.write /\ c.start = d.start /\ c.end = d.end /\ c.erase = d.erase

(* Operations on heads come last: the head before is made invalid, then    *)
(* the fields and the magic number of head k - 1 are programmed, or the    *)
(* heads are erased when there is no room (k = 0).                         *)
Shape(s, k, c) ==
  \A p \in 1 .. Len(s) :
    /\ s[p].op = "magic" =>
         /\ p = Len(s) /\ k >= 1 /\ s[p].slot = k - 1
         /\ p > 1 => s[p - 1].op = "fields"
    /\ s[p].op = "fields" =>
         /\ p = Len(s) - 1 /\ k >= 1 /\ s[p].slot = k - 1 /\ SameBut(s[p].config, c)
         /\ s[p + 1].op = "magic"
         /\ p > 1 /\ k >= 2 => s[p - 1].op = "invalidate"
    /\ s[p].op = "invalidate" =>
         \/ /\ p = Len(s) - 2 /\ k >= 2 /\ s[p].slot = k - 2
            /\ s[p + 1].op = "fields"
         \/ /\ p = Len(s) - 1 /\ k = 0 /\ s[p].slot = HeadSlots - 1
            /\ s[p + 1].op = "erase_heads"

(* A magic number vouches for fields that were programmed completely,      *)
(* before it is there and after.                                           *)
Vouched(i) == heads[i].config \notin {Erased, Torn}

MagicVouches ==
  /\ \A i \in Slots : heads[i].magic => Vouched(i)
  /\ todo # << >> /\ todo[1].op = "magic" => Vouched(todo[1].slot)

(* The heads in order, up to the first erasure of sector 5.                *)
Dead(i) == ~(heads[i].magic /\ heads[i].valid)

(* What a restart relies on: behind a valid head the space is blank.       *)
BlankBehind ==
  heads[0].magic =>
    \A i, j \in Slots : ~Dead(i) /\ i < j => heads[j] = Blank

(* The heads below low are not valid, from high on they are blank.         *)
Ordered(low, high) ==
  \A i \in Slots : (i < low => Dead(i)) /\ (i >= high => heads[i] = Blank)

Erasing(p) == todo[p].op = "erase_heads"
Settled == \A p \in 1 .. Len(todo) : ~Erasing(p)
Filled(k) == \A i \in Slots : i = k - 1 => SameBut(heads[i].config, config)

(* No head is being written.                                               *)
AtRest ==
  LET n == Len(todo)
      k == head_index
  IN ~(n > 0 /\ todo[n].op = "magic") /\ (heads[0].magic \/ k = 0)
       => Ordered(k - 1, k) /\ Filled(k)

(* Only the magic number is missing.                                       *)
AtMagic ==
  LET n == Len(todo)
      k == head_index
  IN n = 1 /\ todo[n].op = "magic" /\ (heads[0].magic \/ k = 1)
       => Ordered(k - 1, k) /\ Filled(k)

(* The fields are missing, and the head before may still be valid.         *)
BeforeFields ==
  LET n == Len(todo)
      k == head_index
  IN n > 1 /\ todo[n].op = "magic" /\ (heads[0].magic \/ k = 1)
       => /\ Ordered(k - 2, k - 1)
          /\ todo[1].op = "fields" => Ordered(k - 1, k - 1)

(* The space for heads is full and is going to be erased.                  *)
BeforeErasure ==
  LET n == Len(todo)
  IN n > 0 /\ Erasing(n) /\ head_index = 0 /\ (\A p \in 1 .. n - 1 : ~Erasing(p))
     /\ heads[0].magic
       => \A i \in Slots : i < HeadSlots - 1 => Dead(i)

HeadsInOrder ==
  ~around => /\ BlankBehind
             /\ up => /\ Settled => AtRest /\ AtMagic /\ BeforeFields
                      /\ BeforeErasure

FlashInv ==
  /\ Types
  /\ ~up => todo = << >>
  /\ Shape(todo, head_index, config)
  /\ MagicVouches
  /\ HeadsInOrder

(***************************************************************************)
(* The operators the model is built from.                                  *)
(***************************************************************************)
LEMMA Sizes ==
  /\ LogEnd \in Nat \ {0} /\ Sector4 \in Nat /\ Sector4 >= 1 /\ Sector4 <= LogEnd
  /\ HeadSlots \in Nat /\ HeadSlots >= 1 /\ 0 \in Slots
  /\ MaxLen \in Nat /\ Sector5 \in Nat /\ MaxLen <= Sector5 /\ Sector5 <= LogEnd
  BY FlashAssumption DEF LogEnd, Slots

LEMMA DefaultGood == Default \in GoodConfigs
  BY Sizes DEF Default, GoodConfigs, Configs, Addresses

LEMMA MarksApart ==
  /\ Erased # Torn /\ Erased # Mixed /\ Torn # Mixed
  /\ \A c \in Configs : c \notin Marks
  BY MarksAssumption DEF Marks

LEMMA SameButReflexive == \A c \in Configs : SameBut(c, c)
  BY DEF SameBut

(* What an operation is, told from its name.                               *)
LEMMA OperationKinds ==
  ASSUME NEW f \in Operations
  PROVE  /\ f.op = "program" => f \in Programs
         /\ f.op = "erase" => f \in Erasures
         /\ f.op = "erase_heads" => f \in HeadErasures
         /\ f.op \in {"invalidate", "magic"} => f \in Marking
         /\ f.op = "fields" => f \in Filling
  BY DEF Operations, Programs, Erasures, HeadErasures, Marking, Filling

LEMMA ErasureOps ==
  /\ EraseHeads \in Operations /\ EraseHeads.op = "erase_heads"
  /\ \A a \in Addresses : Erase(a) \in Operations /\ Erase(a).op = "erase"
<1>1. EraseHeads \in HeadErasures
  BY DEF EraseHeads, HeadErasures
<1>2. EraseHeads.op = "erase_heads"
  BY DEF EraseHeads
<1>3. \A a \in Addresses : Erase(a) \in Erasures /\ Erase(a).op = "erase"
  BY DEF Erase, Erasures
<1>4. QED
  BY <1>1, <1>2, <1>3 DEF Operations

LEMMA ProgramOps ==
  ASSUME NEW a \in Addresses, NEW n \in Nat, a + n - 1 <= LogEnd
  PROVE  Program(a, n) \in Operations /\ Program(a, n).op = "program"
<1>1. Program(a, n) \in Programs
  BY DEF Program, Programs
<1>2. QED
  BY <1>1 DEF Program, Operations

LEMMA HeadOps ==
  ASSUME NEW i \in Slots, NEW c \in GoodConfigs
  PROVE  /\ Invalidate(i) \in Operations /\ HeadMagic(i) \in Operations
         /\ HeadFields(i, c) \in Operations
         /\ Invalidate(i).op = "invalidate" /\ Invalidate(i).slot = i
         /\ HeadMagic(i).op = "magic" /\ HeadMagic(i).slot = i
         /\ HeadFields(i, c).op = "fields" /\ HeadFields(i, c).slot = i
         /\ HeadFields(i, c).config = c
<1>1. Invalidate(i) \in Marking /\ HeadMagic(i) \in Marking
  BY DEF Invalidate, HeadMagic, Marking
<1>2. HeadFields(i, c) \in Filling
  BY DEF HeadFields, Filling
<1>3. QED
  BY <1>1, <1>2 DEF Operations, Invalidate, HeadMagic, HeadFields

LEMMA Pairs ==
  ASSUME NEW S, NEW a \in S, NEW b \in S
  PROVE  LET s == <<a, b>>
         IN s \in Seq(S) /\ Len(s) = 2 /\ s[1] = a /\ s[2] = b
  OBVIOUS

LEMMA Singles ==
  ASSUME NEW S, NEW a \in S
  PROVE  LET s == <<a>>
         IN s \in Seq(S) /\ Len(s) = 1 /\ s[1] = a
  OBVIOUS

(* The flash operations of a head: well-typed, and in order.               *)
LEMMA FlushShape ==
  ASSUME NEW i \in 0 .. HeadSlots, NEW c \in GoodConfigs
  PROVE  LET F == _flush_head_index(i, c)
         IN /\ F \in Seq(Operations) /\ Len(F) >= 1
            /\ Shape(F, Flushed(i), c)
            /\ Flushed(i) \in 0 .. HeadSlots
            /\ F[1].op # "magic" /\ (i > 0 => F[1].op = "invalidate")
            /\ i < HeadSlots => F[Len(F)].op = "magic" /\ Flushed(i) = i + 1
            /\ i = HeadSlots => F[Len(F)].op = "erase_heads" /\ Flushed(i) = 0
<1> DEFINE A == IF i > 0 THEN <<Invalidate(i - 1)>> ELSE << >>
           B == IF __is_valid_head_index(i) THEN <<HeadFields(i, c), HeadMagic(i)>>
                                            ELSE <<EraseHeads>>
           F == _flush_head_index(i, c)
<1> SUFFICES /\ F \in Seq(Operations) /\ Len(F) >= 1
             /\ Shape(F, Flushed(i), c)
             /\ Flushed(i) \in 0 .. HeadSlots
             /\ F[1].op # "magic" /\ (i > 0 => F[1].op = "invalidate")
             /\ i < HeadSlots => F[Len(F)].op = "magic" /\ Flushed(i) = i + 1
             /\ i = HeadSlots => F[Len(F)].op = "erase_heads" /\ Flushed(i) = 0
  OBVIOUS
<1>1. c \in Configs /\ SameBut(c, c)
  BY SameButReflexive DEF GoodConfigs
<1>2. F = A \o B
  BY DEF _flush_head_index
<1>3. A \in Seq(Operations) /\ (i > 0 => Len(A) = 1 /\ A[1] = Invalidate(i - 1)) /\ (i = 0 => Len(A) = 0)
  <2>1. CASE i > 0
    <3>1. i - 1 \in Slots
      BY <2>1, Sizes DEF Slots
    <3>2. QED
      BY <2>1, <3>1, HeadOps, Singles
  <2>2. CASE i = 0
    BY <2>2
  <2>3. QED
    BY <2>1, <2>2, Sizes
<1>4. /\ B \in Seq(Operations)
      /\ i < HeadSlots => Len(B) = 2 /\ B[1] = HeadFields(i, c) /\ B[2] = HeadMagic(i)
      /\ i = HeadSlots => Len(B) = 1 /\ B[1] = EraseHeads
  <2>1. CASE i < HeadSlots
    <3>1. i \in Slots /\ __is_valid_head_index(i)
      BY <2>1, Sizes DEF Slots, __is_valid_head_index
    <3>2. QED
      BY <2>1, <3>1, HeadOps, Pairs
  <2>2. CASE i = HeadSlots
    <3>1. ~__is_valid_head_index(i)
      BY <2>2, Sizes DEF __is_valid_head_index
    <3>2. QED
      <4>1. B = <<EraseHeads>>
        BY <3>1
      <4>2. B \in Seq(Operations) /\ Len(B) = 1 /\ B[1] = EraseHeads
        BY <4>1, ErasureOps, Singles, Zenon
      <4>3. ~(i < HeadSlots)
        BY <2>2, Sizes
      <4>4. QED
        BY <4>2, <4>3, Zenon
  <2>3. QED
    BY <2>1, <2>2, Sizes
<1>5. /\ i < HeadSlots => Flushed(i) = i + 1
      /\ i = HeadSlots => Flushed(i) = 0
  BY Sizes DEF Flushed, __is_valid_head_index
<1>0. /\ A \in Seq(Operations) /\ B \in Seq(Operations)
      /\ Len(A) = IF i > 0 THEN 1 ELSE 0
      /\ Len(B) = IF i < HeadSlots THEN 2 ELSE 1
  <2>1. (i > 0 \/ i = 0) /\ (i < HeadSlots \/ i = HeadSlots) /\ ~(i > 0 /\ i = 0)
    BY Sizes
  <2>2. QED
    BY <1>3, <1>4, <2>1, Zenon
<1> HIDE DEF A, B, F
<1>6. /\ F \in Seq(Operations) /\ Len(F) = Len(A) + Len(B)
      /\ \A p \in 1 .. Len(A) + Len(B) : F[p] = IF p <= Len(A) THEN A[p] ELSE B[p - Len(A)]
  BY <1>0, <1>2, ConcatProperties
<1>7. /\ i > 0 => Invalidate(i - 1).op = "invalidate" /\ Invalidate(i - 1).slot = i - 1
      /\ i < HeadSlots => /\ HeadMagic(i).op = "magic" /\ HeadMagic(i).slot = i
                          /\ HeadFields(i, c).op = "fields" /\ HeadFields(i, c).slot = i
                          /\ HeadFields(i, c).config = c
      /\ EraseHeads.op = "erase_heads"
  <2>1. (i > 0 => i - 1 \in Slots) /\ (i < HeadSlots => i \in Slots)
    BY Sizes DEF Slots
  <2>2. QED
    BY <2>1, HeadOps, ErasureOps
<1>8. CASE i = 0
  <2>1. i < HeadSlots /\ ~(i > 0) /\ Len(A) = 0 /\ Len(F) = 2
    BY <1>8, <1>0, <1>6, Sizes
  <2>2. F[1] = B[1] /\ F[2] = B[2]
    BY <2>1, <1>0, <1>6
  <2>3. /\ F[1].op = "fields" /\ F[1].slot = i /\ F[1].config = c
        /\ F[2].op = "magic" /\ F[2].slot = i
    BY <2>1, <2>2, <1>4, <1>7, Zenon
  <2>4. Shape(F, i + 1, c)
    BY <1>1, <1>8, <2>1, <2>3 DEF Shape
  <2>5. /\ Len(F) >= 1 /\ i + 1 \in 0 .. HeadSlots /\ F[1].op # "magic"
        /\ ~(i = HeadSlots)
    BY <1>8, <2>1, <2>3, Sizes
  <2>6. QED
    BY <1>5, <1>6, <2>1, <2>3, <2>4, <2>5, Zenon
<1>9. CASE i > 0 /\ i < HeadSlots
  <2>1. Len(A) = 1 /\ Len(F) = 3
    BY <1>9, <1>0, <1>6
  <2>2. F[1] = A[1] /\ F[2] = B[1] /\ F[3] = B[2]
    BY <2>1, <1>0, <1>6, <1>9
  <2>3. /\ F[1].op = "invalidate" /\ F[1].slot = i - 1
        /\ F[2].op = "fields" /\ F[2].slot = i /\ F[2].config = c
        /\ F[3].op = "magic" /\ F[3].slot = i
    BY <2>2, <1>3, <1>4, <1>7, <1>9, Zenon
  <2>4. Shape(F, i + 1, c)
    <3>1. i \in Nat /\ 1 .. Len(F) = {1, 2, 3}
      BY <2>1
    <3>2. QED
      BY <1>1, <1>9, <2>1, <2>3, <3>1 DEF Shape
  <2>5. /\ Len(F) >= 1 /\ i + 1 \in 0 .. HeadSlots /\ F[1].op # "magic"
        /\ ~(i = HeadSlots)
    BY <1>9, <2>1, <2>3, Sizes
  <2>6. QED
    BY <1>5, <1>6, <1>9, <2>1, <2>3, <2>4, <2>5, Zenon
<1>10. CASE i = HeadSlots
  <2>1. i > 0 /\ Len(A) = 1 /\ Len(F) = 2
    BY <1>10, <1>0, <1>6, Sizes
  <2>2. F[1] = A[1] /\ F[2] = B[1]
    BY <2>1, <1>0, <1>6, <1>10, Sizes
  <2>3. F[1].op = "invalidate" /\ F[1].slot = i - 1 /\ F[2].op = "erase_heads"
    BY <2>1, <2>2, <1>3, <1>4, <1>7, <1>10, Zenon
  <2>7. F[1].op = "invalidate" /\ F[1].slot = HeadSlots - 1 /\ F[2].op = "erase_heads"
    BY <1>10, <2>3, Zenon
  <2>4. Shape(F, 0, c)
    BY <2>1, <2>7, Sizes DEF Shape
  <2>5. /\ Len(F) >= 1 /\ 0 \in 0 .. HeadSlots /\ F[1].op # "magic"
        /\ ~(i < HeadSlots)
    BY <1>10, <2>1, <2>7, Sizes
  <2>6. QED
    BY <1>5, <1>6, <1>10, <2>1, <2>3, <2>4, <2>5, Zenon
<1>11. QED
  BY <1>8, <1>9, <1>10, Sizes

(* Operations that leave the heads alone, or erase them, may precede.      *)
Harmless(s) == \A p \in 1 .. Len(s) : s[p].op \in {"program", "erase", "erase_heads"}

Shifted(p, l, m, n, q) ==
  /\ q = 1 \/ (q > 1 /\ q - 1 \in 1 .. n /\ p - 1 = m + (q - 1))
  /\ q < n => q + 1 \in 1 .. n /\ p + 1 = m + (q + 1)
  /\ q = n => p = l
  /\ q = n - 1 => p = l - 1 /\ q < n
  /\ q = n - 2 => p = l - 2 /\ q < n

LEMMA Shift ==
  ASSUME NEW m \in Nat, NEW n \in Nat, NEW q \in 1 .. n
  PROVE  Shifted(m + q, m + n, m, n, q)
  BY DEF Shifted

LEMMA ShapeBehind ==
  ASSUME NEW s \in Seq(Operations), NEW r \in Seq(Operations), NEW k \in Nat, NEW c,
         Harmless(s), Shape(r, k, c), Len(r) >= 1, r[1].op # "magic",
         k < 2 \/ r[1].op = "invalidate"
  PROVE  /\ s \o r \in Seq(Operations) /\ Shape(s \o r, k, c)
         /\ Len(s \o r) = Len(s) + Len(r)
         /\ \A p \in 1 .. Len(s) : (s \o r)[p] = s[p]
         /\ \A p \in 1 .. Len(r) : (s \o r)[Len(s) + p] = r[p]
<1> DEFINE t == s \o r
<1>1. /\ t \in Seq(Operations) /\ Len(t) = Len(s) + Len(r)
      /\ \A p \in 1 .. Len(s) + Len(r) : t[p] = IF p <= Len(s) THEN s[p] ELSE r[p - Len(s)]
  BY ConcatProperties
<1>2. Len(s) \in Nat /\ Len(r) \in Nat
  BY LenProperties
<1> HIDE DEF t
<1>3. /\ \A p \in 1 .. Len(s) : t[p] = s[p]
      /\ \A p \in 1 .. Len(r) : t[Len(s) + p] = r[p]
  <2>1. ASSUME NEW p \in 1 .. Len(r)
        PROVE  t[Len(s) + p] = r[p]
    <3>1. /\ Len(s) + p \in 1 .. Len(s) + Len(r) /\ ~(Len(s) + p <= Len(s))
          /\ Len(s) + p - Len(s) = p
      BY <1>2
    <3>2. QED
      BY <1>1, <3>1
  <2>2. QED
    BY <1>1, <1>2, <2>1
<1>4. ASSUME NEW p \in 1 .. Len(t)
      PROVE  /\ t[p].op = "magic" =>
                  /\ p = Len(t) /\ k >= 1 /\ t[p].slot = k - 1
                  /\ p > 1 => t[p - 1].op = "fields"
             /\ t[p].op = "fields" =>
                  /\ p = Len(t) - 1 /\ k >= 1 /\ t[p].slot = k - 1 /\ SameBut(t[p].config, c)
                  /\ t[p + 1].op = "magic"
                  /\ p > 1 /\ k >= 2 => t[p - 1].op = "invalidate"
             /\ t[p].op = "invalidate" =>
                  \/ /\ p = Len(t) - 2 /\ k >= 2 /\ t[p].slot = k - 2
                     /\ t[p + 1].op = "fields"
                  \/ /\ p = Len(t) - 1 /\ k = 0 /\ t[p].slot = HeadSlots - 1
                     /\ t[p + 1].op = "erase_heads"
  <2>1. CASE p <= Len(s)
    <3>1. t[p].op \in {"program", "erase", "erase_heads"}
      BY <1>1, <1>2, <2>1 DEF Harmless
    <3>2. QED
      BY <3>1
  <2>2. CASE p > Len(s)
    <3> DEFINE q == p - Len(s)
    <3>4. q \in 1 .. Len(r) /\ p = Len(s) + q
      BY <1>1, <1>2, <2>2
    <3> HIDE DEF q
    <3>5. Shifted(p, Len(t), Len(s), Len(r), q)
      <4>1. Len(t) = Len(s) + Len(r)
        BY <1>1
      <4>2. Shifted(Len(s) + q, Len(s) + Len(r), Len(s), Len(r), q)
        BY <1>2, <3>4, Shift, Zenon
      <4>3. QED
        BY <3>4, <4>1, <4>2, Zenon
    <3>1. /\ t[p] = r[q]
          /\ q = 1 \/ t[p - 1] = r[q - 1]
          /\ q < Len(r) => t[p + 1] = r[q + 1]
      BY <1>3, <3>4, <3>5, Zenon DEF Shifted
    <3>2. /\ r[q].op = "magic" =>
               /\ q = Len(r) /\ k >= 1 /\ r[q].slot = k - 1
               /\ q > 1 => r[q - 1].op = "fields"
          /\ r[q].op = "fields" =>
               /\ q = Len(r) - 1 /\ k >= 1 /\ r[q].slot = k - 1 /\ SameBut(r[q].config, c)
               /\ r[q + 1].op = "magic"
               /\ q > 1 /\ k >= 2 => r[q - 1].op = "invalidate"
          /\ r[q].op = "invalidate" =>
               \/ /\ q = Len(r) - 2 /\ k >= 2 /\ r[q].slot = k - 2
                  /\ r[q + 1].op = "fields"
               \/ /\ q = Len(r) - 1 /\ k = 0 /\ r[q].slot = HeadSlots - 1
                  /\ r[q + 1].op = "erase_heads"
      BY <3>4 DEF Shape
    <3>3. (q = 1 => r[q].op # "magic") /\ (q = 1 /\ k >= 2 => r[q].op # "fields")
      BY <3>4
    <3>6. QED
      BY <3>1, <3>2, <3>3, <3>5, Zenon DEF Shifted
  <2>3. QED
    BY <1>1, <1>2, <2>1, <2>2
<1>5. Shape(t, k, c)
  BY <1>4 DEF Shape
<1>6. QED
  BY <1>1, <1>3, <1>5 DEF t

(* What is left of operations in order is in order.                        *)
LEMMA ShapeTail ==
  ASSUME NEW s \in Seq(Operations), s # << >>, NEW k, NEW c, Shape(s, k, c)
  PROVE  /\ Tail(s) \in Seq(Operations) /\ Len(Tail(s)) = Len(s) - 1 /\ Len(s) \in Nat \ {0}
         /\ \A p \in 1 .. Len(s) - 1 : Tail(s)[p] = s[p + 1]
         /\ Shape(Tail(s), k, c)
<1> DEFINE t == Tail(s)
<1>1. /\ t \in Seq(Operations) /\ Len(t) = Len(s) - 1 /\ Len(s) \in Nat \ {0}
      /\ \A p \in 1 .. Len(s) - 1 : t[p] = s[p + 1]
  BY HeadTailProperties, LenProperties, EmptySeq
<1> HIDE DEF t
<1>2. ASSUME NEW p \in 1 .. Len(t)
      PROVE  /\ t[p] = s[p + 1] /\ p + 1 \in 1 .. Len(s)
             /\ p > 1 => t[p - 1] = s[p]
             /\ p < Len(t) => t[p + 1] = s[p + 2]
  BY <1>1
<1>3. Shape(t, k, c)
  <2>1. SUFFICES ASSUME NEW p \in 1 .. Len(t)
                 PROVE  /\ t[p].op = "magic" =>
                             /\ p = Len(t) /\ k >= 1 /\ t[p].slot = k - 1
                             /\ p > 1 => t[p - 1].op = "fields"
                        /\ t[p].op = "fields" =>
                             /\ p = Len(t) - 1 /\ k >= 1 /\ t[p].slot = k - 1
                             /\ SameBut(t[p].config, c)
                             /\ t[p + 1].op = "magic"
                             /\ p > 1 /\ k >= 2 => t[p - 1].op = "invalidate"
                        /\ t[p].op = "invalidate" =>
                             \/ /\ p = Len(t) - 2 /\ k >= 2 /\ t[p].slot = k - 2
                                /\ t[p + 1].op = "fields"
                             \/ /\ p = Len(t) - 1 /\ k = 0 /\ t[p].slot = HeadSlots - 1
                                /\ t[p + 1].op = "erase_heads"
    BY DEF Shape
  <2>2. PICK q \in 1 .. Len(s) : q = p + 1
    BY <1>2
  <2>3. t[p] = s[q] /\ p = q - 1 /\ Len(t) = Len(s) - 1 /\ Len(s) \in Nat /\ q > 1
    BY <1>1, <1>2, <2>2
  <2>4. (p > 1 => t[p - 1] = s[q - 1]) /\ (q < Len(s) => t[p + 1] = s[q + 1])
    BY <1>1, <1>2, <2>2
  <2>5. CASE s[q].op = "magic"
    <3>1. q = Len(s) /\ k >= 1 /\ s[q].slot = k - 1 /\ s[q - 1].op = "fields"
      BY <2>3, <2>5 DEF Shape
    <3>2. QED
      BY <2>3, <2>4, <2>5, <3>1
  <2>6. CASE s[q].op = "fields"
    <3>1. /\ q = Len(s) - 1 /\ k >= 1 /\ s[q].slot = k - 1 /\ SameBut(s[q].config, c)
          /\ s[q + 1].op = "magic" /\ (k >= 2 => s[q - 1].op = "invalidate")
      BY <2>3, <2>6 DEF Shape
    <3>2. QED
      BY <2>3, <2>4, <2>6, <3>1
  <2>7. CASE s[q].op = "invalidate"
    <3>1. \/ /\ q = Len(s) - 2 /\ k >= 2 /\ s[q].slot = k - 2
             /\ s[q + 1].op = "fields"
          \/ /\ q = Len(s) - 1 /\ k = 0 /\ s[q].slot = HeadSlots - 1
             /\ s[q + 1].op = "erase_heads"
      BY <2>7 DEF Shape
    <3>2. QED
      BY <2>3, <2>4, <2>7, <3>1
  <2>8. QED
    BY <2>3, <2>5, <2>6, <2>7
<1>4. QED
  BY <1>1, <1>3 DEF t

(***************************************************************************)
(* What an operation on the flash does to the heads.                       *)
(***************************************************************************)
LEMMA PerformPlain ==
  ASSUME Types, NEW f \in Operations, Perform(f), f.op \in {"program", "erase"}
  PROVE  /\ heads' = heads
         /\ programmed' \subseteq 0 .. LogEnd /\ twice' \subseteq 0 .. LogEnd
<1>1. CASE f.op = "program"
  <2>1. f \in Programs
    BY <1>1, OperationKinds
  <2>2. f.from .. f.from + f.n - 1 \subseteq 0 .. LogEnd
    BY <2>1, Sizes DEF Programs, Addresses
  <2>3. Wear(f.from .. f.from + f.n - 1)
    BY <1>1 DEF Perform
  <2>4. QED
    BY <2>2, <2>3 DEF Wear, Types
<1>2. CASE f.op = "erase"
  BY <1>2 DEF Perform, Types
<1>3. QED
  BY <1>1, <1>2

LEMMA PerformErase ==
  ASSUME Types, NEW f \in Operations, Perform(f), f.op = "erase_heads"
  PROVE  /\ \A i \in Slots : heads'[i] = Blank
         /\ heads' \in [Slots -> GoodHeads]
         /\ programmed' = programmed /\ twice' = twice
<1>1. heads' = [i \in Slots |-> Blank] /\ programmed' = programmed /\ twice' = twice
  BY DEF Perform, Types
<1>2. Blank \in GoodHeads
  BY DEF Blank, GoodHeads, Marks
<1>3. QED
  BY <1>1, <1>2

LEMMA PerformHead ==
  ASSUME Types, NEW f \in Operations, Perform(f), f.op \in {"invalidate", "fields", "magic"}
  PROVE  /\ f.slot \in Slots
         /\ heads' \in [Slots -> GoodHeads]
         /\ \A i \in Slots \ {f.slot} : heads'[i] = heads[i]
         /\ programmed' = programmed /\ twice' = twice
         /\ f.op = "invalidate" =>
              heads'[f.slot] = [heads[f.slot] EXCEPT !.valid = FALSE, !.config = Mixed]
         /\ f.op = "fields" =>
              /\ f.config \in GoodConfigs
              /\ heads'[f.slot] =
                   [heads[f.slot] EXCEPT !.config = Over(heads[f.slot].config, f.config)]
         /\ f.op = "magic" =>
              heads'[f.slot] = [heads[f.slot] EXCEPT !.magic = TRUE]
<1> DEFINE h == heads[f.slot]
           new == Programmed(h, f)
<1>1. f.slot \in Slots /\ (f.op = "fields" => f.config \in GoodConfigs)
  BY OperationKinds DEF Marking, Filling
<1>2. heads' = [heads EXCEPT ![f.slot] = new] /\ programmed' = programmed /\ twice' = twice
  BY DEF Perform
<1>3. heads \in [Slots -> GoodHeads] /\ h \in GoodHeads
  BY <1>1 DEF Types
<1>4. new \in GoodHeads
  BY <1>1, <1>3 DEF GoodHeads, Over, Marks, Programmed
<1>5. heads'[f.slot] = new /\ \A i \in Slots \ {f.slot} : heads'[i] = heads[i]
  BY <1>1, <1>2, <1>3
<1> HIDE DEF h
<1>6. /\ f.op = "invalidate" => new = [h EXCEPT !.valid = FALSE, !.config = Mixed]
      /\ f.op = "fields" => new = [h EXCEPT !.config = Over(h.config, f.config)]
      /\ f.op = "magic" => new = [h EXCEPT !.magic = TRUE]
  BY DEF Programmed
<1> HIDE DEF new
<1>7. heads' \in [Slots -> GoodHeads]
  BY <1>1, <1>2, <1>3, <1>4
<1>8. QED
  BY <1>1, <1>2, <1>5, <1>6, <1>7 DEF h

(***************************************************************************)
(* One operation on the flash.                                             *)
(***************************************************************************)
(* What every such step has in common.                                     *)
LEMMA StepFacts ==
  ASSUME FlashInv, FlashStep
  PROVE  /\ todo[1] \in Operations /\ Perform(todo[1])
         /\ todo' \in Seq(Operations) /\ Len(todo) \in Nat \ {0} /\ Len(todo') = Len(todo) - 1
         /\ \A p \in 1 .. Len(todo) - 1 : todo'[p] = todo[p + 1]
         /\ Shape(todo', head_index, config)
         /\ config' = config /\ head_index' = head_index /\ up' = up /\ up
         /\ around' = around
<1>1. /\ todo # << >> /\ Perform(Head(todo)) /\ todo' = Tail(todo) /\ up
      /\ config' = config /\ head_index' = head_index /\ up' = up
      /\ around' = around
  BY DEF FlashStep, ram
<1>2. todo \in Seq(Operations) /\ Shape(todo, head_index, config)
  BY DEF FlashInv, Types
<1>3. /\ Len(todo) \in Nat \ {0} /\ Len(todo') = Len(todo) - 1 /\ todo' \in Seq(Operations)
      /\ \A p \in 1 .. Len(todo) - 1 : todo'[p] = todo[p + 1]
      /\ Shape(todo', head_index, config)
  BY <1>1, <1>2, ShapeTail
<1>4. Head(todo) = todo[1] /\ Head(todo) \in Operations
  BY <1>1, <1>2, HeadTailProperties
<1>5. QED
  BY <1>1, <1>3, <1>4

LEMMA StepTypes ==
  ASSUME FlashInv, FlashStep
  PROVE  Types'
<1>1. Types /\ todo[1] \in Operations /\ Perform(todo[1])
  BY StepFacts DEF FlashInv
<1>2. /\ heads' \in [Slots -> GoodHeads]
      /\ programmed' \subseteq 0 .. LogEnd /\ twice' \subseteq 0 .. LogEnd
  <2>1. CASE todo[1].op \in {"program", "erase"}
    BY <1>1, <2>1, PerformPlain DEF Types
  <2>2. CASE todo[1].op = "erase_heads"
    BY <1>1, <2>2, PerformErase DEF Types
  <2>3. CASE todo[1].op \in {"invalidate", "fields", "magic"}
    BY <1>1, <2>3, PerformHead DEF Types
  <2>4. QED
    BY <1>1, <2>1, <2>2, <2>3 DEF Perform
<1>3. QED
  BY <1>1, <1>2, StepFacts DEF Types

(* A magic number follows the fields it vouches for.                       *)
LEMMA StepVouches ==
  ASSUME FlashInv, FlashStep
  PROVE  MagicVouches'
<1> DEFINE f == todo[1]
<1>1. Types /\ f \in Operations /\ Perform(f) /\ MagicVouches /\ Len(todo) \in Nat \ {0}
  BY StepFacts DEF FlashInv
<1>2. Shape(todo, head_index, config)
  BY DEF FlashInv
<1>3. f.op = "magic" => Vouched(f.slot)
  <2>1. todo # << >>
    BY DEF FlashStep
  <2>2. QED
    BY <1>1, <2>1 DEF MagicVouches
<1>4. todo' # << >> /\ todo'[1].op = "magic" =>
        f.op = "fields" /\ todo'[1].slot = f.slot
  <2>1. SUFFICES ASSUME todo' # << >>, todo'[1].op = "magic"
                 PROVE  f.op = "fields" /\ todo'[1].slot = f.slot
    OBVIOUS
  <2>2. Len(todo') > 0
    BY <2>1, StepFacts, EmptySeq
  <2>3. 2 \in 1 .. Len(todo) /\ todo'[1] = todo[2]
    BY <2>2, StepFacts
  <2>4. f.op = "fields" /\ todo[2].slot = head_index - 1
    BY <1>2, <2>1, <2>3 DEF Shape
  <2>5. 1 \in 1 .. Len(todo)
    BY <1>1
  <2>6. f.slot = head_index - 1
    BY <1>2, <2>4, <2>5 DEF Shape
  <2>7. QED
    BY <2>3, <2>4, <2>6
<1> HIDE DEF f
<1>5. CASE f.op \in {"program", "erase"}
  <2>1. heads' = heads
    BY <1>1, <1>5, PerformPlain
  <2>2. QED
    BY <1>1, <1>4, <1>5, <2>1 DEF MagicVouches, Vouched
<1>6. CASE f.op = "erase_heads"
  <2>1. \A i \in Slots : heads'[i] = Blank
    BY <1>1, <1>6, PerformErase
  <2>2. QED
    BY <1>4, <1>6, <2>1 DEF MagicVouches, Vouched, Blank
<1>7. CASE f.op \in {"invalidate", "fields", "magic"}
  <2>1. /\ f.slot \in Slots /\ heads[f.slot] \in GoodHeads
        /\ \A i \in Slots \ {f.slot} : heads'[i] = heads[i]
    BY <1>1, <1>7, PerformHead DEF Types
  <2>2. heads'[f.slot].config \notin {Erased, Torn}
    <3>1. CASE f.op = "invalidate"
      <4>1. heads'[f.slot].config = Mixed
        BY <1>1, <2>1, <3>1, PerformHead DEF GoodHeads
      <4>2. QED
        BY <4>1, MarksApart
    <3>2. CASE f.op = "fields"
      <4>1. heads'[f.slot].config = Over(heads[f.slot].config, f.config) /\ f.config \in Configs
        BY <1>1, <2>1, <3>2, PerformHead DEF GoodHeads, GoodConfigs
      <4>2. QED
        BY <4>1, MarksApart DEF Over, Marks
    <3>3. CASE f.op = "magic"
      <4>1. heads'[f.slot].config = heads[f.slot].config
        <5>1. heads'[f.slot] = [heads[f.slot] EXCEPT !.magic = TRUE]
          BY <1>1, <3>3, PerformHead
        <5>2. QED
          BY <2>1, <5>1 DEF GoodHeads
      <4>2. QED
        BY <1>3, <3>3, <4>1 DEF Vouched
    <3>4. QED
      BY <1>7, <3>1, <3>2, <3>3
  <2>3. QED
    BY <1>1, <1>4, <2>1, <2>2 DEF MagicVouches, Vouched
<1>8. QED
  BY <1>1, <1>5, <1>6, <1>7 DEF Perform

(***************************************************************************)
(* The order of the heads, operation by operation.                         *)
(***************************************************************************)
LEMMA BlankDead ==
  ASSUME NEW i, heads[i] = Blank
  PROVE  Dead(i) /\ ~heads[i].magic /\ heads[i].config = Erased
  BY DEF Blank, Dead

(* The position of the first operation tells how many there are.           *)
LEMMA FirstOp ==
  ASSUME FlashInv, todo # << >>
  PROVE  LET n == Len(todo)
             k == head_index
         IN /\ todo[1].op = "magic" => n = 1 /\ k >= 1 /\ todo[1].slot = k - 1
            /\ todo[1].op = "fields" =>
                 /\ n = 2 /\ k >= 1 /\ todo[1].slot = k - 1
                 /\ SameBut(todo[1].config, config) /\ todo[2].op = "magic"
            /\ todo[1].op = "invalidate" =>
                 \/ /\ n = 3 /\ k >= 2 /\ todo[1].slot = k - 2
                    /\ todo[2].op = "fields" /\ todo[3].op = "magic"
                 \/ /\ n = 2 /\ k = 0 /\ todo[1].slot = HeadSlots - 1
                    /\ todo[2].op = "erase_heads"
<1>0. Shape(todo, head_index, config) /\ todo \in Seq(Operations)
  BY DEF FlashInv, Types
<1>1. Shape(todo, head_index, config) /\ Len(todo) \in Nat \ {0} /\ 1 \in 1 .. Len(todo)
  BY <1>0, LenProperties, EmptySeq
<1>2. /\ todo[1].op = "magic" => 1 = Len(todo) /\ head_index >= 1 /\ todo[1].slot = head_index - 1
      /\ todo[1].op = "fields" =>
           /\ 1 = Len(todo) - 1 /\ head_index >= 1 /\ todo[1].slot = head_index - 1
           /\ SameBut(todo[1].config, config) /\ todo[1 + 1].op = "magic"
      /\ todo[1].op = "invalidate" =>
           \/ /\ 1 = Len(todo) - 2 /\ head_index >= 2 /\ todo[1].slot = head_index - 2
              /\ todo[1 + 1].op = "fields"
           \/ /\ 1 = Len(todo) - 1 /\ head_index = 0 /\ todo[1].slot = HeadSlots - 1
              /\ todo[1 + 1].op = "erase_heads"
  BY <1>1, Zenon DEF Shape
<1>3. Len(todo) = 3 /\ todo[2].op = "fields" => todo[3].op = "magic"
  <2>1. SUFFICES ASSUME Len(todo) = 3, todo[2].op = "fields"
                 PROVE  todo[2 + 1].op = "magic"
    OBVIOUS
  <2>2. 2 \in 1 .. Len(todo)
    BY <2>1
  <2>3. QED
    BY <1>1, <2>1, <2>2, Zenon DEF Shape
<1>4. 1 + 1 = 2
  OBVIOUS
<1>5. QED
  BY <1>1, <1>2, <1>3, <1>4

LEMMA OrderPlain ==
  ASSUME FlashInv, FlashStep, todo[1].op \in {"program", "erase"}, ~around
  PROVE  HeadsInOrder'
<1> DEFINE n == Len(todo)
           k == head_index
<1>1. heads' = heads /\ config' = config /\ head_index' = head_index /\ up
  BY StepFacts, PerformPlain DEF FlashInv
<1>2. /\ n \in Nat \ {0} /\ Len(todo') = n - 1
      /\ \A p \in 1 .. n - 1 : todo'[p] = todo[p + 1]
      /\ k \in Nat
  BY StepFacts DEF FlashInv, Types
<1>3. /\ BlankBehind /\ (Settled => AtRest /\ AtMagic /\ BeforeFields) /\ BeforeErasure
      /\ Shape(todo, k, config)
  BY <1>1 DEF FlashInv, HeadsInOrder
<1>4. BlankBehind'
  BY <1>1, <1>3, Zenon DEF BlankBehind, Dead
<1>5. \A l, h : Ordered(l, h)' <=> Ordered(l, h)
  BY <1>1, Zenon DEF Ordered, Dead
<1>6. \A l : Filled(l)' <=> Filled(l)
  BY <1>1, Zenon DEF Filled
<1>7. \A p \in 1 .. n - 1 : p + 1 \in 1 .. n /\ todo'[p] = todo[p + 1]
  BY <1>2
<1>8. n > 1 => todo'[n - 1] = todo[n]
  BY <1>2
<1>9. Settled' => Settled
  <2>1. SUFFICES ASSUME Settled', NEW p \in 1 .. Len(todo)
                 PROVE  todo[p].op # "erase_heads"
    BY DEF Settled, Erasing
  <2>2. CASE p = 1
    BY <2>2
  <2>3. CASE p > 1
    <3>1. p - 1 \in 1 .. Len(todo') /\ todo'[p - 1] = todo[p]
      BY <1>2, <2>3
    <3>2. QED
      BY <2>1, <3>1 DEF Settled, Erasing
  <2>4. QED
    BY <1>2, <2>2, <2>3
<1>10. Settled' => AtRest'
  <2>1. SUFFICES ASSUME Settled, ~(n - 1 > 0 /\ todo'[n - 1].op = "magic"),
                        heads[0].magic \/ k = 0
                 PROVE  Ordered(k - 1, k) /\ Filled(k)
    BY <1>1, <1>2, <1>5, <1>6, <1>9 DEF AtRest
  <2>2. ~(n > 0 /\ todo[n].op = "magic")
    BY <1>2, <1>8, <2>1
  <2>3. QED
    BY <1>3, <2>1, <2>2 DEF AtRest
<1>11. Settled' => AtMagic'
  <2>1. SUFFICES ASSUME n - 1 = 1, todo'[1].op = "magic"
                 PROVE  FALSE
    BY <1>2 DEF AtMagic
  <2>2. 2 \in 1 .. n /\ todo[2].op = "magic"
    <3>0. n \in Int
      BY <1>2
    <3> HIDE DEF n
    <3>1. n = 2 /\ 1 \in 1 .. n - 1
      BY <2>1, <3>0
    <3>2. QED
      BY <1>2, <2>1, <3>1
  <2>3. QED
    BY <1>3, <2>2 DEF Shape
<1>12. Settled' => BeforeFields'
  <2>1. SUFFICES ASSUME Settled, n - 1 > 1, todo'[n - 1].op = "magic",
                        heads[0].magic \/ k = 1
                 PROVE  /\ Ordered(k - 2, k - 1)
                        /\ todo'[1].op = "fields" => Ordered(k - 1, k - 1)
    BY <1>1, <1>2, <1>5, <1>9 DEF BeforeFields
  <2>2. Ordered(k - 2, k - 1)
    BY <1>2, <1>3, <1>8, <2>1 DEF BeforeFields
  <2>3. ASSUME todo'[1].op = "fields"
        PROVE  k = 1
    <3>1. 2 \in 1 .. n /\ todo[2].op = "fields"
      BY <1>2, <2>1, <2>3
    <3>2. QED
      BY <1>2, <1>3, <3>1 DEF Shape
  <2>4. k = 1 => Ordered(k - 1, k - 1)
    BY <2>2 DEF Ordered, Slots
  <2>5. QED
    BY <2>2, <2>3, <2>4
<1>13. BeforeErasure'
  <2>1. SUFFICES ASSUME n - 1 > 0, todo'[n - 1].op = "erase_heads", k = 0,
                        \A p \in 1 .. (n - 1) - 1 : todo'[p].op # "erase_heads",
                        heads[0].magic
                 PROVE  \A i \in Slots : i < HeadSlots - 1 => Dead(i)
    BY <1>1, <1>2 DEF BeforeErasure, Erasing, Dead
  <2>2. \A p \in 1 .. n - 1 : todo[p].op # "erase_heads"
    <3>1. SUFFICES ASSUME NEW p \in 1 .. n - 1
                   PROVE  todo[p].op # "erase_heads"
      OBVIOUS
    <3>2. CASE p = 1
      BY <3>2
    <3>3. CASE p > 1
      <4>1. p - 1 \in 1 .. (n - 1) - 1 /\ todo'[p - 1] = todo[p]
        BY <1>2, <3>3
      <4>2. QED
        BY <2>1, <4>1
    <3>4. QED
      BY <1>2, <3>2, <3>3
  <2>3. QED
    BY <1>2, <1>3, <1>8, <2>1, <2>2 DEF BeforeErasure, Erasing
<1>14. QED
  BY <1>4, <1>10, <1>11, <1>12, <1>13 DEF HeadsInOrder

LEMMA OrderErase ==
  ASSUME FlashInv, FlashStep, todo[1].op = "erase_heads", ~around
  PROVE  HeadsInOrder'
<1> DEFINE n == Len(todo)
<1>1. \A i \in Slots : heads'[i] = Blank
  BY StepFacts, PerformErase DEF FlashInv
<1>2. /\ n \in Nat \ {0} /\ Len(todo') = n - 1
      /\ \A p \in 1 .. n - 1 : todo'[p] = todo[p + 1]
      /\ Shape(todo, head_index, config)
      /\ head_index' = head_index
  BY StepFacts DEF FlashInv
<1>3. \A i \in Slots : Dead(i)' /\ ~heads'[i].magic
  BY <1>1 DEF Dead, Blank
<1>4. ~heads'[0].magic
  BY <1>3, Sizes
<1>5. \A l, h : Ordered(l, h)'
  BY <1>1, <1>3, Zenon DEF Ordered
<1>6. AtRest'
  <2>1. head_index' = 0 => Filled(head_index)'
    BY DEF Filled, Slots
  <2>2. QED
    BY <1>4, <1>5, <2>1 DEF AtRest
<1>7. AtMagic'
  <2>1. SUFFICES ASSUME n - 1 = 1, todo'[1].op = "magic"
                 PROVE  FALSE
    BY <1>2 DEF AtMagic
  <2>0. n \in Int
    BY <1>2
  <2> HIDE DEF n
  <2>2. n = 2 /\ 1 \in 1 .. n - 1 /\ 2 \in 1 .. n
    BY <2>0, <2>1
  <2>3. todo[2].op = "magic"
    BY <1>2, <2>1, <2>2
  <2>4. QED
    BY <1>2, <2>2, <2>3 DEF Shape, n
<1>8. BeforeFields'
  BY <1>5, Zenon DEF BeforeFields
<1>9. BeforeErasure' /\ BlankBehind'
  BY <1>4, Zenon DEF BeforeErasure, BlankBehind
<1>10. QED
  BY <1>6, <1>7, <1>8, <1>9 DEF HeadsInOrder

(* What a head operation leaves of slot 0.                                 *)
LEMMA HeadEffect ==
  ASSUME FlashInv, FlashStep, todo[1].op \in {"invalidate", "fields", "magic"}
  PROVE  LET s == todo[1].slot
         IN /\ s \in Slots
            /\ \A i \in Slots \ {s} : heads'[i] = heads[i] /\ Dead(i)' = Dead(i)
            /\ todo[1].op # "magic" => heads'[s].magic = heads[s].magic
            /\ todo[1].op = "invalidate" => ~(heads'[s].magic /\ heads'[s].valid)
            /\ todo[1].op = "fields" =>
                 heads'[s].config = Over(heads[s].config, todo[1].config)
            /\ todo[1].op = "magic" => heads'[s].config = heads[s].config
            /\ config' = config /\ head_index' = head_index /\ up
<1> DEFINE f == todo[1]
           s == f.slot
<1>1. /\ s \in Slots
      /\ \A i \in Slots \ {s} : heads'[i] = heads[i]
      /\ f.op = "invalidate" =>
           heads'[s] = [heads[s] EXCEPT !.valid = FALSE, !.config = Mixed]
      /\ f.op = "fields" =>
           heads'[s] = [heads[s] EXCEPT !.config = Over(heads[s].config, f.config)]
      /\ f.op = "magic" => heads'[s] = [heads[s] EXCEPT !.magic = TRUE]
  BY StepFacts, PerformHead DEF FlashInv
<1>2. heads[s] \in GoodHeads
  BY <1>1 DEF FlashInv, Types
<1>4. \A i \in Slots \ {s} : Dead(i)' = Dead(i)
  BY <1>1, Zenon DEF Dead
<1>5. f.op # "magic" => heads'[s].magic = heads[s].magic
  BY <1>1, <1>2 DEF GoodHeads
<1>6. f.op = "invalidate" => heads'[s].valid = FALSE
  BY <1>1, <1>2 DEF GoodHeads
<1>7. /\ f.op = "fields" => heads'[s].config = Over(heads[s].config, f.config)
      /\ f.op = "magic" => heads'[s].config = heads[s].config
  BY <1>1, <1>2 DEF GoodHeads
<1>8. f.op = "invalidate" => ~(heads'[s].magic /\ heads'[s].valid)
  BY <1>6, Zenon
<1>9. QED
  BY <1>1, <1>4, <1>5, <1>7, <1>8, StepFacts, Zenon

LEMMA OrderInvalidate ==
  ASSUME FlashInv, FlashStep, todo[1].op = "invalidate", ~around
  PROVE  HeadsInOrder'
<1> DEFINE n == Len(todo)
           k == head_index
           s == todo[1].slot
<1>1. /\ s \in Slots
      /\ \A i \in Slots \ {s} : heads'[i] = heads[i] /\ Dead(i)' = Dead(i)
      /\ heads'[s].magic = heads[s].magic
      /\ ~(heads'[s].magic /\ heads'[s].valid)
      /\ config' = config /\ head_index' = head_index /\ up
  BY HeadEffect
<1>2. /\ n \in Nat \ {0} /\ Len(todo') = n - 1
      /\ \A p \in 1 .. n - 1 : todo'[p] = todo[p + 1]
      /\ k \in 0 .. HeadSlots
  BY StepFacts DEF FlashInv, Types
<1>3. /\ Settled => BeforeFields
      /\ BeforeErasure
  BY <1>1 DEF FlashInv, HeadsInOrder
<1>4. heads'[0].magic = heads[0].magic
  BY <1>1, Sizes
<1>5. \A i \in Slots : i = s => Dead(i)'
  BY <1>1, Zenon DEF Dead
<1>6. CASE n = 3 /\ k >= 2 /\ s = k - 2 /\ todo[2].op = "fields" /\ todo[3].op = "magic"
  <2>1. Settled
    BY <1>6 DEF Settled, Erasing
  <2>2. heads[0].magic => Ordered(k - 2, k - 1)
    BY <1>3, <1>6, <2>1 DEF BeforeFields
  <2>3. Len(todo') = 2 /\ todo'[1].op = "fields" /\ todo'[2].op = "magic"
    BY <1>2, <1>6
  <2>4. ASSUME heads[0].magic
        PROVE  \A i \in Slots : (i < k - 1 => Dead(i)') /\ (i >= k - 1 => heads'[i] = Blank)
    <3>1. SUFFICES ASSUME NEW i \in Slots
                   PROVE  (i < k - 1 => Dead(i)') /\ (i >= k - 1 => heads'[i] = Blank)
      OBVIOUS
    <3>2. (i < k - 2 => Dead(i)) /\ (i >= k - 1 => heads[i] = Blank)
      BY <2>2, <2>4 DEF Ordered
    <3>3. i < k - 1 => i = s \/ i < k - 2
      BY <1>2, <1>6 DEF Slots
    <3>4. (i < k - 2 => i # s) /\ (i >= k - 1 => i # s)
      BY <1>2, <1>6 DEF Slots
    <3>5. QED
      BY <1>1, <1>5, <3>2, <3>3, <3>4
  <2>5. heads[0].magic => Ordered(k - 1, k - 1)'
    BY <2>4, <1>1, Zenon DEF Ordered
  <2>6. heads[0].magic => \A i \in Slots : Dead(i)'
    <3>1. ASSUME heads[0].magic, NEW i \in Slots
          PROVE  Dead(i)'
      <4>1. i < k - 1 \/ i >= k - 1
        BY <1>2 DEF Slots
      <4>2. heads'[i] = Blank => Dead(i)'
        BY DEF Blank, Dead
      <4>3. QED
        BY <2>4, <3>1, <4>1, <4>2
    <3>2. QED
      BY <3>1
  <2>7. heads[0].magic => Ordered(k - 2, k - 1)'
    BY <1>1, <2>4, <2>6, Zenon DEF Ordered
  <2>8. BlankBehind'
    BY <1>4, <2>6, Zenon DEF BlankBehind
  <2>9. AtRest' /\ AtMagic'
    BY <2>3 DEF AtRest, AtMagic
  <2>10. k # 1 /\ head_index' = k
    BY <1>1, <1>6
  <2>11. BeforeFields'
    BY <1>4, <2>5, <2>7, <2>10, Zenon DEF BeforeFields
  <2>12. BeforeErasure'
    BY <2>3 DEF BeforeErasure, Erasing
  <2>13. QED
    BY <2>8, <2>9, <2>11, <2>12 DEF HeadsInOrder
<1>7. CASE n = 2 /\ k = 0 /\ s = HeadSlots - 1 /\ todo[2].op = "erase_heads"
  <2>1. \A p \in 1 .. n - 1 : ~Erasing(p)
    BY <1>7 DEF Erasing
  <2>2. heads[0].magic => \A i \in Slots : i < HeadSlots - 1 => Dead(i)
    BY <1>3, <1>7, <2>1 DEF BeforeErasure, Erasing
  <2>3. Len(todo') = 1 /\ todo'[1].op = "erase_heads"
    BY <1>2, <1>7
  <2>4. ASSUME heads[0].magic, NEW i \in Slots
        PROVE  Dead(i)'
    <3>1. i = s \/ (i < HeadSlots - 1 /\ i # s)
      BY <1>7, Sizes DEF Slots
    <3>2. QED
      BY <1>1, <1>5, <2>2, <2>4, <3>1
  <2>5. BlankBehind'
    BY <1>4, <2>4, Zenon DEF BlankBehind
  <2>6. ~Settled'
    BY <2>3 DEF Settled, Erasing
  <2>7. BeforeErasure'
    BY <1>4, <2>4, Zenon DEF BeforeErasure
  <2>8. QED
    BY <2>5, <2>6, <2>7 DEF HeadsInOrder
<1>8. QED
  BY <1>6, <1>7, FirstOp DEF FlashStep

LEMMA OrderFields ==
  ASSUME FlashInv, FlashStep, todo[1].op = "fields", ~around
  PROVE  HeadsInOrder'
<1> DEFINE n == Len(todo)
           k == head_index
           s == todo[1].slot
<1>1. /\ s \in Slots
      /\ \A i \in Slots \ {s} : heads'[i] = heads[i] /\ Dead(i)' = Dead(i)
      /\ heads'[s].magic = heads[s].magic
      /\ heads'[s].config = Over(heads[s].config, todo[1].config)
      /\ config' = config /\ head_index' = head_index /\ up
  BY HeadEffect
<1>2. /\ n = 2 /\ k >= 1 /\ s = k - 1 /\ SameBut(todo[1].config, config)
      /\ todo[2].op = "magic"
  BY FirstOp DEF FlashStep
<1>3. /\ Len(todo') = 1 /\ todo'[1].op = "magic" /\ k \in 0 .. HeadSlots
  <2>1. n \in Nat \ {0} /\ Len(todo') = n - 1 /\ \A p \in 1 .. n - 1 : todo'[p] = todo[p + 1]
    BY StepFacts
  <2>2. k \in 0 .. HeadSlots
    BY DEF FlashInv, Types
  <2>3. QED
    BY <1>2, <2>1, <2>2
<1>4. Settled
  BY <1>2 DEF Settled, Erasing
<1>5. heads[0].magic \/ k = 1 => Ordered(k - 1, k - 1)
  BY <1>1, <1>2, <1>4 DEF FlashInv, HeadsInOrder, BeforeFields
<1>6. heads'[0].magic = heads[0].magic
  BY <1>1, Sizes
<1>7. ASSUME heads[0].magic \/ k = 1
      PROVE  /\ \A i \in Slots : Dead(i)'
             /\ \A i \in Slots : i >= k => heads'[i] = Blank
             /\ heads'[s].config = todo[1].config
  <2>1. heads[s] = Blank
    BY <1>1, <1>2, <1>3, <1>5, <1>7 DEF Ordered
  <2>2. heads[s].config = Erased /\ ~heads[s].magic
    BY <2>1 DEF Blank
  <2>3. heads'[s].config = todo[1].config
    BY <1>1, <2>2 DEF Over
  <2>4. ASSUME NEW i \in Slots
        PROVE  Dead(i)' /\ (i >= k => heads'[i] = Blank)
    <3>1. CASE i = s
      <4>1. ~heads'[i].magic
        BY <1>1, <2>2, <3>1, Zenon
      <4>2. ~(i >= k)
        BY <1>2, <1>3, <3>1
      <4>3. QED
        BY <4>1, <4>2, Zenon DEF Dead
    <3>2. CASE i # s
      <4>1. (i < k - 1 => Dead(i)) /\ (i >= k - 1 => heads[i] = Blank)
        BY <1>5, <1>7 DEF Ordered
      <4>2. (i < k - 1 \/ i >= k - 1) /\ (i >= k => i >= k - 1)
        BY <1>3 DEF Slots
      <4>3. heads[i] = Blank => Dead(i)
        BY BlankDead
      <4>4. heads'[i] = heads[i] /\ Dead(i)' = Dead(i)
        BY <1>1, <3>2
      <4>5. QED
        BY <4>1, <4>2, <4>3, <4>4, Zenon
    <3>3. QED
      BY <3>1, <3>2
  <2>5. QED
    BY <2>3, <2>4
<1>8. BlankBehind'
  BY <1>6, <1>7, Zenon DEF BlankBehind
<1>9. AtRest' /\ BeforeFields' /\ BeforeErasure'
  BY <1>3 DEF AtRest, BeforeFields, BeforeErasure, Erasing
<1>10. AtMagic'
  <2>1. SUFFICES ASSUME heads[0].magic \/ k = 1
                 PROVE  Ordered(k - 1, k)' /\ Filled(k)'
    BY <1>1, <1>6, Zenon DEF AtMagic
  <2>2. Ordered(k - 1, k)'
    BY <1>1, <1>7, <2>1, Zenon DEF Ordered
  <2>3. Filled(k)'
    <3>1. \A i \in Slots : i = k - 1 => SameBut(heads'[i].config, config)
      BY <1>2, <1>7, <2>1
    <3>2. QED
      BY <1>1, <3>1, Zenon DEF Filled
  <2>4. QED
    BY <2>2, <2>3
<1>11. QED
  BY <1>8, <1>9, <1>10 DEF HeadsInOrder

LEMMA OrderMagic ==
  ASSUME FlashInv, FlashStep, todo[1].op = "magic", ~around
  PROVE  HeadsInOrder'
<1> DEFINE k == head_index
           s == todo[1].slot
<1>1. /\ s \in Slots
      /\ \A i \in Slots \ {s} : heads'[i] = heads[i] /\ Dead(i)' = Dead(i)
      /\ heads'[s].config = heads[s].config
      /\ config' = config /\ head_index' = head_index /\ up
  BY HeadEffect
<1>2. Len(todo) = 1 /\ k >= 1 /\ s = k - 1
  BY FirstOp DEF FlashStep
<1>3. Len(todo') = 0 /\ k \in 0 .. HeadSlots
  BY <1>2, StepFacts DEF FlashInv, Types
<1>4. Settled
  BY <1>2 DEF Settled, Erasing
<1>5. heads[0].magic \/ k = 1 => Ordered(k - 1, k) /\ Filled(k)
  BY <1>1, <1>2, <1>4 DEF FlashInv, HeadsInOrder, AtMagic
<1>6. heads'[0].magic => heads[0].magic \/ k = 1
  <2>1. k # 1 => 0 \in Slots \ {s}
    BY <1>2, <1>3, Sizes
  <2>2. QED
    BY <1>1, <2>1
<1>7. ASSUME heads'[0].magic, NEW i \in Slots
      PROVE  /\ i < k - 1 => Dead(i)'
             /\ i >= k => heads'[i] = Blank
             /\ i = k - 1 => SameBut(heads'[i].config, config)
  <2>1. /\ i < k - 1 => Dead(i)
        /\ i >= k => heads[i] = Blank
        /\ i = k - 1 => SameBut(heads[i].config, config)
    BY <1>5, <1>6, <1>7 DEF Ordered, Filled
  <2>2. (i < k - 1 => i # s) /\ (i >= k => i # s) /\ (i = k - 1 => i = s)
    BY <1>2, <1>3 DEF Slots
  <2>3. QED
    BY <1>1, <2>1, <2>2, Zenon
<1>8. BlankBehind'
  <2>1. SUFFICES ASSUME heads'[0].magic, NEW i \in Slots, NEW j \in Slots, ~Dead(i)', i < j
                 PROVE  heads'[j] = Blank
    BY Zenon DEF BlankBehind
  <2>2. ~(i < k - 1)
    BY <1>7, <2>1, Zenon
  <2>3. j >= k
    BY <1>3, <2>1, <2>2 DEF Slots
  <2>4. QED
    BY <1>7, <2>1, <2>3, Zenon
<1>9. AtRest'
  <2>1. SUFFICES ASSUME heads'[0].magic
                 PROVE  Ordered(k - 1, k)' /\ Filled(k)'
    <3>1. k # 0
      BY <1>2, <1>3
    <3>2. QED
      BY <1>1, <3>1, Zenon DEF AtRest
  <2>2. QED
    BY <1>1, <1>7, <2>1, Zenon DEF Ordered, Filled
<1>10. AtMagic' /\ BeforeFields' /\ BeforeErasure'
  BY <1>3 DEF AtMagic, BeforeFields, BeforeErasure
<1>11. QED
  BY <1>8, <1>9, <1>10 DEF HeadsInOrder

LEMMA FlashStepInv ==
  ASSUME FlashInv, FlashStep
  PROVE  FlashInv'
<1>1. Types' /\ MagicVouches'
  BY StepTypes, StepVouches
<1>2. Shape(todo, head_index, config)' /\ (~up => todo = << >>)'
  BY StepFacts
<1>3. HeadsInOrder'
  <2>1. CASE around
    BY <2>1, StepFacts DEF HeadsInOrder
  <2>2. CASE ~around
    <3>1. todo[1].op \in {"program", "erase", "erase_heads", "invalidate", "fields", "magic"}
      BY StepFacts DEF Perform
    <3>2. QED
      BY <2>2, <3>1, OrderPlain, OrderErase, OrderInvalidate, OrderFields, OrderMagic
  <2>3. QED
    BY <2>1, <2>2
<1>4. QED
  BY <1>1, <1>2, <1>3 DEF FlashInv

(***************************************************************************)
(* Power failures.                                                         *)
(***************************************************************************)
LEMMA InterruptHead ==
  ASSUME FlashInv, up, todo # << >>, todo[1].op = "fields", Interrupt(todo[1])
  PROVE  /\ heads' \in [Slots -> GoodHeads]
         /\ programmed' = programmed /\ twice' = twice
         /\ (\A i \in Slots : heads[i].magic => Vouched(i))
              => \A i \in Slots : heads'[i].magic => Vouched(i)'
         /\ ~around => BlankBehind'
<1> DEFINE k == head_index
           s == todo[1].slot
           new == [heads[s] EXCEPT !.config = Over(heads[s].config, Torn)]
<1>1. /\ Len(todo) = 2 /\ k >= 1 /\ s = k - 1 /\ todo[2].op = "magic"
  BY FirstOp
<1>2. k \in 0 .. HeadSlots /\ heads \in [Slots -> GoodHeads] /\ s \in Slots
  BY <1>1, Sizes DEF FlashInv, Types, Slots
<1>3. heads' = [heads EXCEPT ![s] = new] /\ programmed' = programmed /\ twice' = twice
  BY DEF Interrupt
<1>4. new \in GoodHeads
  BY <1>2 DEF GoodHeads, Over, Marks
<1>5. heads' \in [Slots -> GoodHeads] /\ heads'[s] = new /\ \A i \in Slots \ {s} : heads'[i] = heads[i]
  BY <1>2, <1>3, <1>4
<1>6. heads'[s].magic = heads[s].magic /\ heads'[s].config = Over(heads[s].config, Torn)
  BY <1>2, <1>5 DEF GoodHeads
<1>7. ASSUME \A i \in Slots : heads[i].magic => Vouched(i), NEW i \in Slots, heads'[i].magic
      PROVE  heads'[i].config \notin {Erased, Torn}
  <2>1. CASE i = s
    <3>1. heads[s].config \notin {Erased, Torn}
      BY <1>6, <1>7, <2>1 DEF Vouched
    <3>2. QED
      BY <1>6, <2>1, <3>1, MarksApart DEF Over
  <2>2. CASE i # s
    BY <1>5, <1>7, <2>2 DEF Vouched
  <2>3. QED
    BY <2>1, <2>2
<1>8. ASSUME ~around
      PROVE  BlankBehind'
  <2>1. Settled
    BY <1>1 DEF Settled, Erasing
  <2>2. heads[0].magic => Ordered(k - 1, k - 1)
    BY <1>1, <1>8, <2>1 DEF FlashInv, HeadsInOrder, BeforeFields
  <2>3. ASSUME heads[0].magic, NEW i \in Slots
        PROVE  Dead(i)'
    <3>1. (i < k - 1 => Dead(i)) /\ (i >= k - 1 => heads[i] = Blank)
      BY <2>2, <2>3 DEF Ordered
    <3>2. i < k - 1 \/ i >= k - 1
      BY <1>2 DEF Slots
    <3>3. Dead(i) /\ (i = s => ~heads[i].magic)
      BY <1>1, <1>2, <3>1, <3>2, BlankDead
    <3>4. QED
      BY <1>5, <1>6, <3>3, Zenon DEF Dead
  <2>4. heads'[0].magic = heads[0].magic
    BY <1>5, <1>6, Sizes
  <2>5. QED
    BY <2>3, <2>4, Zenon DEF BlankBehind
<1>9. QED
  BY <1>3, <1>5, <1>7, <1>8, Zenon DEF Vouched

LEMMA PowerFailsInv ==
  ASSUME FlashInv, PowerFails
  PROVE  FlashInv'
<1>1. /\ up /\ up' = FALSE /\ todo' = << >> /\ config' = Default /\ head_index' = 0
      /\ around' = around
      /\ \/ todo # << >> /\ Interrupt(Head(todo))
         \/ heads' = heads /\ programmed' = programmed /\ twice' = twice
  BY DEF PowerFails, flash
<1>2. /\ heads' \in [Slots -> GoodHeads]
      /\ programmed' \subseteq 0 .. LogEnd /\ twice' \subseteq 0 .. LogEnd
      /\ \A i \in Slots : heads'[i].magic => Vouched(i)'
      /\ ~around => BlankBehind'
  <2>0. /\ Types /\ (\A i \in Slots : heads[i].magic => Vouched(i))
        /\ ~around => BlankBehind
    BY DEF FlashInv, MagicVouches, HeadsInOrder
  <2>1. CASE heads' = heads /\ programmed' = programmed /\ twice' = twice
    <3>1. ~around => BlankBehind'
      BY <2>0, <2>1, Zenon DEF BlankBehind, Dead
    <3>2. \A i \in Slots : heads'[i].magic => Vouched(i)'
      BY <2>0, <2>1, Zenon DEF Vouched
    <3>3. QED
      BY <2>0, <2>1, <3>1, <3>2 DEF Types
  <2>2. CASE todo # << >> /\ Interrupt(Head(todo))
    <3>1. Head(todo) = todo[1] /\ todo[1] \in Operations
      BY <2>0, <2>2, HeadTailProperties DEF Types
    <3>2. CASE todo[1].op = "fields"
      BY <1>1, <2>0, <2>2, <3>1, <3>2, InterruptHead DEF Types
    <3>3. CASE todo[1].op = "program"
      <4>1. PICK n \in 0 .. todo[1].n - 1 : Wear(todo[1].from .. todo[1].from + n - 1)
        BY <2>2, <3>1, <3>3 DEF Interrupt
      <4>2. todo[1] \in Programs
        BY <3>1, <3>3, OperationKinds
      <4>3. todo[1].from .. todo[1].from + n - 1 \subseteq 0 .. LogEnd
        BY <4>2, Sizes DEF Programs, Addresses
      <4>4. /\ heads' = heads
            /\ programmed' \subseteq 0 .. LogEnd /\ twice' \subseteq 0 .. LogEnd
        BY <2>0, <4>1, <4>3 DEF Wear, Types
      <4>5. ~around => BlankBehind'
        BY <2>0, <4>4, Zenon DEF BlankBehind, Dead
      <4>6. \A i \in Slots : heads'[i].magic => Vouched(i)'
        BY <2>0, <4>4, Zenon DEF Vouched
      <4>7. QED
        BY <2>0, <4>4, <4>5, <4>6 DEF Types
    <3>4. QED
      BY <2>2, <3>1, <3>2, <3>3 DEF Interrupt
  <2>3. QED
    BY <1>1, <2>1, <2>2
<1>3. todo' \in Seq(Operations) /\ Len(todo') = 0
  BY <1>1
<1>4. Types'
  <2>1. 0 \in 0 .. HeadSlots
    BY Sizes
  <2>2. around' \in BOOLEAN
    BY <1>1 DEF FlashInv, Types
  <2>3. QED
    BY <1>1, <1>2, <1>3, <2>1, <2>2, DefaultGood DEF Types
<1>5. Shape(todo, head_index, config)'
  BY <1>3 DEF Shape
<1>6. MagicVouches'
  BY <1>1, <1>2, Zenon DEF MagicVouches
<1>7. HeadsInOrder'
  BY <1>1, <1>2 DEF HeadsInOrder
<1>8. QED
  BY <1>1, <1>4, <1>5, <1>6, <1>7 DEF FlashInv

(***************************************************************************)
(* A call, or a restart, plans its operations on the flash.                *)
(***************************************************************************)
LEMMA HarmlessConcat ==
  ASSUME NEW s \in Seq(Operations), NEW r \in Seq(Operations), Harmless(s), Harmless(r)
  PROVE  s \o r \in Seq(Operations) /\ Harmless(s \o r)
<1> DEFINE t == s \o r
<1>1. /\ t \in Seq(Operations) /\ Len(t) = Len(s) + Len(r)
      /\ \A p \in 1 .. Len(s) + Len(r) : t[p] = IF p <= Len(s) THEN s[p] ELSE r[p - Len(s)]
  BY ConcatProperties
<1>2. Len(s) \in Nat /\ Len(r) \in Nat
  BY LenProperties
<1> HIDE DEF t
<1>3. ASSUME NEW p \in 1 .. Len(t)
      PROVE  t[p].op \in {"program", "erase", "erase_heads"}
  <2>1. CASE p <= Len(s)
    BY <1>1, <1>2, <2>1 DEF Harmless
  <2>2. CASE p > Len(s)
    <3>1. p - Len(s) \in 1 .. Len(r) /\ t[p] = r[p - Len(s)]
      BY <1>1, <1>2, <2>2
    <3>2. QED
      BY <3>1 DEF Harmless
  <2>3. QED
    BY <1>1, <1>2, <2>1, <2>2
<1>4. QED
  BY <1>1, <1>3 DEF Harmless, t

LEMMA HarmlessOne ==
  ASSUME NEW f \in Operations, f.op \in {"program", "erase", "erase_heads"}
  PROVE  <<f>> \in Seq(Operations) /\ Harmless(<<f>>)
<1>1. <<f>> \in Seq(Operations) /\ Len(<<f>>) = 1 /\ <<f>>[1] = f
  BY Singles
<1>2. QED
  BY <1>1 DEF Harmless

LEMMA HarmlessNone == << >> \in Seq(Operations) /\ Harmless(<< >>)
<1>1. << >> \in Seq(Operations) /\ Len(<< >>) = 0
  OBVIOUS
<1>2. QED
  BY <1>1 DEF Harmless

LEMMA ClearPlan ==
  /\ _log_clear \in Seq(Operations) /\ Harmless(_log_clear)
  /\ Len(_log_clear) = 3 /\ _log_clear[1].op = "erase_heads"
<1>1. 0 \in Addresses /\ Sector4 \in Addresses
  BY Sizes DEF Addresses
<1>2. /\ EraseHeads \in Operations /\ Erase(0) \in Operations /\ Erase(Sector4) \in Operations
      /\ EraseHeads.op = "erase_heads" /\ Erase(0).op = "erase" /\ Erase(Sector4).op = "erase"
  BY <1>1, ErasureOps
<1>3. /\ _log_clear \in Seq(Operations) /\ Len(_log_clear) = 3
      /\ _log_clear[1] = EraseHeads /\ _log_clear[2] = Erase(0) /\ _log_clear[3] = Erase(Sector4)
  BY <1>2 DEF _log_clear
<1>4. QED
  BY <1>2, <1>3 DEF Harmless

LEMMA Planned ==
  ASSUME NEW i \in 0 .. HeadSlots, NEW c \in GoodConfigs,
         NEW pre \in Seq(Operations), Harmless(pre),
         todo' = pre \o _flush_head_index(i, c),
         head_index' = Flushed(i), config' = c
  PROVE  /\ head_index' \in 0 .. HeadSlots
         /\ todo' \in Seq(Operations) /\ Shape(todo', head_index', config')
         /\ Len(todo') \in Nat \ {0} /\ todo'[1].op # "magic"
         /\ Len(pre) \in Nat /\ Len(pre) < Len(todo')
         /\ \A p \in 1 .. Len(pre) : todo'[p] = pre[p]
         /\ i < HeadSlots => head_index' = i + 1 /\ todo'[Len(todo')].op = "magic"
         /\ i = HeadSlots => head_index' = 0 /\ todo'[Len(todo')].op = "erase_heads"
         /\ todo'[1].op = "fields" => i = 0
<1> DEFINE F == _flush_head_index(i, c)
           k == Flushed(i)
<1>1. /\ F \in Seq(Operations) /\ Len(F) >= 1 /\ Shape(F, k, c) /\ k \in 0 .. HeadSlots
      /\ F[1].op # "magic" /\ (i > 0 => F[1].op = "invalidate")
      /\ i < HeadSlots => F[Len(F)].op = "magic" /\ k = i + 1
      /\ i = HeadSlots => F[Len(F)].op = "erase_heads" /\ k = 0
  BY FlushShape
<1>2. Len(pre) \in Nat /\ Len(F) \in Nat
  BY <1>1, LenProperties
<1>3. k < 2 \/ F[1].op = "invalidate"
  <2>1. i = 0 \/ i > 0
    OBVIOUS
  <2>2. i = 0 => k < 2
    BY <1>1, Sizes
  <2>3. QED
    BY <1>1, <2>1, <2>2
<1> HIDE DEF F, k
<1>4. k \in Nat
  BY <1>1, Sizes
<1>5. /\ pre \o F \in Seq(Operations) /\ Shape(pre \o F, k, c)
      /\ Len(pre \o F) = Len(pre) + Len(F)
      /\ \A p \in 1 .. Len(pre) : (pre \o F)[p] = pre[p]
      /\ \A p \in 1 .. Len(F) : (pre \o F)[Len(pre) + p] = F[p]
  BY <1>1, <1>3, <1>4, ShapeBehind
<1>6. todo' = pre \o F /\ head_index' = k
  BY DEF F, k
<1>7. todo'[Len(todo')] = F[Len(F)]
  <2>1. Len(F) \in 1 .. Len(F)
    BY <1>1, <1>2
  <2>2. QED
    BY <1>5, <1>6, <2>1
<1>8. todo'[1].op # "magic" /\ (todo'[1].op = "fields" => i = 0)
  <2>1. CASE Len(pre) = 0
    <3>1. 1 \in 1 .. Len(F) /\ Len(pre) + 1 = 1
      BY <1>1, <1>2, <2>1
    <3>2. todo'[1] = F[1]
      BY <1>5, <1>6, <3>1
    <3>3. i = 0 \/ i > 0
      OBVIOUS
    <3>4. QED
      BY <1>1, <3>2, <3>3
  <2>2. CASE Len(pre) > 0
    <3>1. 1 \in 1 .. Len(pre)
      BY <1>2, <2>2
    <3>2. todo'[1].op \in {"program", "erase", "erase_heads"}
      BY <1>5, <1>6, <3>1 DEF Harmless
    <3>3. QED
      BY <3>2
  <2>3. Len(pre) = 0 \/ Len(pre) > 0
    BY <1>2
  <2>4. QED
    BY <2>1, <2>2, <2>3, Zenon
<1>9. Len(todo') \in Nat \ {0} /\ Len(pre) < Len(todo')
  BY <1>1, <1>2, <1>5, <1>6
<1>10. QED
  BY <1>1, <1>2, <1>5, <1>6, <1>7, <1>8, <1>9

(* ... which keeps the heads in order, if they are or will be erased.      *)
LEMMA PlannedOrder ==
  ASSUME NEW i \in 0 .. HeadSlots, NEW c \in GoodConfigs,
         NEW pre \in Seq(Operations), Harmless(pre),
         todo' = pre \o _flush_head_index(i, c),
         head_index' = Flushed(i), config' = c, heads' = heads, ~around => BlankBehind,
         \/ around'
         \/ \E p \in 1 .. Len(pre) : pre[p].op = "erase_heads"
         \/ heads[0].magic \/ i = 0 => Ordered(i - 1, i),
         around => around'
  PROVE  HeadsInOrder'
<1> DEFINE n == Len(todo')
           k == head_index'
<1>1. /\ n \in Nat \ {0} /\ Len(pre) \in Nat /\ Len(pre) < n
      /\ \A p \in 1 .. Len(pre) : todo'[p] = pre[p]
      /\ i < HeadSlots => k = i + 1 /\ todo'[n].op = "magic"
      /\ i = HeadSlots => k = 0 /\ todo'[n].op = "erase_heads"
      /\ todo'[1].op = "fields" => i = 0
      /\ Shape(todo', k, config')
  BY Planned
<1>2. SUFFICES ASSUME ~around'
               PROVE  HeadsInOrder'
  BY DEF HeadsInOrder
<1>3. BlankBehind'
  BY <1>2, Zenon DEF BlankBehind, Dead
<1>4. \A l, h : Ordered(l, h)' <=> Ordered(l, h)
  BY Zenon DEF Ordered, Dead
<1>5. CASE \E p \in 1 .. Len(pre) : pre[p].op = "erase_heads"
  <2>1. PICK p \in 1 .. Len(pre) : todo'[p].op = "erase_heads"
    BY <1>1, <1>5
  <2>2. p \in 1 .. n /\ p \in 1 .. n - 1
    BY <1>1
  <2>3. ~Settled'
    BY <2>1, <2>2 DEF Settled, Erasing
  <2>4. BeforeErasure'
    BY <2>1, <2>2 DEF BeforeErasure, Erasing
  <2>5. QED
    BY <1>3, <2>3, <2>4 DEF HeadsInOrder
<1>6. CASE heads[0].magic \/ i = 0 => Ordered(i - 1, i)
  <2>1. CASE i < HeadSlots
    <3>1. k = i + 1 /\ todo'[n].op = "magic" /\ n \in 1 .. n
      BY <1>1, <2>1
    <3>2. n # 1
      <4>1. n = 1 => todo'[1].op = "magic"
        BY <3>1
      <4>2. todo'[1].op # "magic"
        BY Planned
      <4>3. QED
        BY <4>1, <4>2
    <3>3. AtRest' /\ AtMagic' /\ BeforeErasure'
      BY <1>1, <3>1, <3>2 DEF AtRest, AtMagic, BeforeErasure, Erasing
    <3>4. BeforeFields'
      <4>1. SUFFICES ASSUME heads[0].magic \/ k = 1
                     PROVE  /\ Ordered(k - 2, k - 1)
                            /\ todo'[1].op = "fields" => Ordered(k - 1, k - 1)
        BY <1>4 DEF BeforeFields
      <4>2. k - 2 = i - 1 /\ k - 1 = i /\ (k = 1 => i = 0)
        BY <3>1
      <4>3. Ordered(k - 2, k - 1)
        BY <1>6, <4>1, <4>2
      <4>4. i = 0 => Ordered(k - 1, k - 1)
        BY <4>2, <4>3 DEF Ordered, Slots
      <4>5. QED
        BY <1>1, <4>3, <4>4
    <3>5. QED
      BY <1>3, <3>3, <3>4 DEF HeadsInOrder
  <2>2. CASE i = HeadSlots
    <3>1. todo'[n].op = "erase_heads" /\ n \in 1 .. n
      BY <1>1, <2>2
    <3>2. ~Settled'
      BY <3>1 DEF Settled, Erasing
    <3>3. BeforeErasure'
      <4>1. SUFFICES ASSUME heads[0].magic
                     PROVE  \A j \in Slots : j < HeadSlots - 1 => Dead(j)
        BY Zenon DEF BeforeErasure, Dead
      <4>2. QED
        BY <1>6, <2>2, <4>1 DEF Ordered
    <3>4. QED
      BY <1>3, <3>2, <3>3 DEF HeadsInOrder
  <2>3. QED
    BY <2>1, <2>2, Sizes
<1>7. QED
  BY <1>2, <1>5, <1>6

LEMMA IdleOrder ==
  ASSUME FlashInv, Idle, ~around
  PROVE  /\ BlankBehind
         /\ heads[0].magic \/ head_index = 0 =>
              Ordered(head_index - 1, head_index) /\ Filled(head_index)
<1>1. Len(todo) = 0 /\ up
  BY DEF Idle
<1>2. Settled
  BY <1>1 DEF Settled
<1>3. BlankBehind /\ AtRest
  BY <1>1, <1>2 DEF FlashInv, HeadsInOrder
<1>4. QED
  BY <1>1, <1>3 DEF AtRest

(* _log_clear.                                                             *)
LEMMA ClearInv ==
  ASSUME FlashInv, Clear
  PROVE  FlashInv'
<1>1. /\ Idle /\ todo' = _log_clear /\ heads' = heads /\ programmed' = programmed
      /\ config' = config /\ head_index' = head_index /\ up' = up /\ up
      /\ twice' = twice /\ around' = around
  BY DEF Clear, flash, ram, history, Idle
<1>2. /\ todo' \in Seq(Operations) /\ Harmless(todo')
      /\ Len(todo') = 3 /\ todo'[1].op = "erase_heads"
  BY <1>1, ClearPlan
<1>3. Types'
  BY <1>1, <1>2 DEF FlashInv, Types
<1>4. Shape(todo, head_index, config)'
  BY <1>2 DEF Shape, Harmless
<1>5. MagicVouches'
  <2>1. \A i \in Slots : heads'[i].magic => Vouched(i)'
    BY <1>1, Zenon DEF FlashInv, MagicVouches, Vouched
  <2>2. todo'[1].op # "magic"
    BY <1>2
  <2>3. QED
    BY <2>1, <2>2, Zenon DEF MagicVouches
<1>6. HeadsInOrder'
  <2>1. ~around => BlankBehind'
    BY <1>1, Zenon DEF FlashInv, HeadsInOrder, BlankBehind, Dead
  <2>2. ~Settled'
    BY <1>2 DEF Settled, Erasing
  <2>3. BeforeErasure'
    BY <1>2 DEF BeforeErasure, Erasing
  <2>4. QED
    BY <1>1, <2>1, <2>2, <2>3 DEF HeadsInOrder
<1>7. QED
  BY <1>1, <1>3, <1>4, <1>5, <1>6 DEF FlashInv

(* Reading moves nothing but the cursor.                                   *)
LEMMA ReadToInside ==
  ASSUME NEW c \in Configs, NEW len \in Nat \ {0}
  PROVE  ReadTo(c, len) \in Addresses
<1>1. c.read \in Addresses /\ c.end \in Addresses
  BY DEF Configs
<1>2. QED
  BY <1>1, Sizes DEF ReadTo, Addresses

LEMMA CursorMoved ==
  ASSUME NEW c \in GoodConfigs, NEW a \in Addresses
  PROVE  [c EXCEPT !.read = a] \in GoodConfigs /\ SameBut([c EXCEPT !.read = a], c)
  BY DEF GoodConfigs, Configs, SameBut

LEMMA ReadMoreGood ==
  ASSUME NEW c \in GoodConfigs, NEW len \in Nat \ {0}
  PROVE  ReadMore(c, len) \in GoodConfigs /\ SameBut(ReadMore(c, len), c)
<1> DEFINE once == [c EXCEPT !.read = ReadTo(c, len)]
           left == len - ReadCount(c, len)
<1>1. c \in Configs /\ SameBut(c, c)
  BY SameButReflexive DEF GoodConfigs
<1>2. once \in GoodConfigs /\ SameBut(once, c)
  BY <1>1, ReadToInside, CursorMoved
<1>3. left \in Int
  <2>1. c.read \in Int
    BY <1>1 DEF Configs, Addresses
  <2>2. ReadTo(c, len) \in Int
    BY <1>1, ReadToInside DEF Addresses
  <2>3. QED
    BY <2>1, <2>2, Sizes DEF ReadCount
<1>4. once \in Configs
  BY <1>2 DEF GoodConfigs
<1> HIDE DEF once, left
<1>5. left > 0 => LET twiceRead == [once EXCEPT !.read = ReadTo(once, left)]
                  IN twiceRead \in GoodConfigs /\ SameBut(twiceRead, once)
  <2>1. SUFFICES ASSUME left > 0
                 PROVE  LET twiceRead == [once EXCEPT !.read = ReadTo(once, left)]
                        IN twiceRead \in GoodConfigs /\ SameBut(twiceRead, once)
    OBVIOUS
  <2>2. left \in Nat \ {0}
    BY <1>3, <2>1
  <2>3. ReadTo(once, left) \in Addresses
    BY <1>4, <2>2, ReadToInside
  <2>4. QED
    BY <1>2, <2>3, CursorMoved
<1>6. ReadMore(c, len) = IF c.read = c.end THEN c
                         ELSE IF left <= 0 \/ once.read = once.end THEN once
                         ELSE [once EXCEPT !.read = ReadTo(once, left)]
  BY DEF ReadMore, once, left
<1>7. ~(left <= 0) => left > 0
  BY <1>3
<1>8. QED
  BY <1>1, <1>2, <1>5, <1>6, <1>7 DEF SameBut

LEMMA CursorInv ==
  ASSUME FlashInv, Idle, config' \in GoodConfigs, SameBut(config', config),
         UNCHANGED <<flash, head_index, todo, up, history>>
  PROVE  FlashInv'
<1>1. /\ todo' = todo /\ heads' = heads /\ programmed' = programmed
      /\ head_index' = head_index /\ up' = up
      /\ twice' = twice /\ around' = around
  BY DEF flash, history
<1>2. todo = << >> /\ Len(todo') = 0
  BY <1>1 DEF Idle
<1>3. Types'
  BY <1>1 DEF FlashInv, Types
<1>4. Shape(todo, head_index, config)'
  BY <1>2 DEF Shape
<1>5. MagicVouches'
  BY <1>1, Zenon DEF FlashInv, MagicVouches, Vouched
<1>6. HeadsInOrder'
  <2>1. SUFFICES ASSUME ~around
                 PROVE  BlankBehind' /\ AtRest' /\ AtMagic' /\ BeforeFields' /\ BeforeErasure'
    BY <1>1 DEF HeadsInOrder
  <2>2. BlankBehind'
    BY <1>1, <2>1, IdleOrder, Zenon DEF BlankBehind, Dead
  <2>3. AtMagic' /\ BeforeFields' /\ BeforeErasure'
    BY <1>2 DEF AtMagic, BeforeFields, BeforeErasure
  <2>4. ASSUME heads[0].magic \/ head_index = 0
        PROVE  Ordered(head_index - 1, head_index)' /\ Filled(head_index)'
    <3>1. Ordered(head_index - 1, head_index) /\ Filled(head_index)
      BY <2>1, <2>4, IdleOrder
    <3>2. Ordered(head_index - 1, head_index)'
      BY <1>1, <3>1, Zenon DEF Ordered, Dead
    <3>3. \A d : SameBut(d, config) => SameBut(d, config')
      BY DEF SameBut
    <3>4. Filled(head_index)'
      BY <1>1, <3>1, <3>3, Zenon DEF Filled
    <3>5. QED
      BY <3>2, <3>4
  <2>5. AtRest'
    BY <1>1, <2>4, Zenon DEF AtRest
  <2>6. QED
    BY <2>2, <2>3, <2>5
<1>7. QED
  BY <1>1, <1>2, <1>3, <1>4, <1>5, <1>6 DEF FlashInv

LEMMA ReadFacts ==
  ASSUME FlashInv, NEW len \in 1 .. MaxLen, NEW ok,
         _log_read(len, ok) \/ _log_read_next(len, ok)
  PROVE  /\ Idle /\ config' \in GoodConfigs /\ SameBut(config', config)
         /\ UNCHANGED <<flash, head_index, todo, up, history>>
<1>1. len \in Nat \ {0} /\ config \in GoodConfigs /\ config \in Configs
  BY Sizes DEF FlashInv, Types, GoodConfigs
<1>2. CASE _log_read_next(len, ok)
  <2>1. config' = IF ok THEN ReadMore(config, len) ELSE config
    BY <1>2 DEF _log_read_next
  <2>2. config' \in GoodConfigs /\ SameBut(config', config)
    BY <1>1, <2>1, ReadMoreGood, SameButReflexive
  <2>3. QED
    BY <1>2, <2>2 DEF _log_read_next, Ready
<1>3. CASE _log_read(len, ok)
  <2> DEFINE c == [config EXCEPT !.read = config.start]
  <2>1. c \in GoodConfigs /\ SameBut(c, config)
    <3>1. config.start \in Addresses
      BY <1>1 DEF Configs
    <3>2. QED
      BY <1>1, <3>1, CursorMoved
  <2>2. config' = IF ok THEN ReadMore(c, len) ELSE c
    BY <1>3 DEF _log_read
  <2> HIDE DEF c
  <2>3. config' \in GoodConfigs /\ SameBut(config', config)
    <3>1. ReadMore(c, len) \in GoodConfigs /\ SameBut(ReadMore(c, len), c)
      BY <1>1, <2>1, ReadMoreGood
    <3>2. SameBut(ReadMore(c, len), config)
      BY <2>1, <3>1 DEF SameBut
    <3>3. QED
      BY <2>1, <2>2, <3>1, <3>2
  <2>4. QED
    BY <1>3, <2>3 DEF _log_read, Ready
<1>4. QED
  BY <1>2, <1>3

LEMMA ReadInv ==
  ASSUME FlashInv, NEW len \in 1 .. MaxLen, NEW ok,
         _log_read(len, ok) \/ _log_read_next(len, ok)
  PROVE  FlashInv'
  BY ReadFacts, CursorInv

(***************************************************************************)
(* Writing.                                                                *)
(***************************************************************************)
LEMMA WriteInv ==
  ASSUME FlashInv, NEW i \in 0 .. HeadSlots, NEW c \in GoodConfigs,
         NEW pre \in Seq(Operations), Harmless(pre), Idle,
         todo' = pre \o _flush_head_index(i, c), head_index' = Flushed(i), config' = c,
         UNCHANGED <<flash, up, twice>>,
         around' \in BOOLEAN, around => around', around' \/ i = head_index
  PROVE  FlashInv'
<1>1. /\ heads' = heads /\ programmed' = programmed /\ up' = up /\ up
      /\ twice' = twice
  BY DEF flash, Idle
<1>2. /\ head_index' \in 0 .. HeadSlots /\ todo' \in Seq(Operations)
      /\ Shape(todo', head_index', config') /\ todo'[1].op # "magic"
  BY Planned
<1>3. Types'
  BY <1>1, <1>2 DEF FlashInv, Types
<1>4. MagicVouches'
  <2>1. \A j \in Slots : heads'[j].magic => Vouched(j)'
    BY <1>1, Zenon DEF FlashInv, MagicVouches, Vouched
  <2>2. QED
    BY <1>2, <2>1, Zenon DEF MagicVouches
<1>5. HeadsInOrder'
  <2>1. ~around => BlankBehind
    BY DEF FlashInv, HeadsInOrder
  <2>2. around' \/ (heads[0].magic \/ i = 0 => Ordered(i - 1, i))
    BY IdleOrder
  <2>3. QED
    BY <1>1, <2>1, <2>2, PlannedOrder
<1>6. QED
  BY <1>1, <1>2, <1>3, <1>4, <1>5 DEF FlashInv

(* An operation that is there if b holds.                                  *)
LEMMA Optional ==
  ASSUME NEW f \in Operations, NEW b, f.op \in {"program", "erase", "erase_heads"}
  PROVE  LET s == IF b THEN <<f>> ELSE << >>
         IN /\ s \in Seq(Operations) /\ Harmless(s)
            /\ Len(s) = IF b THEN 1 ELSE 0
            /\ b => s[1] = f
<1>1. CASE b
  BY <1>1, HarmlessOne, Singles
<1>2. CASE ~b
  BY <1>2, HarmlessNone
<1>3. QED
  BY <1>1, <1>2

LEMMA Joined ==
  ASSUME NEW s \in Seq(Operations), NEW r \in Seq(Operations), Harmless(s), Harmless(r)
  PROVE  LET t == s \o r
         IN /\ t \in Seq(Operations) /\ Harmless(t)
            /\ Len(s) \in Nat /\ Len(r) \in Nat /\ Len(t) = Len(s) + Len(r)
            /\ \A p \in 1 .. Len(t) : \/ p \in 1 .. Len(s) /\ t[p] = s[p]
                                      \/ p - Len(s) \in 1 .. Len(r) /\ t[p] = r[p - Len(s)]
            /\ \A p \in 1 .. Len(s) : p \in 1 .. Len(t) /\ t[p] = s[p]
            /\ \A p \in 1 .. Len(r) : Len(s) + p \in 1 .. Len(t) /\ t[Len(s) + p] = r[p]
<1> DEFINE t == s \o r
<1>1. /\ Len(t) = Len(s) + Len(r)
      /\ \A p \in 1 .. Len(s) + Len(r) : t[p] = IF p <= Len(s) THEN s[p] ELSE r[p - Len(s)]
  BY ConcatProperties
<1>2. Len(s) \in Nat /\ Len(r) \in Nat
  BY LenProperties
<1>3. t \in Seq(Operations) /\ Harmless(t)
  BY HarmlessConcat
<1> HIDE DEF t
<1>4. \A p \in 1 .. Len(t) : \/ p \in 1 .. Len(s) /\ t[p] = s[p]
                             \/ p - Len(s) \in 1 .. Len(r) /\ t[p] = r[p - Len(s)]
  BY <1>1, <1>2
<1>5. \A p \in 1 .. Len(s) : p \in 1 .. Len(t) /\ t[p] = s[p]
  BY <1>1, <1>2
<1>6. ASSUME NEW p \in 1 .. Len(r)
      PROVE  Len(s) + p \in 1 .. Len(t) /\ t[Len(s) + p] = r[p]
  <2>1. /\ Len(s) + p \in 1 .. Len(s) + Len(r) /\ ~(Len(s) + p <= Len(s))
        /\ (Len(s) + p) - Len(s) = p
    BY <1>2
  <2>2. QED
    BY <1>1, <2>1
<1>7. QED
  BY <1>1, <1>2, <1>3, <1>4, <1>5, <1>6 DEF t

(* What _log_write plans: sector 5 is erased when the text reaches beyond  *)
(* what is erased, and nothing else ever is.                               *)
OnPlan(len, ok, erases, pre) ==
  /\ \A p \in 1 .. Len(pre) :
       \/ erases /\ p = 1 /\ pre[p] = Erase(Sector4)
       \/ ok /\ p = (IF erases THEN 2 ELSE 1) /\ pre[p] = Program(config.write, len)
  /\ erases => 1 \in 1 .. Len(pre) /\ pre[1] = Erase(Sector4)
  /\ ok => \E p \in 1 .. Len(pre) : pre[p] = Program(config.write, len)

LEMMA WriteOnPlan ==
  ASSUME FlashInv, NEW len \in 1 .. MaxLen, NEW ok \in BOOLEAN, WriteOn(len, ok)
  PROVE  \E i \in 0 .. HeadSlots, c \in GoodConfigs, pre \in Seq(Operations), erases \in BOOLEAN :
           /\ Harmless(pre)
           /\ todo' = pre \o _flush_head_index(i, c) /\ head_index' = Flushed(i) /\ config' = c
           /\ Idle /\ UNCHANGED <<flash, up, twice>>
           /\ erases <=> config.erase < config.write + len
           /\ config.write + len <= LogEnd
           /\ i = IF erases THEN 0 ELSE head_index
           /\ c.write = IF ok THEN config.write + len ELSE config.write
           /\ c.erase = IF erases THEN LogEnd + 1 ELSE config.erase
           /\ erases => config.erase = Sector4
           /\ around' = (around \/ erases)
           /\ forked' = (forked \/ (erases /\ head_index > 0 /\ ~heads[0].magic))
           /\ OnPlan(len, ok, erases, pre)
<1> DEFINE c == config
           erases == c.erase < c.write + len
           from == IF c.erase = LogEnd THEN 0 ELSE c.erase
           erase == IF erases THEN from + SectorSize(from) ELSE c.erase
           write == IF ok THEN c.write + len ELSE c.write
           again == erases /\ from >= Sector4
           i == IF again THEN 0 ELSE head_index
           new == [c EXCEPT !.erase = erase, !.write = write, !.end = write,
                            !.start = IF ~erases THEN @ ELSE IF erase = LogEnd THEN 0 ELSE erase]
           A == IF erases THEN <<Erase(from)>> ELSE << >>
           B == IF ok THEN <<Program(c.write, len)>> ELSE << >>
<1>1. /\ Idle /\ c.write + len <= LogEnd /\ config' = new /\ head_index' = Flushed(i)
      /\ todo' = (A \o B) \o _flush_head_index(i, new)
      /\ around' = (around \/ again)
      /\ forked' = (forked \/ (again /\ head_index > 0 /\ ~heads[0].magic))
      /\ UNCHANGED <<flash, up, twice>>
  BY DEF WriteOn, Ready
<1>2. /\ len \in Nat \ {0} /\ c \in GoodConfigs /\ head_index \in 0 .. HeadSlots
      /\ around \in BOOLEAN
  BY Sizes DEF FlashInv, Types
<1>3. /\ c.write \in Nat /\ c.write \in Addresses /\ c.erase \in {Sector4, LogEnd, LogEnd + 1}
      /\ c.start \in Addresses /\ c \in Configs
  BY <1>2 DEF GoodConfigs, Configs, Addresses
<1>4. erases => c.erase = Sector4 /\ from = Sector4 /\ erase = LogEnd + 1
  <2>1. c.write + len <= LogEnd
    BY <1>1
  <2>2. erases => c.erase = Sector4 /\ Sector4 # LogEnd
    BY <1>2, <1>3, <2>1, Sizes
  <2>3. Sector4 + SectorSize(Sector4) = LogEnd + 1
    BY FlashAssumption DEF SectorSize, LogEnd
  <2>4. QED
    BY <2>2, <2>3
<1>5. from \in Addresses /\ erase \in {Sector4, LogEnd, LogEnd + 1} /\ erase \in Addresses
      /\ write \in Addresses /\ write <= LogEnd
  <2>1. erase \in {Sector4, LogEnd, LogEnd + 1}
    BY <1>3, <1>4
  <2>2. {0, Sector4, LogEnd, LogEnd + 1} \subseteq Addresses
    BY Sizes DEF Addresses
  <2>3. from \in Addresses /\ erase \in Addresses
    <3> HIDE DEF erase
    <3> QED
      BY <1>3, <2>1, <2>2
  <2>4. c.write + len <= LogEnd
    BY <1>1
  <2>5. write \in Addresses /\ write <= LogEnd
    BY <1>2, <1>3, <2>4, Sizes DEF Addresses
  <2>6. QED
    BY <2>1, <2>3, <2>5
<1>12. again <=> erases
  BY <1>4, Sizes
<1>13. erases \in BOOLEAN
  OBVIOUS
<1>14. /\ write = IF ok THEN c.write + len ELSE c.write
       /\ erase = IF erases THEN LogEnd + 1 ELSE c.erase
       /\ erases <=> c.erase < c.write + len
  BY <1>4
<1> HIDE DEF erase, write, erases, from
<1>6. new \in GoodConfigs /\ new.write = write /\ new.erase = erase
  <2> DEFINE start == IF ~erases THEN c.start ELSE IF erase = LogEnd THEN 0 ELSE erase
  <2>1. start \in Addresses
    BY <1>3, <1>5, Sizes DEF Addresses
  <2>2. new = [c EXCEPT !.erase = erase, !.write = write, !.end = write, !.start = start]
    BY <1>3 DEF Configs
  <2> HIDE DEF start
  <2>3. QED
    BY <1>3, <1>5, <2>1, <2>2 DEF GoodConfigs, Configs
<1>7. /\ A \in Seq(Operations) /\ Harmless(A)
      /\ Len(A) = IF erases THEN 1 ELSE 0
      /\ erases => A[1] = Erase(from)
  BY <1>5, ErasureOps, Optional
<1>8. /\ B \in Seq(Operations) /\ Harmless(B)
      /\ Len(B) = IF ok THEN 1 ELSE 0
      /\ ok => B[1] = Program(c.write, len)
  <2>1. c.write + len - 1 <= LogEnd
    BY <1>1, <1>2, <1>3, Sizes
  <2>2. QED
    BY <1>2, <1>3, <2>1, ProgramOps, Optional
<1> HIDE DEF new, A, B, again
<1>9. /\ A \o B \in Seq(Operations) /\ Harmless(A \o B)
      /\ Len(A \o B) = Len(A) + Len(B)
      /\ \A p \in 1 .. Len(A \o B) :
             \/ p \in 1 .. Len(A) /\ (A \o B)[p] = A[p]
             \/ p - Len(A) \in 1 .. Len(B) /\ (A \o B)[p] = B[p - Len(A)]
      /\ \A p \in 1 .. Len(A) : p \in 1 .. Len(A \o B) /\ (A \o B)[p] = A[p]
      /\ \A p \in 1 .. Len(B) : Len(A) + p \in 1 .. Len(A \o B) /\ (A \o B)[Len(A) + p] = B[p]
  BY <1>7, <1>8, Joined
<1>10. PICK pre : pre = A \o B
  OBVIOUS
<1>11. OnPlan(len, ok, erases, pre)
  <2>1. ASSUME NEW p \in 1 .. Len(pre)
        PROVE  \/ erases /\ p = 1 /\ pre[p] = Erase(Sector4)
               \/ ok /\ p = (IF erases THEN 2 ELSE 1) /\ pre[p] = Program(config.write, len)
    <3>1. CASE p \in 1 .. Len(A) /\ pre[p] = A[p]
      BY <1>4, <1>7, <3>1
    <3>2. CASE p - Len(A) \in 1 .. Len(B) /\ pre[p] = B[p - Len(A)]
      <4>1. ok /\ p - Len(A) = 1 /\ p = Len(A) + 1
        BY <1>7, <1>8, <3>2
      <4>2. QED
        BY <1>7, <1>8, <3>2, <4>1
    <3>3. QED
      BY <1>9, <1>10, <3>1, <3>2
  <2>2. erases => 1 \in 1 .. Len(pre) /\ pre[1] = Erase(Sector4)
    BY <1>4, <1>7, <1>9, <1>10
  <2>3. ok => \E p \in 1 .. Len(pre) : pre[p] = Program(config.write, len)
    <3>1. SUFFICES ASSUME ok PROVE \E p \in 1 .. Len(pre) : pre[p] = Program(config.write, len)
      OBVIOUS
    <3>2. 1 \in 1 .. Len(B)
      BY <1>8, <3>1
    <3>3. QED
      BY <1>8, <1>9, <1>10, <3>1, <3>2
  <2>4. QED
    BY <2>1, <2>2, <2>3 DEF OnPlan
<1>15. i = (IF erases THEN 0 ELSE head_index) /\ i \in 0 .. HeadSlots
  BY <1>2, <1>12, Sizes
<1>16. /\ around' = (around \/ erases)
       /\ forked' = (forked \/ (erases /\ head_index > 0 /\ ~heads[0].magic))
  BY <1>1, <1>12
<1>17. /\ new.write = IF ok THEN config.write + len ELSE config.write
       /\ new.erase = IF erases THEN LogEnd + 1 ELSE config.erase
       /\ erases <=> config.erase < config.write + len
       /\ erases => config.erase = Sector4
       /\ config.write + len <= LogEnd
  BY <1>1, <1>4, <1>6, <1>14, Zenon
<1>18. /\ todo' = pre \o _flush_head_index(i, new) /\ head_index' = Flushed(i) /\ config' = new
       /\ pre \in Seq(Operations) /\ Harmless(pre)
  BY <1>1, <1>9, <1>10, Zenon
<1> HIDE DEF i, c
<1>19. QED
  BY <1>1, <1>6, <1>11, <1>13, <1>15, <1>16, <1>17, <1>18, Zenon

LEMMA WriteOnInv ==
  ASSUME FlashInv, NEW len \in 1 .. MaxLen, NEW ok \in BOOLEAN, WriteOn(len, ok)
  PROVE  FlashInv'
<1>1. PICK i \in 0 .. HeadSlots, c \in GoodConfigs, pre \in Seq(Operations), erases \in BOOLEAN :
        /\ Harmless(pre)
        /\ todo' = pre \o _flush_head_index(i, c) /\ head_index' = Flushed(i) /\ config' = c
        /\ Idle /\ UNCHANGED <<flash, up, twice>>
        /\ i = IF erases THEN 0 ELSE head_index
        /\ around' = (around \/ erases)
  BY WriteOnPlan
<1>2. around \in BOOLEAN
  BY DEF FlashInv, Types
<1>3. around' \in BOOLEAN /\ (around => around') /\ (around' \/ i = head_index)
  BY <1>1, <1>2
<1>4. QED
  BY <1>1, <1>3, WriteInv

(* What persistence_write plans when the text does not fit: sector 4 is    *)
(* erased between the two halves.                                          *)
AroundPlan(len, filled, ok, pre) ==
  LET first == LogEnd - config.write
      e == IF filled THEN 2 ELSE 1
  IN /\ \A p \in 1 .. Len(pre) :
          \/ filled /\ p = 1 /\ pre[p] = Program(config.write, first)
          \/ p = e /\ pre[p] = Erase(0)
          \/ ok /\ p = e + 1 /\ pre[p] = Program(0, len - first)
     /\ e \in 1 .. Len(pre) /\ pre[e] = Erase(0)
     /\ ok => \E p \in 1 .. Len(pre) : pre[p] = Program(0, len - first)

LEMMA WriteAroundPlan ==
  ASSUME FlashInv, NEW len \in 1 .. MaxLen, NEW filled \in BOOLEAN, NEW ok \in BOOLEAN,
         WriteAround(len, filled, ok)
  PROVE  \E c \in GoodConfigs, pre \in Seq(Operations) :
           /\ Harmless(pre)
           /\ todo' = pre \o _flush_head_index(head_index, c) /\ head_index' = Flushed(head_index)
           /\ config' = c
           /\ Idle /\ UNCHANGED <<flash, up, history>>
           /\ config.write + len > LogEnd
           /\ c.write = IF ok THEN len - (LogEnd - config.write) ELSE 0
           /\ c.erase = Sector4
           /\ AroundPlan(len, filled, ok, pre)
<1> DEFINE first == LogEnd - config.write
           write == IF ok THEN len - first ELSE 0
           new == [config EXCEPT !.erase = Sector4, !.start = Sector4,
                                 !.write = write, !.end = write]
           A == IF filled THEN <<Program(config.write, first)>> ELSE << >>
           B == <<Erase(0)>>
           C == IF ok THEN <<Program(0, len - first)>> ELSE << >>
<1>1. /\ Idle /\ config.write + len > LogEnd /\ config' = new /\ head_index' = Flushed(head_index)
      /\ todo' = ((A \o B) \o C) \o _flush_head_index(head_index, new)
      /\ UNCHANGED <<flash, up, history>>
  BY DEF WriteAround, Ready
<1>2. /\ len \in Nat \ {0} /\ len <= MaxLen
      /\ config \in GoodConfigs /\ head_index \in 0 .. HeadSlots
      /\ around \in BOOLEAN
  BY Sizes DEF FlashInv, Types
<1>3. config.write \in Nat /\ config.write \in Addresses /\ config.write <= LogEnd /\ config \in Configs
  BY <1>2 DEF GoodConfigs, Configs, Addresses
<1>4. /\ first \in Nat /\ len - first \in Nat /\ len - first <= LogEnd
      /\ write \in Addresses /\ write <= LogEnd
      /\ config.write + first - 1 <= LogEnd /\ 0 + (len - first) - 1 <= LogEnd
      /\ 0 \in Addresses
  <2>1. first \in Nat /\ len - first \in Nat /\ len - first <= LogEnd
    BY <1>1, <1>2, <1>3, Sizes
  <2>2. config.write + first - 1 <= LogEnd
    BY <1>3, Sizes
  <2> HIDE DEF first
  <2>3. write \in Addresses /\ write <= LogEnd
    BY <2>1, Sizes DEF Addresses
  <2>4. QED
    BY <2>1, <2>2, <2>3, Sizes DEF Addresses
<1>10. write = IF ok THEN len - first ELSE 0
  OBVIOUS
<1> HIDE DEF first, write
<1>5. new \in GoodConfigs /\ new.write = write /\ new.erase = Sector4
  <2>1. Sector4 \in Addresses
    BY Sizes DEF Addresses
  <2>2. QED
    BY <1>3, <1>4, <2>1 DEF GoodConfigs, Configs
<1>6. /\ A \in Seq(Operations) /\ Harmless(A) /\ Len(A) = (IF filled THEN 1 ELSE 0)
      /\ filled => A[1] = Program(config.write, first)
      /\ B \in Seq(Operations) /\ Harmless(B) /\ Len(B) = 1 /\ B[1] = Erase(0)
      /\ C \in Seq(Operations) /\ Harmless(C) /\ Len(C) = (IF ok THEN 1 ELSE 0)
      /\ ok => C[1] = Program(0, len - first)
  <2>1. /\ A \in Seq(Operations) /\ Harmless(A) /\ Len(A) = (IF filled THEN 1 ELSE 0)
        /\ filled => A[1] = Program(config.write, first)
    BY <1>3, <1>4, ProgramOps, Optional
  <2>2. B \in Seq(Operations) /\ Harmless(B) /\ Len(B) = 1 /\ B[1] = Erase(0)
    BY <1>4, ErasureOps, HarmlessOne, Singles
  <2>3. /\ C \in Seq(Operations) /\ Harmless(C) /\ Len(C) = (IF ok THEN 1 ELSE 0)
        /\ ok => C[1] = Program(0, len - first)
    BY <1>4, ProgramOps, Optional
  <2>4. QED
    BY <2>1, <2>2, <2>3
<1> HIDE DEF new, A, B, C
<1>7. PICK s : s = A \o B
  OBVIOUS
<1>8. /\ s \in Seq(Operations) /\ Harmless(s) /\ Len(s) = Len(A) + 1
      /\ \A p \in 1 .. Len(s) : \/ p \in 1 .. Len(A) /\ s[p] = A[p]
                                \/ p - Len(A) \in 1 .. Len(B) /\ s[p] = B[p - Len(A)]
      /\ \A p \in 1 .. Len(A) : p \in 1 .. Len(s) /\ s[p] = A[p]
      /\ \A p \in 1 .. Len(B) : Len(A) + p \in 1 .. Len(s) /\ s[Len(A) + p] = B[p]
  <2>1. /\ A \o B \in Seq(Operations) /\ Harmless(A \o B) /\ Len(A \o B) = Len(A) + Len(B)
        /\ \A p \in 1 .. Len(A \o B) :
             \/ p \in 1 .. Len(A) /\ (A \o B)[p] = A[p]
             \/ p - Len(A) \in 1 .. Len(B) /\ (A \o B)[p] = B[p - Len(A)]
        /\ \A p \in 1 .. Len(A) : p \in 1 .. Len(A \o B) /\ (A \o B)[p] = A[p]
        /\ \A p \in 1 .. Len(B) : Len(A) + p \in 1 .. Len(A \o B) /\ (A \o B)[Len(A) + p] = B[p]
    BY <1>6, Joined
  <2>2. QED
    BY <1>6, <1>7, <2>1
<1>9. PICK pre : pre = s \o C
  OBVIOUS
<1>11. /\ pre \in Seq(Operations) /\ Harmless(pre)
       /\ \A p \in 1 .. Len(pre) : \/ p \in 1 .. Len(s) /\ pre[p] = s[p]
                                   \/ p - Len(s) \in 1 .. Len(C) /\ pre[p] = C[p - Len(s)]
       /\ \A p \in 1 .. Len(s) : p \in 1 .. Len(pre) /\ pre[p] = s[p]
       /\ \A p \in 1 .. Len(C) : Len(s) + p \in 1 .. Len(pre) /\ pre[Len(s) + p] = C[p]
  <2>1. /\ s \o C \in Seq(Operations) /\ Harmless(s \o C)
        /\ \A p \in 1 .. Len(s \o C) :
             \/ p \in 1 .. Len(s) /\ (s \o C)[p] = s[p]
             \/ p - Len(s) \in 1 .. Len(C) /\ (s \o C)[p] = C[p - Len(s)]
        /\ \A p \in 1 .. Len(s) : p \in 1 .. Len(s \o C) /\ (s \o C)[p] = s[p]
        /\ \A p \in 1 .. Len(C) : Len(s) + p \in 1 .. Len(s \o C) /\ (s \o C)[Len(s) + p] = C[p]
    BY <1>6, <1>8, Joined
  <2>2. QED
    BY <1>9, <2>1
<1>12. AroundPlan(len, filled, ok, pre)
  <2> DEFINE e == IF filled THEN 2 ELSE 1
  <2>1. Len(s) = e /\ Len(A) = e - 1 /\ e \in Nat
    BY <1>6, <1>8
  <2>2. e \in 1 .. Len(pre) /\ pre[e] = Erase(0)
    <3>1. Len(A) + 1 \in 1 .. Len(s) /\ s[Len(A) + 1] = B[1]
      BY <1>6, <1>8
    <3>2. QED
      BY <1>6, <1>11, <2>1, <3>1
  <2>3. ASSUME NEW p \in 1 .. Len(pre)
        PROVE  \/ filled /\ p = 1 /\ pre[p] = Program(config.write, first)
               \/ p = e /\ pre[p] = Erase(0)
               \/ ok /\ p = e + 1 /\ pre[p] = Program(0, len - first)
    <3>1. CASE p \in 1 .. Len(s) /\ pre[p] = s[p]
      <4>1. CASE p \in 1 .. Len(A) /\ s[p] = A[p]
        BY <1>6, <3>1, <4>1
      <4>2. CASE p - Len(A) \in 1 .. Len(B) /\ s[p] = B[p - Len(A)]
        BY <1>6, <2>1, <3>1, <4>2
      <4>3. QED
        BY <1>8, <3>1, <4>1, <4>2
    <3>2. CASE p - Len(s) \in 1 .. Len(C) /\ pre[p] = C[p - Len(s)]
      <4>1. ok /\ p - Len(s) = 1
        BY <1>6, <3>2
      <4>2. QED
        BY <1>6, <2>1, <3>2, <4>1
    <3>3. QED
      BY <1>11, <3>1, <3>2
  <2>4. ok => \E p \in 1 .. Len(pre) : pre[p] = Program(0, len - first)
    <3>1. SUFFICES ASSUME ok PROVE \E p \in 1 .. Len(pre) : pre[p] = Program(0, len - first)
      OBVIOUS
    <3>2. 1 \in 1 .. Len(C)
      BY <1>6, <3>1
    <3>3. QED
      BY <1>6, <1>11, <3>1, <3>2
  <2> HIDE DEF e
  <2>5. e = IF filled THEN 2 ELSE 1
    BY DEF e
  <2>6. QED
    BY <2>2, <2>3, <2>4, <2>5, Zenon DEF AroundPlan, first
<1>13. /\ new.write = (IF ok THEN len - (LogEnd - config.write) ELSE 0)
       /\ new.erase = Sector4
  BY <1>5, <1>10, Zenon DEF first
<1>14. /\ todo' = pre \o _flush_head_index(head_index, new)
       /\ head_index' = Flushed(head_index) /\ config' = new
  BY <1>1, <1>7, <1>9, Zenon
<1>15. QED
  BY <1>1, <1>5, <1>11, <1>12, <1>13, <1>14, Zenon

LEMMA WriteAroundInv ==
  ASSUME FlashInv, NEW len \in 1 .. MaxLen, NEW filled \in BOOLEAN, NEW ok \in BOOLEAN,
         WriteAround(len, filled, ok)
  PROVE  FlashInv'
<1>1. PICK c \in GoodConfigs, pre \in Seq(Operations) :
        /\ Harmless(pre)
        /\ todo' = pre \o _flush_head_index(head_index, c) /\ head_index' = Flushed(head_index)
        /\ config' = c
        /\ Idle /\ UNCHANGED <<flash, up, history>>
  BY WriteAroundPlan
<1>2. head_index \in 0 .. HeadSlots /\ around \in BOOLEAN
  BY DEF FlashInv, Types
<1>3. UNCHANGED <<flash, up, twice>> /\ around' = around
  BY <1>1 DEF history
<1>4. QED
  BY <1>1, <1>2, <1>3, WriteInv

(***************************************************************************)
(* Restart.                                                                *)
(***************************************************************************)
(* __find_valid_head_index finds the first valid head, if there is one.    *)
LEMMA FoundFirst ==
  ASSUME Types
  PROVE  /\ FoundHead \in 0 .. HeadSlots
         /\ FoundHead < HeadSlots =>
              FoundHead \in Slots /\ heads[FoundHead].magic /\ ~Dead(FoundHead)
         /\ \A i \in Slots : i < FoundHead => Dead(i)
<1> DEFINE found == {i \in DOMAIN heads : heads[i].magic /\ heads[i].valid}
<1>1. DOMAIN heads = Slots
  BY DEF Types
<1>2. FoundHead = IF found = {} THEN HeadSlots ELSE CHOOSE i \in found : \A j \in found : i <= j
  BY DEF FoundHead
<1>3. found \in SUBSET Slots /\ \A i \in Slots : i \in found <=> ~Dead(i)
  BY <1>1, Zenon DEF Dead
<1>4. \A i \in Slots : i \in found => heads[i].magic
  BY Zenon
<1> HIDE DEF found
<1>5. CASE found = {}
  <2>1. FoundHead = HeadSlots
    BY <1>2, <1>5
  <2>2. QED
    BY <1>3, <1>5, <2>1, Sizes
<1>6. CASE found # {}
  <2>1. \E i \in found : \A j \in found : i <= j
    BY <1>3, <1>6, LeastNumber DEF Slots
  <2>2. FoundHead \in found /\ \A j \in found : FoundHead <= j
    BY <1>2, <1>6, <2>1
  <2>3. FoundHead \in Slots
    BY <1>3, <2>2
  <2>4. \A i \in Slots : i < FoundHead => i \notin found
    BY <2>2, <2>3 DEF Slots
  <2>5. FoundHead \in 0 .. HeadSlots
    BY <2>3, Sizes DEF Slots
  <2>6. QED
    BY <1>3, <1>4, <2>2, <2>3, <2>4, <2>5
<1>7. QED
  BY <1>5, <1>6

LEMMA AdoptedGood ==
  ASSUME FlashInv, FoundHead < HeadSlots
  PROVE  /\ FoundHead \in Slots /\ FoundHead + 1 \in 0 .. HeadSlots
         /\ heads[FoundHead].config \in (GoodConfigs \cup Marks) \ {Torn}
<1>1. FoundHead \in Slots /\ heads[FoundHead].magic /\ heads \in [Slots -> GoodHeads]
  BY FoundFirst DEF FlashInv, Types
<1>2. FoundHead + 1 \in 0 .. HeadSlots
  BY <1>1, Sizes DEF Slots
<1>3. heads[FoundHead].config \in GoodConfigs \cup Marks
  BY <1>1 DEF GoodHeads
<1>4. heads[FoundHead].config # Torn
  BY <1>1 DEF FlashInv, MagicVouches, Vouched
<1>5. QED
  BY <1>1, <1>2, <1>3, <1>4

(* A restart that clears the log.                                          *)
LEMMA RestartClears ==
  ASSUME FlashInv, NEW i \in 0 .. HeadSlots, NEW c \in GoodConfigs,
         todo' = _log_clear \o _flush_head_index(i, c), head_index' = Flushed(i), config' = c,
         up' = TRUE, UNCHANGED <<flash, history>>
  PROVE  FlashInv'
<1>1. /\ heads' = heads /\ programmed' = programmed /\ twice' = twice /\ around' = around
  BY DEF flash, history
<1>2. /\ head_index' \in 0 .. HeadSlots /\ todo' \in Seq(Operations)
      /\ Shape(todo', head_index', config') /\ todo'[1].op # "magic"
  BY ClearPlan, Planned
<1>3. Types'
  BY <1>1, <1>2 DEF FlashInv, Types
<1>4. MagicVouches'
  <2>1. \A j \in Slots : heads'[j].magic => Vouched(j)'
    BY <1>1, Zenon DEF FlashInv, MagicVouches, Vouched
  <2>2. QED
    BY <1>2, <2>1, Zenon DEF MagicVouches
<1>5. HeadsInOrder'
  <2>1. ~around => BlankBehind
    BY DEF FlashInv, HeadsInOrder
  <2>2. \E p \in 1 .. Len(_log_clear) : _log_clear[p].op = "erase_heads"
    <3>1. 1 \in 1 .. Len(_log_clear)
      BY ClearPlan
    <3>2. QED
      BY <3>1, ClearPlan
  <2>3. QED
    BY <1>1, <2>1, <2>2, ClearPlan, PlannedOrder
<1>6. QED
  BY <1>2, <1>3, <1>4, <1>5 DEF FlashInv

(* A restart that goes on after the head it found.                         *)
LEMMA RestartContinues ==
  ASSUME FlashInv, FoundHead < HeadSlots, heads[FoundHead].config \in Configs,
         config' = heads[FoundHead].config, up' = TRUE,
         head_index' = FoundHead + 1, todo' = << >>, UNCHANGED <<flash, history>>
  PROVE  FlashInv'
<1> DEFINE k == FoundHead
<1>1. /\ heads' = heads /\ programmed' = programmed /\ twice' = twice /\ around' = around
  BY DEF flash, history
<1>2. k \in Slots /\ k + 1 \in 0 .. HeadSlots /\ config' \in GoodConfigs /\ config' # Torn
  BY AdoptedGood, MarksApart
<1>3. todo' \in Seq(Operations) /\ Len(todo') = 0
  OBVIOUS
<1>4. Types'
  BY <1>1, <1>2, <1>3 DEF FlashInv, Types
<1>5. Shape(todo, head_index, config)'
  BY <1>3 DEF Shape
<1>6. MagicVouches'
  BY <1>1, Zenon DEF FlashInv, MagicVouches, Vouched
<1>7. HeadsInOrder'
  <2>1. SUFFICES ASSUME ~around
                 PROVE  BlankBehind' /\ AtRest' /\ AtMagic' /\ BeforeFields' /\ BeforeErasure'
    BY <1>1 DEF HeadsInOrder
  <2>2. BlankBehind
    BY <2>1 DEF FlashInv, HeadsInOrder
  <2>3. BlankBehind'
    BY <1>1, <2>2, Zenon DEF BlankBehind, Dead
  <2>4. AtMagic' /\ BeforeFields' /\ BeforeErasure'
    BY <1>3 DEF AtMagic, BeforeFields, BeforeErasure
  <2>5. ASSUME heads[0].magic
        PROVE  \A i \in Slots : /\ i < k => Dead(i)
                                /\ i >= k + 1 => heads[i] = Blank
                                /\ i = k => SameBut(heads[i].config, config')
    <3>1. SUFFICES ASSUME NEW i \in Slots
                   PROVE  /\ i < k => Dead(i)
                          /\ i >= k + 1 => heads[i] = Blank
                          /\ i = k => SameBut(heads[i].config, config')
      OBVIOUS
    <3>2. i < k => Dead(i)
      BY FoundFirst DEF FlashInv
    <3>3. ~Dead(k)
      BY FoundFirst DEF FlashInv
    <3>4. i >= k + 1 => k < i
      BY <1>2 DEF Slots
    <3>5. i >= k + 1 => heads[i] = Blank
      BY <1>2, <2>2, <2>5, <3>3, <3>4, Zenon DEF BlankBehind
    <3>6. SameBut(heads[k].config, config')
      BY SameButReflexive
    <3>7. QED
      BY <3>2, <3>5, <3>6
  <2>6. AtRest'
    <3>1. head_index' = k + 1 /\ head_index' - 1 = k /\ head_index' # 0
      BY <1>2 DEF Slots
    <3>2. SUFFICES ASSUME heads[0].magic
                   PROVE  /\ \A i \in Slots : (i < k => Dead(i)') /\ (i >= k + 1 => heads'[i] = Blank)
                          /\ \A i \in Slots : i = k => SameBut(heads'[i].config, config')
      BY <1>1, <3>1, Zenon DEF AtRest, Ordered, Filled
    <3>3. QED
      BY <1>1, <2>5, <3>2, Zenon DEF Dead
  <2>7. QED
    BY <2>3, <2>4, <2>6
<1>8. QED
  BY <1>4, <1>5, <1>6, <1>7 DEF FlashInv

(* A restart clears the log, or adopts the head it found: as it is, unless *)
(* it is a mixture, and then the place of the next write decides.          *)
RestartAdopts ==
  /\ heads[0].magic /\ FoundHead < HeadSlots
  /\ config' = heads[FoundHead].config /\ config' \in Configs
  /\ \/ /\ NextWriteErased(config')
        /\ head_index' = FoundHead + 1 /\ todo' = << >>
     \/ /\ ~NextWriteErased(config')
        /\ head_index' = Flushed(FoundHead + 1)
        /\ todo' = _log_clear \o _flush_head_index(FoundHead + 1, config')

LEMMA RestartCases ==
  ASSUME Restart, ~garbled'
  PROVE  \/ /\ config' = Default
            /\ head_index' = Flushed(0)
            /\ todo' = _log_clear \o _flush_head_index(0, Default)
         \/ /\ config' = Default
            /\ head_index' = Flushed(HeadSlots)
            /\ todo' = _log_clear \o _flush_head_index(HeadSlots, Default)
         \/ RestartAdopts
BY Zenon DEF Restart, RestartAdopts

LEMMA RestartInv ==
  ASSUME FlashInv, Restart, ~garbled'
  PROVE  FlashInv'
<1>0. up' = TRUE /\ UNCHANGED <<flash, history>>
  BY DEF Restart
<1>1. CASE /\ config' = Default
           /\ head_index' = Flushed(0)
           /\ todo' = _log_clear \o _flush_head_index(0, Default)
  <2>1. 0 \in 0 .. HeadSlots
    BY Sizes
  <2>2. QED
    BY <1>0, <1>1, <2>1, DefaultGood, RestartClears
<1>2. CASE /\ config' = Default
           /\ head_index' = Flushed(HeadSlots)
           /\ todo' = _log_clear \o _flush_head_index(HeadSlots, Default)
  <2>1. HeadSlots \in 0 .. HeadSlots
    BY Sizes
  <2>2. QED
    BY <1>0, <1>2, <2>1, DefaultGood, RestartClears
<1>3. CASE RestartAdopts
  <2>1. CASE head_index' = FoundHead + 1 /\ todo' = << >>
    BY <1>0, <1>3, <2>1, RestartContinues DEF RestartAdopts
  <2>2. CASE /\ head_index' = Flushed(FoundHead + 1)
             /\ todo' = _log_clear \o _flush_head_index(FoundHead + 1, config')
    <3>1. config' \in GoodConfigs /\ FoundHead + 1 \in 0 .. HeadSlots
      BY <1>3, AdoptedGood, MarksApart DEF RestartAdopts
    <3>2. QED
      BY <1>0, <2>2, <3>1, RestartClears
  <2>3. QED
    BY <1>3, <2>1, <2>2, Zenon DEF RestartAdopts
<1>4. QED
  BY <1>1, <1>2, <1>3, RestartCases

(***************************************************************************)
(* The invariant of the log.                                               *)
(***************************************************************************)
LEMMA InitFlashInv == Init => FlashInv
<1> SUFFICES ASSUME Init PROVE FlashInv
  OBVIOUS
<1>1. /\ programmed = {} /\ heads = [i \in Slots |-> Blank] /\ config = Default
      /\ head_index = 0 /\ todo = << >> /\ up = FALSE /\ twice = {}
      /\ around = FALSE
  BY DEF Init, Slots
<1>2. todo \in Seq(Operations) /\ Len(todo) = 0
  BY <1>1
<1>3. Blank \in GoodHeads
  BY DEF Blank, GoodHeads, Marks
<1>4. 0 \in 0 .. HeadSlots
  BY Sizes
<1>5. heads \in [Slots -> GoodHeads]
  BY <1>1, <1>3
<1>6. Types
  BY <1>1, <1>2, <1>4, <1>5, DefaultGood DEF Types
<1>7. Shape(todo, head_index, config)
  BY <1>2 DEF Shape
<1>8. \A i \in Slots : heads[i] = Blank
  BY <1>1
<1>9. \A i \in Slots : ~heads[i].magic
  BY <1>8, BlankDead
<1>10. MagicVouches
  BY <1>1, <1>9, Zenon DEF MagicVouches
<1>11. BlankBehind
  BY <1>8, Zenon DEF BlankBehind
<1>12. QED
  BY <1>1, <1>6, <1>7, <1>10, <1>11 DEF FlashInv, HeadsInOrder

LEMMA NextFlashInv == FlashInv /\ ~garbled' /\ [Next]_vars => FlashInv'
<1> SUFFICES ASSUME FlashInv, ~garbled', [Next]_vars PROVE FlashInv'
  OBVIOUS
<1>1. CASE FlashStep
  BY <1>1, FlashStepInv
<1>2. CASE PowerFails
  BY <1>2, PowerFailsInv
<1>3. CASE Restart
  BY <1>3, RestartInv
<1>4. ~WriteAstray
  BY DEF WriteAstray, FlashInv, Types, GoodConfigs
<1>5. ASSUME NEW len \in 1 .. MaxLen, NEW ok \in BOOLEAN, WriteOn(len, ok)
      PROVE  FlashInv'
  BY <1>5, WriteOnInv
<1>6. ASSUME NEW len \in 1 .. MaxLen, NEW ok \in BOOLEAN, NEW filled \in BOOLEAN,
             WriteAround(len, filled, ok)
      PROVE  FlashInv'
  BY <1>6, WriteAroundInv
<1>7. ASSUME NEW len \in 1 .. MaxLen, NEW ok \in BOOLEAN,
             _log_read(len, ok) \/ _log_read_next(len, ok)
      PROVE  FlashInv'
  BY <1>7, ReadInv
<1>8. CASE Clear
  BY <1>8, ClearInv
<1>9. CASE UNCHANGED vars
  <2>1. /\ programmed' = programmed /\ heads' = heads /\ config' = config
        /\ head_index' = head_index /\ todo' = todo /\ up' = up
        /\ twice' = twice /\ around' = around
    BY <1>9 DEF vars, flash, ram, history
  <2>2. Types'
    BY <2>1 DEF FlashInv, Types
  <2>3. Shape(todo, head_index, config)' /\ (~up => todo = << >>)'
    BY <2>1 DEF FlashInv, Shape
  <2>4. MagicVouches'
    BY <2>1, Zenon DEF FlashInv, MagicVouches, Vouched
  <2>5. AtRest' <=> AtRest
    BY <2>1, Zenon DEF AtRest, Ordered, Filled, Dead
  <2>6. (AtMagic' <=> AtMagic) /\ (BeforeFields' <=> BeforeFields)
    BY <2>1, Zenon DEF AtMagic, BeforeFields, Ordered, Filled, Dead
  <2>7. BeforeErasure' <=> BeforeErasure
    BY <2>1, Zenon DEF BeforeErasure, Ordered, Filled, Dead, Erasing, Settled
  <2>8. (BlankBehind' <=> BlankBehind) /\ (Settled' <=> Settled)
    BY <2>1, Zenon DEF BlankBehind, Settled, Erasing, Dead
  <2>9. QED
    BY <2>1, <2>2, <2>3, <2>4, <2>5, <2>6, <2>7, <2>8 DEF FlashInv, HeadsInOrder
<1>10. QED
  BY <1>1, <1>2, <1>3, <1>4, <1>5, <1>6, <1>7, <1>8, <1>9 DEF Next

(* The histories are kept, and adopting a mixture is not forgotten.        *)
HistoryTypes == /\ forked \in BOOLEAN /\ garbled \in BOOLEAN
                /\ overlong \in BOOLEAN /\ around \in BOOLEAN /\ up \in BOOLEAN

LEMMA HistoryKept == Spec => []HistoryTypes
<1>1. Init => HistoryTypes
  BY DEF Init, HistoryTypes
<1>2. HistoryTypes /\ [Next]_vars => HistoryTypes'
  <2> SUFFICES ASSUME HistoryTypes, [Next]_vars
               PROVE  HistoryTypes'
    OBVIOUS
  <2> USE DEF HistoryTypes, history
  <2>1. ASSUME NEW len \in 1 .. MaxLen, NEW ok \in BOOLEAN, WriteOn(len, ok)
        PROVE  HistoryTypes'
    BY <2>1 DEF WriteOn
  <2>2. ASSUME NEW len \in 1 .. MaxLen, NEW ok \in BOOLEAN, NEW filled \in BOOLEAN,
               WriteAround(len, filled, ok)
        PROVE  HistoryTypes'
    BY <2>2 DEF WriteAround
  <2>3. CASE Restart
    BY <2>3 DEF Restart
  <2>4. CASE FlashStep \/ PowerFails \/ WriteAstray \/ Clear \/ UNCHANGED vars
    BY <2>4 DEF FlashStep, PowerFails, WriteAstray, Clear, vars
  <2>5. ASSUME NEW len \in 1 .. MaxLen, NEW ok \in BOOLEAN,
               _log_read(len, ok) \/ _log_read_next(len, ok)
        PROVE  HistoryTypes'
    BY <2>5 DEF _log_read, _log_read_next
  <2>6. QED
    BY <2>1, <2>2, <2>3, <2>4, <2>5 DEF Next
<1>3. QED
  BY <1>1, <1>2, PTL DEF Spec

LEMMA GarbledKept == garbled /\ [Next]_vars => garbled'
<1> SUFFICES ASSUME garbled, [Next]_vars
             PROVE  garbled'
  OBVIOUS
<1>1. CASE FlashStep \/ PowerFails \/ Restart \/ WriteAstray \/ Clear \/ UNCHANGED vars
  BY <1>1, Zenon DEF FlashStep, PowerFails, Restart, WriteAstray, Clear, vars
<1>2. ASSUME NEW len \in 1 .. MaxLen, NEW ok \in BOOLEAN, NEW filled \in BOOLEAN,
             WriteOn(len, ok) \/ WriteAround(len, filled, ok)
      PROVE  garbled'
  <2>1. CASE WriteOn(len, ok)
    BY <2>1, Zenon DEF WriteOn
  <2>2. CASE WriteAround(len, filled, ok)
    BY <2>2, Zenon DEF WriteAround
  <2>3. QED
    BY <1>2, <2>1, <2>2
<1>3. ASSUME NEW len \in 1 .. MaxLen, NEW ok \in BOOLEAN,
             _log_read(len, ok) \/ _log_read_next(len, ok)
      PROVE  garbled'
  BY <1>3, Zenon DEF _log_read, _log_read_next
<1>4. QED
  BY <1>1, <1>2, <1>3, Zenon DEF Next

(* Until a restart adopts a mixture, every state of the log in flash       *)
(* satisfies the invariant: types, the order of the operations a call has  *)
(* still to make, magic numbers that vouch for complete fields, and heads  *)
(* in order.                                                               *)
THEOREM FlashInvariant == Spec => [](garbled \/ FlashInv)
  BY InitFlashInv, NextFlashInv, GarbledKept, PTL DEF Spec

(* The addresses kept by _log_write, persistence_write and the reads stay  *)
(* in the section, or one past it, and the next head stays in the space    *)
(* for heads, whatever fails and whenever, and for texts as long as 128 KB,*)
(* as long as no restart has adopted a mixture.                            *)
THEOREM FlashTypes == Spec => []TypeOK
<1>1. (garbled \/ FlashInv) /\ HistoryTypes => TypeOK
  <2>1. SUFFICES ASSUME Types PROVE
                 /\ programmed \subseteq 0 .. LogEnd
                 /\ heads \in [0 .. HeadSlots - 1 -> Heads]
                 /\ config \in Configs
                 /\ head_index \in 0 .. HeadSlots
                 /\ twice \subseteq 0 .. LogEnd
    BY DEF FlashInv, HistoryTypes, TypeOK
  <2>2. GoodConfigs \subseteq Configs
    BY DEF GoodConfigs
  <2>3. GoodHeads \subseteq Heads
    BY <2>2 DEF GoodHeads, Heads, Fields, Marks
  <2>4. heads \in [0 .. HeadSlots - 1 -> Heads]
    BY <2>1, <2>3 DEF Types, Slots
  <2>5. QED
    BY <2>1, <2>2, <2>4 DEF Types
<1>2. QED
  BY <1>1, FlashInvariant, HistoryKept, PTL

(***************************************************************************)
(* No mixture is adopted (WholeHeadBeforeWrap): up to the first erasure of *)
(* sector 5 a head is only written where the space is blank.               *)
(***************************************************************************)
Fresh(k) == \A i \in Slots : i >= k => heads[i] = Blank
LastMagic == Len(todo) > 0 /\ todo[Len(todo)].op = "magic"

(* What a restart may adopt is a configuration.                            *)
WholeHeads == \A i \in Slots : ~Dead(i) => heads[i].config \in Configs

(* Where the next head goes the space is blank, unless it is going to be   *)
(* erased; when only the magic number is missing, the fields are there.    *)
SpaceAhead ==
  up /\ Settled =>
    /\ ~LastMagic => Fresh(head_index)
    /\ LastMagic /\ Len(todo) > 1 => Fresh(head_index - 1)
    /\ LastMagic /\ Len(todo) = 1 => /\ Fresh(head_index)
                                     /\ heads[head_index - 1].config \in Configs

WholeInv == ~around => ~garbled /\ FlashInv /\ WholeHeads /\ SpaceAhead

LEMMA StepShift ==
  ASSUME FlashInv, FlashStep
  PROVE  /\ Len(todo) \in Nat \ {0} /\ Len(todo') = Len(todo) - 1
         /\ 1 \in 1 .. Len(todo)
         /\ \A p \in 1 .. Len(todo') : p + 1 \in 1 .. Len(todo) /\ todo'[p] = todo[p + 1]
         /\ \A p \in 1 .. Len(todo) : p # 1 => p - 1 \in 1 .. Len(todo') /\ todo'[p - 1] = todo[p]
         /\ head_index' = head_index /\ config' = config /\ up' = up /\ up
         /\ forked' = forked
<1>1. /\ Len(todo) \in Nat \ {0} /\ Len(todo') = Len(todo) - 1
      /\ \A p \in 1 .. Len(todo) - 1 : todo'[p] = todo[p + 1]
      /\ head_index' = head_index /\ config' = config /\ up' = up /\ up
  BY StepFacts
<1>2. ASSUME NEW p \in 1 .. Len(todo'), NEW q \in 1 .. Len(todo), q # 1
      PROVE  /\ p + 1 \in 1 .. Len(todo) /\ todo'[p] = todo[p + 1]
             /\ q - 1 \in 1 .. Len(todo') /\ todo'[q - 1] = todo[q]
  <2>1. p \in 1 .. Len(todo) - 1 /\ p + 1 \in 1 .. Len(todo)
    BY <1>1
  <2>2. q - 1 \in 1 .. Len(todo) - 1 /\ (q - 1) + 1 = q /\ q - 1 \in 1 .. Len(todo')
    BY <1>1, <1>2
  <2>3. QED
    BY <1>1, <2>1, <2>2
<1>3. ASSUME NEW p \in 1 .. Len(todo')
      PROVE  p + 1 \in 1 .. Len(todo) /\ todo'[p] = todo[p + 1]
  BY <1>1
<1>4. ASSUME NEW q \in 1 .. Len(todo), q # 1
      PROVE  q - 1 \in 1 .. Len(todo') /\ todo'[q - 1] = todo[q]
  <2>1. q - 1 \in 1 .. Len(todo) - 1 /\ (q - 1) + 1 = q /\ q - 1 \in 1 .. Len(todo')
    BY <1>1, <1>4
  <2>2. QED
    BY <1>1, <2>1
<1>5. 1 \in 1 .. Len(todo) /\ forked' = forked
  BY <1>1 DEF FlashStep
<1>6. QED
  BY <1>1, <1>3, <1>4, <1>5

LEMMA StepLast ==
  ASSUME FlashInv, FlashStep
  PROVE  /\ Len(todo) = 1 => ~LastMagic'
         /\ Len(todo) > 1 => (LastMagic' <=> LastMagic)
         /\ todo[1].op # "erase_heads" => (Settled' <=> Settled)
<1>1. PICK n : n = Len(todo)
  OBVIOUS
<1>2. /\ n \in Nat \ {0} /\ Len(todo') = n - 1
      /\ \A p \in 1 .. n - 1 : todo'[p] = todo[p + 1]
  BY <1>1, StepFacts
<1>3. n > 1 => todo'[n - 1] = todo[n]
  <2>1. n > 1 => n - 1 \in 1 .. n - 1 /\ (n - 1) + 1 = n
    BY <1>2
  <2>2. QED
    BY <1>2, <2>1
<1>4. ASSUME todo[1].op # "erase_heads"
      PROVE  Settled' <=> Settled
  <2>1. /\ \A p \in 1 .. Len(todo') : p + 1 \in 1 .. Len(todo) /\ todo'[p] = todo[p + 1]
        /\ \A p \in 1 .. Len(todo) : p # 1 => p - 1 \in 1 .. Len(todo') /\ todo'[p - 1] = todo[p]
    BY StepShift
  <2>2. Settled => Settled'
    BY <2>1, Zenon DEF Settled, Erasing
  <2>3. Settled' => Settled
    BY <1>4, <2>1, Zenon DEF Settled, Erasing
  <2>4. QED
    BY <2>2, <2>3
<1>5. QED
  BY <1>1, <1>2, <1>3, <1>4 DEF LastMagic

(* An operation on the flash leaves the heads whole.                       *)
LEMMA StepWhole ==
  ASSUME FlashInv, WholeHeads, SpaceAhead, FlashStep
  PROVE  WholeHeads' /\ SpaceAhead'
<1>1. PICK n, k : n = Len(todo) /\ k = head_index
  OBVIOUS
<1>2. /\ n \in Nat \ {0} /\ Len(todo') = n - 1 /\ todo # << >>
      /\ k \in Nat /\ head_index' = k /\ up' = up /\ up
      /\ todo[1] \in Operations /\ Perform(todo[1]) /\ Types
  <2>1. todo # << >>
    BY DEF FlashStep
  <2>2. k \in Nat
    BY <1>1, Sizes DEF FlashInv, Types
  <2>3. QED
    BY <1>1, <2>1, <2>2, StepFacts DEF FlashInv
<1>3. /\ n = 1 => ~LastMagic'
      /\ n > 1 => (LastMagic' <=> LastMagic)
      /\ todo[1].op # "erase_heads" => (Settled' <=> Settled)
  BY <1>1, StepLast
<1>4. ASSUME LastMagic, n = 2
      PROVE  todo[1].op = "fields"
  <2>1. 2 \in 1 .. Len(todo) /\ todo[2].op = "magic"
    BY <1>1, <1>4 DEF LastMagic
  <2>2. todo[2 - 1].op = "fields"
    BY <2>1 DEF FlashInv, Shape
  <2>3. QED
    BY <2>2
<1>5. CASE todo[1].op \in {"program", "erase"}
  <2>1. heads' = heads
    BY <1>2, <1>5, PerformPlain
  <2>2. WholeHeads' /\ \A j : Fresh(j)' <=> Fresh(j)
    BY <2>1, Zenon DEF WholeHeads, Fresh, Dead
  <2>3. ~(LastMagic /\ n = 2) /\ ~(LastMagic /\ n = 1)
    <3>1. LastMagic /\ n = 1 => todo[1].op = "magic"
      BY <1>1 DEF LastMagic
    <3>2. QED
      BY <1>4, <1>5, <3>1
  <2>4. SpaceAhead'
    <3>1. SUFFICES ASSUME Settled'
                   PROVE  /\ ~LastMagic' => Fresh(k)
                          /\ LastMagic' => n - 1 > 1 /\ Fresh(k - 1)
      BY <1>2, <2>2 DEF SpaceAhead
    <3>2. /\ ~LastMagic => Fresh(k)
          /\ LastMagic /\ n > 1 => Fresh(k - 1)
      BY <1>1, <1>2, <1>3, <1>5, <3>1 DEF SpaceAhead
    <3>3. QED
      BY <1>2, <1>3, <2>3, <3>2
  <2>5. QED
    BY <2>2, <2>4
<1>6. CASE todo[1].op = "erase_heads"
  <2>1. \A i \in Slots : heads'[i] = Blank
    BY <1>2, <1>6, PerformErase
  <2>2. WholeHeads' /\ \A j : Fresh(j)'
    <3>1. \A i \in Slots : ~heads'[i].magic
      BY <2>1 DEF Blank
    <3>2. QED
      BY <2>1, <3>1, Zenon DEF WholeHeads, Fresh, Dead
  <2>3. ~(LastMagic' /\ n - 1 = 1)
    BY <1>2, <1>3, <1>4, <1>6
  <2>4. QED
    BY <1>2, <2>2, <2>3 DEF SpaceAhead
<1>7. CASE todo[1].op \in {"invalidate", "fields", "magic"}
  <2>1. PICK s : s = todo[1].slot
    OBVIOUS
  <2>2. /\ s \in Slots
        /\ \A i \in Slots : i # s => heads'[i] = heads[i] /\ Dead(i)' = Dead(i)
        /\ todo[1].op # "magic" => heads'[s].magic = heads[s].magic
        /\ todo[1].op = "invalidate" => ~(heads'[s].magic /\ heads'[s].valid)
        /\ todo[1].op = "fields" =>
             heads'[s].config = Over(heads[s].config, todo[1].config)
        /\ todo[1].op = "magic" => heads'[s].config = heads[s].config
    BY <1>7, <2>1, HeadEffect
  <2>3. /\ todo[1].op = "magic" => n = 1 /\ k >= 1 /\ s = k - 1
        /\ todo[1].op = "fields" => n = 2 /\ k >= 1 /\ s = k - 1 /\ todo[2].op = "magic"
        /\ todo[1].op = "invalidate" =>
             \/ n = 3 /\ k >= 2 /\ s = k - 2 /\ todo[2].op = "fields" /\ todo[3].op = "magic"
             \/ n = 2 /\ todo[2].op = "erase_heads"
    BY <1>1, <1>2, <2>1, FirstOp
  <2>4. ASSUME NEW j, \A i \in Slots : i >= j => i # s, Fresh(j)
        PROVE  Fresh(j)'
    BY <2>2, <2>4 DEF Fresh
  <2>5. ASSUME Dead(s)' \/ heads'[s].config \in Configs
        PROVE  WholeHeads'
    <3>1. SUFFICES ASSUME NEW i \in Slots, ~Dead(i)', i # s
                   PROVE  heads'[i].config \in Configs
      BY <2>5, Zenon DEF WholeHeads
    <3>2. QED
      BY <2>2, <3>1, Zenon DEF WholeHeads
  <2>6. s \in Nat
    BY <2>2 DEF Slots
  <2>7. CASE todo[1].op = "invalidate"
    <3>1. WholeHeads'
      BY <2>2, <2>5, <2>7, Zenon DEF Dead
    <3>2. CASE n = 3 /\ k >= 2 /\ s = k - 2 /\ todo[3].op = "magic"
      <4>1. LastMagic /\ LastMagic' /\ Len(todo') = 2
        BY <1>1, <1>2, <1>3, <3>2 DEF LastMagic
      <4>2. \A i \in Slots : i >= k - 1 => i # s
        BY <1>2, <3>2 DEF Slots
      <4>3. Settled' => Fresh(k - 1)'
        BY <1>1, <1>2, <1>3, <2>4, <2>7, <3>2, <4>1, <4>2 DEF SpaceAhead
      <4>4. QED
        BY <1>2, <3>1, <4>1, <4>3 DEF SpaceAhead
    <3>3. CASE n = 2 /\ todo[2].op = "erase_heads"
      <4>1. ~Settled
        BY <1>1, <3>3 DEF Settled, Erasing
      <4>2. ~Settled'
        BY <1>3, <2>7, <4>1
      <4>3. QED
        BY <3>1, <4>2 DEF SpaceAhead
    <3>4. QED
      BY <2>3, <2>7, <3>2, <3>3
  <2>8. CASE todo[1].op = "fields"
    <3>1. LastMagic /\ LastMagic' /\ Len(todo') = 1 /\ Settled
      <4>1. n = 2 /\ todo[2].op = "magic" /\ 1 .. 2 = {1, 2}
        BY <2>3, <2>8
      <4>2. LastMagic /\ LastMagic' /\ Len(todo') = 1
        BY <1>1, <1>2, <1>3, <4>1 DEF LastMagic
      <4>3. Settled
        BY <1>1, <2>8, <4>1 DEF Settled, Erasing
      <4>4. QED
        BY <4>2, <4>3
    <3>2. Fresh(k - 1)
      <4>1. Len(todo) > 1
        BY <1>1, <2>3, <2>8
      <4>2. QED
        BY <1>1, <1>2, <3>1, <4>1, Zenon DEF SpaceAhead
    <3>3. heads[s] = Blank
      BY <1>2, <2>2, <2>3, <2>8, <3>2 DEF Fresh, Slots
    <3>4. ~heads'[s].magic /\ heads'[s].config = todo[1].config
      <4>1. ~heads[s].magic /\ heads[s].config = Erased
        BY <3>3, BlankDead
      <4>2. \A c : Over(Erased, c) = c
        BY DEF Over
      <4>3. QED
        BY <2>2, <2>8, <4>1, <4>2
    <3>5. todo[1].config \in Configs
      <4>1. todo[1] \in Filling
        BY <1>2, <2>8, OperationKinds
      <4>2. QED
        BY <4>1 DEF Filling, GoodConfigs
    <3>6. WholeHeads'
      BY <2>5, <3>4, Zenon DEF Dead
    <3>7. Fresh(k)'
      <4>1. \A i \in Slots : i >= k => i # s
        BY <1>2, <2>3, <2>8 DEF Slots
      <4>2. Fresh(k)
        BY <1>2, <3>2 DEF Fresh, Slots
      <4>3. QED
        BY <2>4, <4>1, <4>2
    <3>8. QED
      BY <1>2, <2>3, <2>8, <3>1, <3>4, <3>5, <3>6, <3>7 DEF SpaceAhead
  <2>9. CASE todo[1].op = "magic"
    <3>1. n = 1 /\ k >= 1 /\ s = k - 1 /\ LastMagic /\ ~LastMagic' /\ Settled /\ 1 .. n = {1}
      <4>1. n = 1 /\ k >= 1 /\ s = k - 1 /\ 1 .. n = {1}
        BY <2>3, <2>9
      <4>2. QED
        BY <1>1, <1>3, <2>9, <4>1 DEF LastMagic, Settled, Erasing
    <3>2. Fresh(k) /\ heads[s].config \in Configs
      BY <1>1, <1>2, <3>1 DEF SpaceAhead
    <3>3. WholeHeads'
      BY <2>2, <2>5, <2>9, <3>2
    <3>4. Fresh(k)'
      <4>1. \A i \in Slots : i >= k => i # s
        BY <1>2, <3>1 DEF Slots
      <4>2. QED
        BY <2>4, <3>2, <4>1
    <3>5. QED
      BY <1>2, <3>1, <3>3, <3>4 DEF SpaceAhead
  <2>10. QED
    BY <1>7, <2>7, <2>8, <2>9
<1>8. QED
  BY <1>2, <1>5, <1>6, <1>7 DEF Perform

(* A power failure tears only fields that were going into blank space: the *)
(* head they belong to has no magic number.                                *)
LEMMA PowerFailsWhole ==
  ASSUME FlashInv, WholeHeads, SpaceAhead, PowerFails
  PROVE  WholeHeads' /\ SpaceAhead'
<1>1. /\ up /\ up' = FALSE
      /\ \/ todo # << >> /\ Interrupt(Head(todo))
         \/ heads' = heads
  BY DEF PowerFails, flash
<1>2. SpaceAhead'
  BY <1>1 DEF SpaceAhead
<1>3. CASE heads' = heads
  BY <1>2, <1>3, Zenon DEF WholeHeads, Dead
<1>4. CASE todo # << >> /\ Interrupt(Head(todo))
  <2>1. Head(todo) = todo[1]
    BY <1>4, HeadTailProperties DEF FlashInv, Types
  <2>2. CASE todo[1].op # "fields"
    <3>1. heads' = heads
      BY <1>4, <2>1, <2>2 DEF Interrupt, Wear
    <3>2. QED
      BY <1>3, <3>1
  <2>3. CASE todo[1].op = "fields"
    <3>1. PICK s, k : s = todo[1].slot /\ k = head_index
      OBVIOUS
    <3>2. /\ Len(todo) = 2 /\ k >= 1 /\ s = k - 1 /\ todo[2].op = "magic"
          /\ k \in 0 .. HeadSlots
      BY <1>4, <2>3, <3>1, FirstOp DEF FlashInv, Types
    <3>3. s \in Slots /\ s >= k - 1 /\ heads \in [Slots -> GoodHeads]
      BY <3>2, Sizes DEF FlashInv, Types, Slots
    <3>4. LastMagic /\ Settled
      <4>1. 1 .. Len(todo) = {1, 2}
        BY <3>2
      <4>2. QED
        BY <2>3, <3>2, <4>1 DEF LastMagic, Settled, Erasing
    <3>5. Fresh(k - 1)
      BY <1>1, <3>1, <3>2, <3>4 DEF SpaceAhead
    <3>6. heads[s] = Blank
      BY <3>3, <3>5 DEF Fresh
    <3>7. heads' = [heads EXCEPT ![s].config = Over(@, Torn)]
      BY <1>4, <2>1, <2>3, <3>1 DEF Interrupt
    <3>8. ~heads'[s].magic /\ \A i \in Slots : i # s => heads'[i] = heads[i]
      <4>1. heads' = [heads EXCEPT ![s] = [heads[s] EXCEPT !.config = Over(heads[s].config, Torn)]]
        BY <3>7
      <4>2. heads'[s] = [heads[s] EXCEPT !.config = Over(heads[s].config, Torn)]
        BY <3>3, <4>1
      <4>3. heads'[s].magic = heads[s].magic
        BY <3>6, <4>2 DEF Blank
      <4>4. QED
        BY <3>3, <3>6, <4>1, <4>3 DEF Blank
    <3>9. WholeHeads'
      BY <3>8, Zenon DEF WholeHeads, Dead
    <3>10. QED
      BY <1>2, <3>9
  <2>4. QED
    BY <2>2, <2>3
<1>5. QED
  BY <1>1, <1>3, <1>4

(* A new head is planned after head_index, or the space is erased first.   *)
LEMMA PlannedWhole ==
  ASSUME NEW i \in 0 .. HeadSlots, NEW c \in GoodConfigs,
         NEW pre \in Seq(Operations), Harmless(pre),
         todo' = pre \o _flush_head_index(i, c),
         head_index' = Flushed(i), config' = c, heads' = heads,
         WholeHeads, Fresh(i) \/ \E p \in 1 .. Len(pre) : pre[p].op = "erase_heads"
  PROVE  WholeHeads' /\ SpaceAhead'
<1>1. WholeHeads'
  BY Zenon DEF WholeHeads, Dead
<1>2. PICK n : n = Len(todo')
  OBVIOUS
<1>3. /\ n \in Nat \ {0} /\ todo'[1].op # "magic"
      /\ Len(pre) \in Nat /\ Len(pre) < n
      /\ \A p \in 1 .. Len(pre) : todo'[p] = pre[p]
      /\ i < HeadSlots => head_index' = i + 1 /\ todo'[n].op = "magic"
      /\ i = HeadSlots => todo'[n].op = "erase_heads"
  BY <1>2, Planned
<1>4. SUFFICES ASSUME Settled'
               PROVE  i < HeadSlots /\ Fresh(i)
  <2>1. i < HeadSlots => LastMagic' /\ n > 1 /\ head_index' - 1 = i
    <3>1. i < HeadSlots => n # 1
      <4>1. n = 1 /\ i < HeadSlots => todo'[1].op = "magic"
        BY <1>3
      <4>2. QED
        BY <1>3, <4>1
    <3>2. i < HeadSlots => LastMagic' /\ head_index' - 1 = i
      BY <1>2, <1>3 DEF LastMagic
    <3>3. QED
      BY <1>3, <3>1, <3>2
  <2>2. Fresh(i) => Fresh(i)'
    BY Zenon DEF Fresh
  <2>3. QED
    BY <1>1, <1>2, <1>4, <2>1, <2>2 DEF SpaceAhead
<1>5. \A p \in 1 .. n : todo'[p].op # "erase_heads"
  BY <1>2, <1>4 DEF Settled, Erasing
<1>6. i < HeadSlots
  <2>1. n \in 1 .. n
    BY <1>3
  <2>2. i # HeadSlots
    BY <1>3, <1>5, <2>1
  <2>3. QED
    BY <2>2, Sizes
<1>7. ~ \E p \in 1 .. Len(pre) : pre[p].op = "erase_heads"
  <2>1. SUFFICES ASSUME NEW p \in 1 .. Len(pre)
                 PROVE  pre[p].op # "erase_heads"
    OBVIOUS
  <2>2. p \in 1 .. n /\ todo'[p] = pre[p]
    BY <1>3
  <2>3. QED
    BY <1>5, <2>2
<1>8. QED
  BY <1>6, <1>7

LEMMA IdleAhead ==
  ASSUME SpaceAhead, Idle
  PROVE  Fresh(head_index)
<1>1. up /\ Len(todo) = 0
  BY DEF Idle
<1>2. Settled /\ ~LastMagic
  BY <1>1 DEF Settled, LastMagic
<1>3. QED
  BY <1>1, <1>2 DEF SpaceAhead

(* A restart that goes on does so behind the head it found.                *)
LEMMA RestartWhole ==
  ASSUME FlashInv, ~around, WholeHeads, Restart, ~garbled'
  PROVE  WholeHeads' /\ SpaceAhead'
<1>1. heads' = heads
  BY DEF Restart, flash
<1>2. ASSUME NEW i \in 0 .. HeadSlots, NEW c \in GoodConfigs,
             todo' = _log_clear \o _flush_head_index(i, c), head_index' = Flushed(i), config' = c
      PROVE  WholeHeads' /\ SpaceAhead'
  <2>1. \E p \in 1 .. Len(_log_clear) : _log_clear[p].op = "erase_heads"
    <3>1. 1 \in 1 .. Len(_log_clear)
      BY ClearPlan
    <3>2. QED
      BY <3>1, ClearPlan
  <2>2. QED
    BY <1>1, <1>2, <2>1, ClearPlan, PlannedWhole
<1>3. 0 \in 0 .. HeadSlots /\ HeadSlots \in 0 .. HeadSlots
  BY Sizes
<1>4. CASE RestartAdopts
  <2>1. /\ FoundHead \in Slots /\ ~Dead(FoundHead) /\ heads[0].magic
        /\ FoundHead + 1 \in 0 .. HeadSlots /\ config' \in GoodConfigs
    BY <1>4, FoundFirst, AdoptedGood, MarksApart DEF RestartAdopts, FlashInv
  <2>2. CASE head_index' = FoundHead + 1 /\ todo' = << >>
    <3>1. BlankBehind
      BY DEF FlashInv, HeadsInOrder
    <3>2. \A i \in Slots : i >= FoundHead + 1 => FoundHead < i
      BY <2>1 DEF Slots
    <3>3. \A i \in Slots : FoundHead < i => heads[i] = Blank
      BY <2>1, <3>1, Zenon DEF BlankBehind
    <3>4. Fresh(FoundHead + 1)
      BY <3>2, <3>3, Zenon DEF Fresh
    <3>5. Fresh(head_index)'
      BY <1>1, <2>2, <3>4 DEF Fresh
    <3>6. ~LastMagic'
      BY <2>2 DEF LastMagic
    <3>7. WholeHeads'
      BY <1>1, Zenon DEF WholeHeads, Dead
    <3>8. QED
      BY <3>5, <3>6, <3>7 DEF SpaceAhead
  <2>3. CASE /\ head_index' = Flushed(FoundHead + 1)
             /\ todo' = _log_clear \o _flush_head_index(FoundHead + 1, config')
    BY <1>2, <2>1, <2>3
  <2>4. QED
    BY <1>4, <2>2, <2>3, Zenon DEF RestartAdopts
<1>5. QED
  BY <1>2, <1>3, <1>4, DefaultGood, RestartCases

(* A restart finds no mixture to adopt.                                    *)
LEMMA RestartNotGarbled ==
  ASSUME FlashInv, WholeHeads, ~garbled, Restart
  PROVE  ~garbled'
<1>1. FoundHead < HeadSlots => heads[FoundHead].config \in Configs
  BY FoundFirst DEF FlashInv, WholeHeads
<1>2. QED
  BY <1>1 DEF Restart

LEMMA NextWholeInv == WholeInv /\ [Next]_vars => WholeInv'
<1> SUFFICES ASSUME WholeInv, [Next]_vars, ~around'
             PROVE  ~garbled' /\ FlashInv' /\ WholeHeads' /\ SpaceAhead'
  BY DEF WholeInv
<1>1. ~around
  <2>1. CASE FlashStep \/ PowerFails \/ Restart \/ WriteAstray \/ Clear \/ UNCHANGED vars
    BY <2>1, Zenon
       DEF FlashStep, PowerFails, Restart, WriteAstray, Clear, vars, history
  <2>2. ASSUME NEW len \in 1 .. MaxLen, NEW ok \in BOOLEAN, NEW filled \in BOOLEAN,
               WriteOn(len, ok) \/ WriteAround(len, filled, ok)
        PROVE  around => around'
    <3>1. CASE WriteOn(len, ok)
      BY <3>1, Zenon DEF WriteOn
    <3>2. CASE WriteAround(len, filled, ok)
      BY <3>2, Zenon DEF WriteAround, history
    <3>3. QED
      BY <2>2, <3>1, <3>2
  <2>3. ASSUME NEW len \in 1 .. MaxLen, NEW ok \in BOOLEAN,
               _log_read(len, ok) \/ _log_read_next(len, ok)
        PROVE  around' = around
    BY <2>3, Zenon DEF _log_read, _log_read_next, history
  <2>4. QED
    BY <2>1, <2>2, <2>3, Zenon DEF Next
<1>2. ~garbled /\ FlashInv /\ WholeHeads /\ SpaceAhead
  BY <1>1 DEF WholeInv
<1>3. ~WriteAstray
  BY <1>2 DEF WriteAstray, FlashInv, Types, GoodConfigs
<1>4. ~garbled'
  <2>1. CASE Restart
    BY <1>2, <2>1, RestartNotGarbled
  <2>2. CASE FlashStep \/ PowerFails \/ Clear \/ UNCHANGED vars
    BY <1>2, <2>2, Zenon DEF FlashStep, PowerFails, Clear, vars
  <2>3. ASSUME NEW len \in 1 .. MaxLen, NEW ok \in BOOLEAN, NEW filled \in BOOLEAN,
               WriteOn(len, ok) \/ WriteAround(len, filled, ok)
        PROVE  garbled' = garbled
    <3>1. CASE WriteOn(len, ok)
      BY <3>1, Zenon DEF WriteOn
    <3>2. CASE WriteAround(len, filled, ok)
      BY <3>2, Zenon DEF WriteAround
    <3>3. QED
      BY <2>3, <3>1, <3>2
  <2>4. ASSUME NEW len \in 1 .. MaxLen, NEW ok \in BOOLEAN,
               _log_read(len, ok) \/ _log_read_next(len, ok)
        PROVE  garbled' = garbled
    BY <2>4, Zenon DEF _log_read, _log_read_next
  <2>5. QED
    BY <1>2, <1>3, <2>1, <2>2, <2>3, <2>4, Zenon DEF Next
<1>5. FlashInv'
  BY <1>2, <1>4, NextFlashInv
<1>6. SUFFICES WholeHeads' /\ SpaceAhead'
  BY <1>4, <1>5
<1>7. CASE FlashStep
  BY <1>2, <1>7, StepWhole
<1>8. CASE PowerFails
  BY <1>2, <1>8, PowerFailsWhole
<1>9. CASE Restart
  BY <1>1, <1>2, <1>4, <1>9, RestartWhole
<1>10. ASSUME NEW i \in 0 .. HeadSlots, NEW c \in GoodConfigs, NEW pre \in Seq(Operations),
              Harmless(pre), todo' = pre \o _flush_head_index(i, c), head_index' = Flushed(i),
              config' = c, Idle, heads' = heads, i = head_index
       PROVE  WholeHeads' /\ SpaceAhead'
  <2>1. Fresh(i)
    BY <1>2, <1>10, IdleAhead
  <2>2. QED
    BY <1>2, <1>10, <2>1, PlannedWhole
<1>11. ASSUME NEW len \in 1 .. MaxLen, NEW ok \in BOOLEAN, WriteOn(len, ok)
       PROVE  WholeHeads' /\ SpaceAhead'
  <2>1. PICK i \in 0 .. HeadSlots, c \in GoodConfigs, pre \in Seq(Operations), erases \in BOOLEAN :
          /\ Harmless(pre)
          /\ todo' = pre \o _flush_head_index(i, c) /\ head_index' = Flushed(i) /\ config' = c
          /\ Idle /\ UNCHANGED <<flash, up, twice>>
          /\ i = IF erases THEN 0 ELSE head_index
          /\ around' = (around \/ erases)
    BY <1>2, <1>11, WriteOnPlan
  <2>2. ~erases /\ heads' = heads
    BY <2>1 DEF flash
  <2>3. QED
    BY <1>10, <2>1, <2>2
<1>12. ASSUME NEW len \in 1 .. MaxLen, NEW ok \in BOOLEAN, NEW filled \in BOOLEAN,
              WriteAround(len, filled, ok)
       PROVE  WholeHeads' /\ SpaceAhead'
  <2>1. PICK c \in GoodConfigs, pre \in Seq(Operations) :
          /\ Harmless(pre)
          /\ todo' = pre \o _flush_head_index(head_index, c) /\ head_index' = Flushed(head_index)
          /\ config' = c
          /\ Idle /\ UNCHANGED <<flash, up, history>>
    BY <1>2, <1>12, WriteAroundPlan
  <2>2. head_index \in 0 .. HeadSlots /\ heads' = heads
    BY <1>2, <2>1 DEF FlashInv, Types, flash
  <2>3. QED
    BY <1>10, <2>1, <2>2
<1>13. ASSUME heads' = heads, head_index' = head_index, todo' = todo, up' = up
       PROVE  WholeHeads' /\ SpaceAhead'
  <2>1. WholeHeads' /\ (Fresh(head_index)' <=> Fresh(head_index))
        /\ (Fresh(head_index - 1)' <=> Fresh(head_index - 1))
    BY <1>2, <1>13, Zenon DEF WholeHeads, Dead, Fresh
  <2>2. (Settled' <=> Settled) /\ (LastMagic' <=> LastMagic)
    BY <1>13, Zenon DEF Settled, Erasing, LastMagic
  <2>3. QED
    BY <1>2, <1>13, <2>1, <2>2, Zenon DEF SpaceAhead
<1>14. ASSUME NEW len \in 1 .. MaxLen, NEW ok \in BOOLEAN,
              _log_read(len, ok) \/ _log_read_next(len, ok)
       PROVE  WholeHeads' /\ SpaceAhead'
  BY <1>13, <1>14 DEF _log_read, _log_read_next, flash
<1>15. CASE Clear
  <2>1. heads' = heads /\ todo' = _log_clear
    BY <1>15 DEF Clear, flash
  <2>2. ~Settled'
    <3>1. 1 \in 1 .. Len(_log_clear) /\ _log_clear[1].op = "erase_heads"
      BY ClearPlan
    <3>2. QED
      BY <2>1, <3>1 DEF Settled, Erasing
  <2>3. QED
    BY <1>2, <2>1, <2>2, Zenon DEF WholeHeads, Dead, SpaceAhead
<1>16. CASE UNCHANGED vars
  BY <1>13, <1>16 DEF vars, flash, ram
<1>17. QED
  BY <1>3, <1>7, <1>8, <1>9, <1>11, <1>12, <1>14, <1>15, <1>16, Zenon DEF Next

(* Up to the first erasure of sector 5, _init_check never adopts fields    *)
(* that no call has written, however power failures interrupt              *)
(* _flush_head_index and _log_clear: the fields of a head only ever go     *)
(* where the space is blank, and the magic number follows when they are    *)
(* complete.                                                               *)
THEOREM WholeHeadsAdopted == Spec => []WholeHeadBeforeWrap
<1>1. Init => WholeInv
  <2>1. SUFFICES ASSUME Init
                 PROVE  ~garbled /\ FlashInv /\ WholeHeads /\ SpaceAhead
    BY DEF WholeInv
  <2>2. \A i \in Slots : heads[i] = Blank
    BY <2>1 DEF Init, Slots
  <2>3. WholeHeads
    BY <2>2, BlankDead DEF WholeHeads
  <2>4. QED
    BY <2>1, <2>3, InitFlashInv DEF Init, SpaceAhead
<1>2. WholeInv /\ HistoryTypes => WholeHeadBeforeWrap
  BY DEF WholeInv, HistoryTypes, WholeHeadBeforeWrap
<1>3. QED
  BY <1>1, <1>2, NextWholeInv, HistoryKept, PTL DEF Spec

(* Up to the first erasure of sector 5, a restart between two calls finds  *)
(* the head of the last write, however many power failures, failed writes, *)
(* clearings and restarts came before.                                     *)
THEOREM RestartsFindLatest == Spec => []LatestBeforeWrap
<1>1. (around \/ FlashInv) => LatestBeforeWrap
  <2>1. SUFFICES ASSUME FlashInv, ~around, Idle, heads[0].magic, FoundHead < HeadSlots
                 PROVE  heads[FoundHead].config \in {[config EXCEPT !.read = a] : a \in Addresses}
    BY DEF LatestBeforeWrap, RestartFindsLatest
  <2>2. FoundHead \in Slots /\ ~Dead(FoundHead)
    BY <2>1, FoundFirst DEF FlashInv
  <2>3. Ordered(head_index - 1, head_index) /\ Filled(head_index)
    BY <2>1, IdleOrder
  <2>4. head_index \in 0 .. HeadSlots /\ config \in Configs
    BY <2>1 DEF FlashInv, Types, GoodConfigs
  <2>5. FoundHead = head_index - 1
    <3>1. ~(FoundHead < head_index - 1)
      BY <2>2, <2>3 DEF Ordered
    <3>2. ~(FoundHead >= head_index)
      BY <2>2, <2>3, BlankDead DEF Ordered
    <3>3. QED
      BY <2>2, <2>4, <3>1, <3>2 DEF Slots
  <2>6. SameBut(heads[FoundHead].config, config)
    BY <2>2, <2>3, <2>5 DEF Filled
  <2>7. \A c : SameBut(c, config) => c = [config EXCEPT !.read = c.read] /\ c.read \in Addresses
    BY <2>4 DEF SameBut, Configs
  <2>8. QED
    BY <2>6, <2>7
<1>2. QED
  BY <1>1, FlashInvariant, WholeHeadsAdopted, PTL DEF WholeHeadBeforeWrap

(***************************************************************************)
(* Text is not written over text (OnlyTail), for every size of the         *)
(* sectors, every number of heads, every length of the texts, and power    *)
(* failures anywhere.                                                      *)
(***************************************************************************)

(***************************************************************************)
(* The inductive invariant: heads.                                         *)
(***************************************************************************)
Live(i) == heads[i].magic /\ heads[i].valid
Pending(op) == \E p \in 1 .. Len(todo) : todo[p].op = op

(* Below a valid head no slot can become valid any more.  Only a blank     *)
(* first slot, behind which a restart does not look, is an exception.      *)
InvalidBelow ==
  heads[0].magic => \A i, j \in Slots : i < j /\ Live(j) => ~heads[i].valid

(* Between two flushes: what is below the newest head is invalid, or,      *)
(* behind a blank first slot, there is no valid head but the newest.       *)
NewestHead ==
  LET k == head_index
  IN IF heads[0].magic
       THEN k >= 1 /\ \A i \in Slots : i < k - 1 => ~heads[i].valid
       ELSE \A j \in Slots : Live(j) => j = k - 1

(* During a flush: the same, once the head before is made invalid.         *)
NextHead ==
  LET k == head_index
      Given(i) == i = k - 2 /\ Pending("invalidate")
  IN IF heads[0].magic
       THEN \A i \in Slots : i < k - 1 => ~heads[i].valid \/ Given(i)
       ELSE \A j \in Slots : Live(j) => Given(j)

HeadPart ==
  /\ InvalidBelow
  /\ up /\ ~Pending("erase_heads") =>
       IF Pending("magic") THEN NextHead ELSE NewestHead

(***************************************************************************)
(* The inductive invariant: text.  A configuration claims the bytes from   *)
(* its write address to its erase address.                                 *)
(***************************************************************************)
InTail(a) == a + Guard > LogEnd
Claims(c, a) == c.write <= a /\ a < c.erase
Tight(c) == c.write <= c.erase

(* Is sector 4 (sector 5) erased by one of the operations below p?         *)
Erases4(p) == \E q \in 1 .. Len(todo) : q < p /\ todo[q].op = "erase" /\ todo[q].addr < Sector4
Erases5(p) == \E q \in 1 .. Len(todo) : q < p /\ todo[q].op = "erase" /\ todo[q].addr >= Sector4
Any == Len(todo) + 1
CleanBefore(a, p) ==
  \/ InTail(a)
  \/ a < Sector4 /\ Erases4(p)
  \/ a >= Sector4 /\ Erases5(p)

(* The bytes claimed by the configuration are erased, or will be.          *)
ClaimClean == up => \A a \in programmed : Claims(config, a) => CleanBefore(a, Any)

(* A text still to be programmed goes where it is clean, outside of what   *)
(* the configuration claims, and to sector 4 after its erasure; another    *)
(* text before it goes to sector 5.                                        *)
Text(p) == todo[p].from .. todo[p].from + todo[p].n - 1
TextsPlanned ==
  \A p \in 1 .. Len(todo) : todo[p].op = "program" =>
    /\ \A a \in Text(p) : ~Claims(config, a) /\ (a \in programmed => CleanBefore(a, p))
    /\ todo[p].from >= Sector4
         \/ \A q \in 1 .. Len(todo) : todo[q].op = "erase" /\ todo[q].addr < Sector4 => q < p
    /\ \A q \in 1 .. Len(todo) : q < p /\ todo[q].op = "program" =>
         \A a \in Text(p) : a < Sector4 /\ Sector4 <= todo[q].from

(* What a restart may adopt.                                               *)
Adoptable(i) == Live(i) /\ heads[i].config \in Configs

(* A restart that finds the byte at the write address erased finds all     *)
(* that the head claims erased, but for the tail.                          *)
Honest(c) == c.write \notin programmed => \A a \in programmed : Claims(c, a) => InTail(a)

(* Writing a text keeps it so...                                           *)
Harmless5(c, from) ==
  \/ c.erase <= from
  \/ from <= c.write
  \/ c.write < Sector4 /\ c.write \in programmed /\ ~Erases4(Any)

(* ...and so does the erasure of sector 4, if the heads are not erased     *)
(* before.                                                                 *)
Keeps(c, p) ==
  /\ todo[p].op = "program" => Harmless5(c, todo[p].from)
  /\ todo[p].op = "erase" /\ todo[p].addr < Sector4 =>
       \/ c.erase = Sector4 \/ c.write >= Sector4
       \/ \E q \in 1 .. Len(todo) : q < p /\ todo[q].op = "erase_heads"

HeadsHonest ==
  \A i \in Slots : Adoptable(i) =>
    Honest(heads[i].config) /\ \A p \in 1 .. Len(todo) : Keeps(heads[i].config, p)

(* How a head that stays relates to the configuration: it is the newest,   *)
(* or one the erasure of sector 5 left behind, and then the byte at its    *)
(* write address is programmed before the text runs over it.               *)
Same(c, d) == c.write = d.write /\ c.erase = d.erase

Behind(c) ==
  /\ c.erase = Sector4
  /\ \/ config.write >= Sector4
     \/ config.write <= c.write
     \/ c.write < Sector4 /\ \/ c.write \in programmed /\ ~Erases4(Any)
                             \/ \E p \in 1 .. Len(todo) : todo[p].op = "program" /\ c.write \in Text(p)

Stays(i) ==
  /\ ~(Pending("invalidate") /\ i = head_index - 2)
  /\ ~(Pending("fields") /\ i = head_index - 1)

HeadsFollow ==
  up /\ ~Pending("erase_heads") =>
    \A i \in Slots : Adoptable(i) /\ Stays(i) =>
      (i = head_index - 1 /\ Same(heads[i].config, config)) \/ Behind(heads[i].config)

(* The fields whose magic number is missing are those of the configuration.*)
FieldsMatch ==
  up /\ ~Pending("erase_heads") /\ Pending("magic") /\ ~Pending("fields") =>
    \A i \in Slots : i = head_index - 1 /\ heads[i].config \in Configs =>
      SameBut(heads[i].config, config)

AllTight ==
  Tight(config) /\ \A i \in Slots : heads[i].config \in Configs => Tight(heads[i].config)

TwiceInTail == \A a \in twice : InTail(a)

TailParts ==
  /\ TwiceInTail
  /\ HeadPart
  /\ ClaimClean /\ TextsPlanned
  /\ HeadsHonest /\ HeadsFollow /\ FieldsMatch

TailInv == FlashInv /\ AllTight /\ (~forked => TailParts)

(***************************************************************************)
(* One operation on the flash: what is left to do.                         *)
(***************************************************************************)
LEMMA StepPending ==
  ASSUME FlashInv, FlashStep
  PROVE  \A op : /\ Pending(op)' => Pending(op)
                 /\ Pending(op) /\ todo[1].op # op => Pending(op)'
                 /\ todo[1].op = op => Pending(op)
<1> SUFFICES ASSUME NEW op
             PROVE  /\ Pending(op)' => Pending(op)
                    /\ Pending(op) /\ todo[1].op # op => Pending(op)'
                    /\ todo[1].op = op => Pending(op)
  OBVIOUS
<1>1. Pending(op)' => Pending(op)
  BY StepShift DEF Pending
<1>2. Pending(op) /\ todo[1].op # op => Pending(op)'
  BY StepShift DEF Pending
<1>3. todo[1].op = op => Pending(op)
  BY StepShift DEF Pending
<1>4. QED
  BY <1>1, <1>2, <1>3

(* Which operations on heads are left after one of them.                   *)
LEMMA HeadsLeft ==
  ASSUME FlashInv, FlashStep
  PROVE  /\ todo[1].op = "magic" =>
              /\ todo[1].slot = head_index - 1 /\ head_index >= 1
              /\ Len(todo') = 0 /\ \A op : ~Pending(op)'
              /\ \A op : Pending(op) => op = "magic"
         /\ todo[1].op = "fields" =>
              /\ todo[1].slot = head_index - 1 /\ SameBut(todo[1].config, config)
              /\ Len(todo') = 1
              /\ \A op : Pending(op)' => op = "magic"
              /\ \A op : Pending(op) => op \in {"magic", "fields"}
         /\ todo[1].op = "invalidate" =>
              /\ \/ Pending("fields")' /\ Pending("magic")'
                 \/ Pending("erase_heads")' /\ ~Pending("magic")'
              /\ ~Pending("erase_heads")' => todo[1].slot = head_index - 2
              /\ \A op : Pending(op)' => op \in {"magic", "fields", "erase_heads"}
              /\ Pending("erase_heads") => Pending("erase_heads")'
<1>0. todo # << >>
  BY DEF FlashStep
<1>1. CASE todo[1].op = "magic"
  <2>1. Len(todo) = 1 /\ head_index >= 1 /\ todo[1].slot = head_index - 1
    BY <1>0, <1>1, FirstOp
  <2>2. Len(todo') = 0 /\ 1 .. Len(todo') = {} /\ 1 .. Len(todo) = {1}
    BY <2>1, StepShift
  <2>3. QED
    BY <1>1, <2>1, <2>2 DEF Pending
<1>2. CASE todo[1].op = "fields"
  <2>1. /\ Len(todo) = 2 /\ todo[1].slot = head_index - 1 /\ SameBut(todo[1].config, config)
        /\ todo[2].op = "magic"
    BY <1>0, <1>2, FirstOp
  <2>2. Len(todo') = 1 /\ 1 .. Len(todo') = {1} /\ 1 .. Len(todo) = {1, 2} /\ todo'[1] = todo[2]
    BY <2>1, StepShift
  <2>3. QED
    BY <1>2, <2>1, <2>2 DEF Pending
<1>3. CASE todo[1].op = "invalidate"
  <2>1. \/ /\ Len(todo) = 3 /\ todo[1].slot = head_index - 2
           /\ todo[2].op = "fields" /\ todo[3].op = "magic"
        \/ /\ Len(todo) = 2 /\ todo[2].op = "erase_heads"
    BY <1>0, <1>3, FirstOp
  <2>2. CASE /\ Len(todo) = 3 /\ todo[1].slot = head_index - 2
             /\ todo[2].op = "fields" /\ todo[3].op = "magic"
    <3>1. 1 .. Len(todo') = {1, 2} /\ 1 .. Len(todo) = {1, 2, 3} /\ todo'[1] = todo[2] /\ todo'[2] = todo[3]
      BY <2>2, StepShift
    <3>2. todo'[1].op = "fields" /\ todo'[2].op = "magic"
      BY <2>2, <3>1
    <3>3. Pending("fields")' /\ Pending("magic")'
      BY <3>1, <3>2 DEF Pending
    <3>4. \A op : Pending(op)' => op \in {"magic", "fields", "erase_heads"}
      BY <3>1, <3>2 DEF Pending
    <3>5. ~Pending("erase_heads")
      BY <1>3, <2>2, <3>1 DEF Pending
    <3>6. todo[1].op # "magic" /\ todo[1].op # "fields"
      BY <1>3
    <3>7. QED
      BY <2>2, <3>3, <3>4, <3>5, <3>6, Zenon
  <2>3. CASE Len(todo) = 2 /\ todo[2].op = "erase_heads"
    <3>1. 1 .. Len(todo') = {1} /\ 1 .. Len(todo) = {1, 2} /\ todo'[1] = todo[2]
      BY <2>3, StepShift
    <3>2. QED
      BY <1>3, <2>3, <3>1 DEF Pending
  <2>4. QED
    BY <2>1, <2>2, <2>3
<1>4. QED
  BY <1>1, <1>2, <1>3

(* What was clean when its turn came is clean, or its turn has come.       *)
LEMMA StepErases ==
  ASSUME FlashInv, FlashStep
  PROVE  /\ Erases4(Any)' => Erases4(Any)
         /\ todo[1].op = "erase" /\ todo[1].addr < Sector4 => Erases4(Any)
         /\ \A p \in 1 .. Len(todo') + 1 :
              /\ Erases4(p + 1) => Erases4(p)' \/ (todo[1].op = "erase" /\ todo[1].addr < Sector4)
              /\ Erases5(p + 1) => Erases5(p)' \/ (todo[1].op = "erase" /\ todo[1].addr >= Sector4)
<1>1. Erases4(Any)' => Erases4(Any)
  <2>1. SUFFICES ASSUME NEW q \in 1 .. Len(todo'), todo'[q].op = "erase", todo'[q].addr < Sector4
                 PROVE  Erases4(Any)
    BY DEF Erases4
  <2>2. q + 1 \in 1 .. Len(todo) /\ todo'[q] = todo[q + 1] /\ q + 1 < Len(todo) + 1
    BY StepShift
  <2>3. QED
    BY <2>1, <2>2 DEF Erases4, Any
<1>2. todo[1].op = "erase" /\ todo[1].addr < Sector4 => Erases4(Any)
  <2>1. 1 \in 1 .. Len(todo) /\ 1 < Len(todo) + 1
    BY StepShift
  <2>2. QED
    BY <2>1 DEF Erases4, Any
<1>3. ASSUME NEW p \in 1 .. Len(todo') + 1, NEW q \in 1 .. Len(todo), q < p + 1, q # 1
      PROVE  q - 1 \in 1 .. Len(todo') /\ todo'[q - 1] = todo[q] /\ q - 1 < p
  BY <1>3, StepShift
<1>4. QED
  BY <1>1, <1>2, <1>3 DEF Erases4, Erases5

LEMMA StepClean ==
  ASSUME FlashInv, FlashStep, NEW p \in 1 .. Len(todo') + 1, NEW a \in programmed',
         a \in programmed, CleanBefore(a, p + 1)
  PROVE  CleanBefore(a, p)'
<1>1. a \in 0 .. LogEnd
  BY DEF FlashInv, Types
<1>2. Perform(todo[1])
  BY StepFacts
<1>3. CASE todo[1].op = "erase"
  <2>1. a \notin SectorOf(todo[1].addr)
    BY <1>2, <1>3 DEF Perform
  <2>2. todo[1].addr < Sector4 => ~(a < Sector4)
    BY <1>1, <2>1, Sizes DEF SectorOf
  <2>3. todo[1].addr >= Sector4 => ~(a >= Sector4)
    <3>1. todo[1].addr \in Int
      <4>1. todo[1] \in Erasures
        BY <1>3, StepFacts, OperationKinds
      <4>2. QED
        BY <4>1 DEF Erasures, Addresses
    <3>2. QED
      BY <1>1, <2>1, <3>1, Sizes DEF SectorOf
  <2>4. QED
    BY <2>2, <2>3, StepErases DEF CleanBefore, InTail
<1>4. CASE todo[1].op # "erase"
  BY <1>4, StepErases DEF CleanBefore, InTail
<1>5. QED
  BY <1>3, <1>4

(***************************************************************************)
(* One operation on the flash: heads.                                      *)
(***************************************************************************)
LEMMA HeadBits ==
  ASSUME FlashInv, FlashStep, todo[1].op \in {"invalidate", "fields", "magic"}
  PROVE  LET s == todo[1].slot
         IN /\ s \in Slots
            /\ \A i \in Slots \ {s} : heads'[i] = heads[i]
            /\ todo[1].op # "magic" => (heads'[s].magic <=> heads[s].magic)
            /\ todo[1].op = "magic" => heads'[s].magic
            /\ todo[1].op = "invalidate" => ~heads'[s].valid
            /\ todo[1].op # "invalidate" => (heads'[s].valid <=> heads[s].valid)
<1> DEFINE f == todo[1]
           s == f.slot
<1>1. /\ s \in Slots
      /\ \A i \in Slots \ {s} : heads'[i] = heads[i]
      /\ f.op = "invalidate" =>
           heads'[s] = [heads[s] EXCEPT !.valid = FALSE, !.config = Mixed]
      /\ f.op = "fields" =>
           heads'[s] = [heads[s] EXCEPT !.config = Over(heads[s].config, f.config)]
      /\ f.op = "magic" => heads'[s] = [heads[s] EXCEPT !.magic = TRUE]
  BY StepFacts, PerformHead DEF FlashInv
<1>2. heads[s] \in GoodHeads
  BY <1>1 DEF FlashInv, Types
<1>3. /\ f.op # "magic" => heads'[s].magic = heads[s].magic
      /\ f.op = "magic" => heads'[s].magic = TRUE
      /\ f.op = "invalidate" => heads'[s].valid = FALSE
      /\ f.op # "invalidate" => heads'[s].valid = heads[s].valid
  BY <1>1, <1>2 DEF GoodHeads
<1>4. QED
  BY <1>1, <1>3, Zenon

LEMMA PlainHeads ==
  ASSUME FlashInv, FlashStep, todo[1].op \in {"program", "erase"}
  PROVE  heads' = heads
  BY StepFacts, PerformPlain DEF FlashInv

LEMMA BlankHeads ==
  ASSUME FlashInv, FlashStep, todo[1].op = "erase_heads"
  PROVE  /\ \A i \in Slots : heads'[i] = Blank /\ ~heads'[i].magic
         /\ \A i \in Slots : heads'[i].config \notin Configs
<1>1. \A i \in Slots : heads'[i] = Blank
  BY StepFacts, PerformErase DEF FlashInv
<1>2. Erased \notin Configs
  BY MarksAssumption
<1>3. ~Blank.magic /\ Blank.config = Erased
  BY DEF Blank
<1>4. QED
  BY <1>1, <1>2, <1>3, Zenon

LEMMA StepHeads ==
  ASSUME FlashInv, HeadPart, FlashStep
  PROVE  HeadPart'
<1> DEFINE k == head_index
           s == todo[1].slot
<1>1. head_index' = k /\ up' = up /\ up /\ k \in Int /\ k \in 0 .. HeadSlots
  BY StepShift DEF FlashInv, Types
<1>2. InvalidBelow /\ (~Pending("erase_heads") => IF Pending("magic") THEN NextHead ELSE NewestHead)
  BY <1>1 DEF HeadPart
<1>3. SUFFICES /\ InvalidBelow'
               /\ ~Pending("erase_heads")' => IF Pending("magic")' THEN NextHead' ELSE NewestHead'
  BY DEF HeadPart
<1>4. CASE todo[1].op \in {"program", "erase"}
  <2>1. heads' = heads
    BY <1>4, PlainHeads
  <2>2. /\ Pending("magic")' <=> Pending("magic")
        /\ Pending("invalidate")' <=> Pending("invalidate")
        /\ Pending("erase_heads")' <=> Pending("erase_heads")
    BY <1>4, StepPending
  <2>3. InvalidBelow' <=> InvalidBelow
    BY <2>1, Zenon DEF InvalidBelow, Live
  <2>4. (NextHead' <=> NextHead) /\ (NewestHead' <=> NewestHead)
    BY <1>1, <2>1, <2>2, Zenon DEF NextHead, NewestHead, Live
  <2>5. QED
    BY <1>2, <2>2, <2>3, <2>4, Zenon
<1>5. CASE todo[1].op = "erase_heads"
  <2>1. \A i \in Slots : ~heads'[i].magic
    BY <1>5, BlankHeads
  <2>2. 0 \in Slots
    BY Sizes
  <2>3. QED
    BY <2>1, <2>2, Zenon DEF InvalidBelow, NextHead, NewestHead, Live
<1>6. CASE todo[1].op = "invalidate"
  <2>1. /\ s \in Slots /\ \A i \in Slots \ {s} : heads'[i] = heads[i]
        /\ heads'[s].magic <=> heads[s].magic
        /\ ~heads'[s].valid
    BY <1>6, HeadBits
  <2>2. \A i \in Slots : /\ heads'[i].magic <=> heads[i].magic
                         /\ heads'[i].valid => heads[i].valid /\ i # s
                         /\ Live(i)' => Live(i) /\ i # s
    BY <2>1, Zenon DEF Live
  <2>3. 0 \in Slots
    BY Sizes
  <2>4. InvalidBelow'
    BY <1>2, <2>2, <2>3, Zenon DEF InvalidBelow
  <2>5. ASSUME ~Pending("erase_heads")'
        PROVE  Pending("magic")' /\ NextHead'
    <3>1. /\ Pending("magic")' /\ ~Pending("erase_heads") /\ s = k - 2
          /\ Pending("magic") /\ ~Pending("invalidate")'
      BY <1>6, <2>5, HeadsLeft, StepPending
    <3>2. NextHead
      BY <1>2, <3>1
    <3>3. NextHead'
      BY <1>1, <2>2, <2>3, <3>1, <3>2, Zenon DEF NextHead
    <3>4. QED
      BY <3>1, <3>3
  <2>6. QED
    BY <2>4, <2>5, Zenon
<1>7. CASE todo[1].op = "fields"
  <2>1. /\ s \in Slots /\ \A i \in Slots \ {s} : heads'[i] = heads[i]
        /\ heads'[s].magic <=> heads[s].magic
        /\ heads'[s].valid <=> heads[s].valid
    BY <1>7, HeadBits
  <2>2. \A i \in Slots : /\ heads'[i].magic <=> heads[i].magic
                         /\ heads'[i].valid <=> heads[i].valid
                         /\ Live(i)' <=> Live(i)
    BY <2>1, Zenon DEF Live
  <2>3. 0 \in Slots
    BY Sizes
  <2>4. /\ Pending("magic")' <=> Pending("magic")
        /\ Pending("invalidate")' <=> Pending("invalidate")
        /\ Pending("erase_heads")' <=> Pending("erase_heads")
    BY <1>7, StepPending
  <2>5. InvalidBelow'
    BY <1>2, <2>2, <2>3, Zenon DEF InvalidBelow
  <2>6. (NextHead => NextHead') /\ (NewestHead => NewestHead')
    BY <1>1, <2>2, <2>3, <2>4, Zenon DEF NextHead, NewestHead
  <2>7. QED
    BY <1>2, <2>4, <2>5, <2>6, Zenon
<1>8. CASE todo[1].op = "magic"
  <2>1. /\ s \in Slots /\ \A i \in Slots \ {s} : heads'[i] = heads[i]
        /\ heads'[s].magic
        /\ heads'[s].valid <=> heads[s].valid
    BY <1>8, HeadBits
  <2>2. \A i \in Slots : /\ i # s => (heads'[i].magic <=> heads[i].magic)
                         /\ heads'[i].valid <=> heads[i].valid
                         /\ Live(i)' => Live(i) \/ i = s
    BY <2>1, Zenon DEF Live
  <2>3. 0 \in Slots
    BY Sizes
  <2>4. /\ s = k - 1 /\ k >= 1 /\ ~Pending("erase_heads") /\ Pending("magic")
        /\ ~Pending("magic")' /\ ~Pending("invalidate")
    BY <1>8, HeadsLeft, StepPending
  <2>5. NextHead
    BY <1>2, <2>4
  <2>6. heads[0].magic => \A i \in Slots : i < s => ~heads[i].valid
    BY <2>4, <2>5, Zenon DEF NextHead
  <2>7. ~heads[0].magic => \A j \in Slots : ~Live(j)
    BY <2>4, <2>5, Zenon DEF NextHead
  <2>8. ~heads[0].magic /\ heads'[0].magic => s = 0
    BY <2>2, <2>3, Zenon
  <2>9. InvalidBelow'
    <3>1. SUFFICES ASSUME heads'[0].magic, NEW i \in Slots, NEW j \in Slots, i < j, Live(j)'
                   PROVE  ~heads'[i].valid
      BY Zenon DEF InvalidBelow
    <3>2. CASE heads[0].magic
      BY <1>2, <2>2, <2>6, <3>1, <3>2, Zenon DEF InvalidBelow
    <3>3. CASE ~heads[0].magic
      <4>1. s = 0 /\ j = s
        BY <2>2, <2>7, <2>8, <3>1, <3>3, Zenon
      <4>2. FALSE
        BY <3>1, <4>1 DEF Slots
      <4>3. QED
        BY <4>2
    <3>4. QED
      BY <3>2, <3>3, Zenon
  <2>10. NewestHead'
    <3>1. CASE heads'[0].magic
      <4>1. \A i \in Slots : i < k - 1 => ~heads[i].valid
        <5>1. CASE heads[0].magic
          BY <2>4, <2>6, <5>1, Zenon
        <5>2. CASE ~heads[0].magic
          <6>1. k - 1 = 0
            BY <2>4, <2>8, <3>1, <5>2, Zenon
          <6>2. QED
            BY <6>1 DEF Slots
        <5>3. QED
          BY <5>1, <5>2, Zenon
      <4>2. QED
        BY <1>1, <2>2, <2>4, <3>1, <4>1, Zenon DEF NewestHead
    <3>2. CASE ~heads'[0].magic
      <4>1. ~heads[0].magic
        BY <2>1, <2>2, <2>3, <3>2, Zenon
      <4>2. \A j \in Slots : Live(j)' => j = s
        BY <2>2, <2>7, <4>1, Zenon
      <4>3. QED
        BY <1>1, <2>4, <3>2, <4>2, Zenon DEF NewestHead
    <3>3. QED
      BY <3>1, <3>2, Zenon
  <2>11. QED
    BY <2>4, <2>9, <2>10, Zenon
<1>9. todo[1].op \in {"program", "erase", "erase_heads", "invalidate", "fields", "magic"}
  BY StepFacts DEF Perform
<1>10. QED
  BY <1>4, <1>5, <1>6, <1>7, <1>8, <1>9

(***************************************************************************)
(* One operation on the flash: text.                                       *)
(***************************************************************************)
(* The bytes of the section after an operation, whole or interrupted.      *)
LEMMA StepBytes ==
  ASSUME FlashInv, FlashStep
  PROVE  /\ todo[1].op = "program" =>
              /\ todo[1] \in Programs
              /\ programmed' = programmed \cup Text(1)
              /\ twice' = twice \cup (Text(1) \cap programmed)
         /\ todo[1].op = "erase" =>
              /\ todo[1].addr \in Addresses
              /\ programmed' = programmed \ SectorOf(todo[1].addr)
              /\ twice' \subseteq twice
         /\ todo[1].op \notin {"program", "erase"} => programmed' = programmed /\ twice' = twice
<1>1. Perform(todo[1]) /\ todo[1] \in Operations
  BY StepFacts
<1>2. CASE todo[1].op = "program"
  BY <1>1, <1>2, OperationKinds DEF Perform, Wear, Text
<1>3. CASE todo[1].op = "erase"
  BY <1>1, <1>3, OperationKinds DEF Perform, Erasures
<1>4. CASE todo[1].op \notin {"program", "erase"}
  BY <1>1, <1>4 DEF Perform
<1>5. QED
  BY <1>2, <1>3, <1>4

LEMMA StepClaims ==
  ASSUME FlashInv, ClaimClean, TextsPlanned, FlashStep
  PROVE  ClaimClean'
<1>1. SUFFICES ASSUME NEW a \in programmed', Claims(config, a)
               PROVE  CleanBefore(a, Any)'
  BY StepShift DEF ClaimClean, Claims
<1>2. a \in programmed
  <2>1. CASE todo[1].op = "program"
    <3>1. a \notin Text(1)
      BY <1>1, <2>1, StepShift DEF TextsPlanned
    <3>2. QED
      BY <2>1, <3>1, StepBytes
  <2>2. CASE todo[1].op # "program"
    BY <2>2, StepBytes
  <2>3. QED
    BY <2>1, <2>2
<1>3. CleanBefore(a, Any)
  BY <1>1, <1>2, StepShift DEF ClaimClean
<1>4. PICK m : m = Len(todo') + 1
  OBVIOUS
<1>5. Any = m + 1 /\ Any' = m /\ m \in 1 .. Len(todo') + 1
  BY <1>4, StepShift DEF Any
<1>6. CleanBefore(a, m)'
  BY <1>1, <1>2, <1>3, <1>5, StepClean
<1>7. QED
  BY <1>5, <1>6 DEF CleanBefore, Erases4, Erases5, InTail

LEMMA StepTexts ==
  ASSUME FlashInv, TextsPlanned, FlashStep
  PROVE  TextsPlanned'
<1>1. SUFFICES ASSUME NEW p \in 1 .. Len(todo'), todo'[p].op = "program"
               PROVE  /\ \A a \in Text(p)' : /\ ~Claims(config, a)'
                                             /\ a \in programmed' => CleanBefore(a, p)'
                      /\ todo'[p].from >= Sector4
                           \/ \A q \in 1 .. Len(todo') :
                                todo'[q].op = "erase" /\ todo'[q].addr < Sector4 => q < p
                      /\ \A q \in 1 .. Len(todo') : q < p /\ todo'[q].op = "program" =>
                           \A a \in Text(p)' : a < Sector4 /\ Sector4 <= todo'[q].from
  BY DEF TextsPlanned
<1>2. PICK r : r = p + 1
  OBVIOUS
<1>3. r \in 1 .. Len(todo) /\ todo'[p] = todo[r] /\ todo[r].op = "program" /\ 1 \in 1 .. Len(todo)
  BY <1>1, <1>2, StepShift
<1>4. Text(p)' = Text(r)
  BY <1>3 DEF Text
<1>5. /\ \A a \in Text(r) : ~Claims(config, a) /\ (a \in programmed => CleanBefore(a, r))
      /\ todo[r].from >= Sector4
           \/ \A q \in 1 .. Len(todo) : todo[q].op = "erase" /\ todo[q].addr < Sector4 => q < r
      /\ \A q \in 1 .. Len(todo) : q < r /\ todo[q].op = "program" =>
           \A a \in Text(r) : a < Sector4 /\ Sector4 <= todo[q].from
  BY <1>3 DEF TextsPlanned
<1>6. ASSUME NEW a \in Text(r)
      PROVE  ~Claims(config, a)' /\ (a \in programmed' => CleanBefore(a, p)')
  <2>1. ~Claims(config, a)'
    BY <1>5, StepShift DEF Claims
  <2>2. ASSUME a \in programmed'
        PROVE  CleanBefore(a, p)'
    <3>1. a \in programmed
      <4>1. CASE todo[1].op = "program"
        <5>1. a < Sector4 /\ Sector4 <= todo[1].from
          BY <1>1, <1>2, <1>3, <1>5, <4>1
        <5>2. todo[1].from \in Int /\ a \in Int
          <6>1. todo[1] \in Programs
            BY <4>1, StepBytes
          <6>2. a \in Int
            BY DEF Text
          <6>3. QED
            BY <6>1, <6>2 DEF Programs, Addresses
        <5>3. a \notin Text(1)
          BY <5>1, <5>2, Sizes DEF Text
        <5>4. QED
          BY <2>2, <4>1, <5>3, StepBytes
      <4>2. CASE todo[1].op # "program"
        BY <2>2, <4>2, StepBytes
      <4>3. QED
        BY <4>1, <4>2
    <3>2. CleanBefore(a, p + 1)
      BY <1>2, <1>5, <3>1
    <3>3. p \in 1 .. Len(todo') + 1
      BY <1>1, StepShift
    <3>4. QED
      BY <2>2, <3>1, <3>2, <3>3, StepClean
  <2>3. QED
    BY <2>1, <2>2
<1>7. ASSUME NEW q \in 1 .. Len(todo')
      PROVE  /\ q + 1 \in 1 .. Len(todo) /\ todo'[q] = todo[q + 1]
             /\ q + 1 < r <=> q < p
  BY <1>1, <1>2, StepShift
<1>8. QED
  BY <1>3, <1>4, <1>5, <1>6, <1>7

LEMMA StepTwice ==
  ASSUME FlashInv, TextsPlanned, TwiceInTail, FlashStep
  PROVE  TwiceInTail'
<1>1. SUFFICES ASSUME NEW a \in twice'
               PROVE  InTail(a)
  BY DEF TwiceInTail, InTail
<1>2. CASE a \in twice
  BY <1>2 DEF TwiceInTail
<1>3. CASE a \notin twice
  <2>1. todo[1].op = "program" /\ a \in Text(1) /\ a \in programmed
    BY <1>1, <1>3, StepBytes
  <2>2. CleanBefore(a, 1)
    BY <2>1, StepShift DEF TextsPlanned
  <2>3. ~Erases4(1) /\ ~Erases5(1)
    BY StepShift DEF Erases4, Erases5
  <2>4. QED
    BY <2>2, <2>3 DEF CleanBefore
<1>4. QED
  BY <1>2, <1>3

(***************************************************************************)
(* One operation on the flash: what a restart may adopt.                   *)
(***************************************************************************)
LEMMA ConfigNumbers ==
  ASSUME NEW c \in Configs
  PROVE  c.write \in Nat /\ c.erase \in Nat
  BY Sizes DEF Configs, Addresses

(* A text, or its beginning, is programmed.                                *)
LEMMA TextKeeps ==
  ASSUME NEW c \in Configs, NEW from \in Nat, NEW n \in Nat, Honest(c), Harmless5(c, from),
         programmed \subseteq 0 .. LogEnd,
         programmed' = programmed \cup (from .. from + n - 1)
  PROVE  Honest(c)'
<1>1. SUFFICES ASSUME c.write \notin programmed', NEW a \in programmed', Claims(c, a)
               PROVE  InTail(a)
  BY DEF Honest, Claims, InTail
<1>2. CASE a \in programmed
  BY <1>1, <1>2 DEF Honest
<1>3. CASE a \in from .. from + n - 1
  <2>1. c.write \in Nat /\ c.erase \in Nat /\ a \in Nat
    BY <1>3, ConfigNumbers
  <2>2. c.write <= a /\ a < c.erase
    BY <1>1 DEF Claims
  <2>3. ~(c.erase <= from) /\ ~(from <= c.write)
    BY <1>1, <1>3, <2>1, <2>2
  <2>4. QED
    BY <1>1, <2>3 DEF Harmless5
<1>4. QED
  BY <1>1, <1>2, <1>3

LEMMA StepKeeps ==
  ASSUME FlashInv, FlashStep, NEW c \in Configs, Honest(c),
         \A p \in 1 .. Len(todo) : Keeps(c, p), todo[1].op # "erase_heads"
  PROVE  Honest(c)' /\ \A p \in 1 .. Len(todo') : Keeps(c, p)'
<1>1. Keeps(c, 1) /\ c.write \in Nat /\ c.erase \in Nat /\ programmed \subseteq 0 .. LogEnd
  BY StepShift, ConfigNumbers DEF FlashInv, Types
<1>2. Honest(c)'
  <2>1. CASE todo[1].op = "program"
    <3>1. /\ todo[1].from \in Nat /\ todo[1].n \in Nat
          /\ programmed' = programmed \cup (todo[1].from .. todo[1].from + todo[1].n - 1)
      BY <2>1, StepBytes DEF Programs, Addresses, Text
    <3>2. Harmless5(c, todo[1].from)
      BY <1>1, <2>1 DEF Keeps
    <3>3. PICK from, n : from = todo[1].from /\ n = todo[1].n
      OBVIOUS
    <3>4. QED
      BY <1>1, <3>1, <3>2, <3>3, TextKeeps
  <2>2. CASE todo[1].op = "erase"
    <3>1. todo[1].addr \in Nat /\ programmed' = programmed \ SectorOf(todo[1].addr)
      BY <2>2, StepBytes DEF Addresses
    <3>2. SUFFICES ASSUME c.write \notin programmed', NEW a \in programmed', Claims(c, a)
                   PROVE  InTail(a)
      BY DEF Honest, Claims, InTail
    <3>3. a \in programmed /\ a \in Nat /\ a \notin SectorOf(todo[1].addr) /\ a <= LogEnd
      BY <1>1, <3>1, <3>2, Sizes
    <3>4. CASE c.write \notin programmed
      BY <3>2, <3>3, <3>4 DEF Honest
    <3>5. CASE c.write \in SectorOf(todo[1].addr)
      <4>1. todo[1].addr < Sector4
        <5>1. ~(todo[1].addr < Sector4) => c.write >= Sector4 /\ a < Sector4
          BY <3>1, <3>3, <3>5, Sizes DEF SectorOf
        <5>2. c.write <= a
          BY <3>2 DEF Claims
        <5>3. QED
          BY <1>1, <3>3, <5>1, <5>2, Sizes
      <4>2. c.write < Sector4 /\ ~(c.write >= Sector4) /\ a >= Sector4
        BY <1>1, <3>3, <3>5, <4>1, Sizes DEF SectorOf
      <4>3. ~\E q \in 1 .. Len(todo) : q < 1 /\ todo[q].op = "erase_heads"
        BY StepShift
      <4>4. c.erase = Sector4
        BY <1>1, <2>2, <4>1, <4>2, <4>3 DEF Keeps
      <4>5. QED
        BY <3>2, <3>3, <4>2, <4>4, Sizes DEF Claims
    <3>6. QED
      BY <3>1, <3>2, <3>4, <3>5
  <2>3. CASE todo[1].op \notin {"program", "erase"}
    BY <2>3, StepBytes DEF Honest, Claims, InTail
  <2>4. QED
    BY <2>1, <2>2, <2>3
<1>3. ASSUME NEW p \in 1 .. Len(todo')
      PROVE  Keeps(c, p)'
  <2>1. PICK r : r = p + 1
    OBVIOUS
  <2>2. r \in 1 .. Len(todo) /\ todo'[p] = todo[r] /\ Keeps(c, r)
    BY <2>1, StepShift
  <2>3. todo'[p].op = "program" =>
          \/ c.erase <= todo'[p].from
          \/ todo'[p].from <= c.write
          \/ c.write < Sector4 /\ c.write \in programmed' /\ ~Erases4(Any)'
    <3>1. SUFFICES ASSUME Harmless5(c, todo[r].from)
                   PROVE  \/ c.erase <= todo'[p].from
                          \/ todo'[p].from <= c.write
                          \/ c.write < Sector4 /\ c.write \in programmed' /\ ~Erases4(Any)'
      BY <2>2 DEF Keeps
    <3>2. ASSUME c.write < Sector4, c.write \in programmed, ~Erases4(Any)
          PROVE  c.write \in programmed' /\ ~Erases4(Any)'
      <4>1. ~Erases4(Any)' /\ ~(todo[1].op = "erase" /\ todo[1].addr < Sector4)
        BY <3>2, StepErases
      <4>2. c.write \in programmed'
        <5>1. CASE todo[1].op = "erase"
          <6>1. todo[1].addr \in Nat /\ programmed' = programmed \ SectorOf(todo[1].addr)
            BY <5>1, StepBytes DEF Addresses
          <6>2. c.write \notin SectorOf(todo[1].addr)
            BY <1>1, <3>2, <4>1, <5>1, <6>1, Sizes DEF SectorOf
          <6>3. QED
            BY <3>2, <6>1, <6>2
        <5>2. CASE todo[1].op # "erase"
          BY <3>2, <5>2, StepBytes
        <5>3. QED
          BY <5>1, <5>2
      <4>3. QED
        BY <4>1, <4>2
    <3>3. QED
      BY <2>2, <3>1, <3>2 DEF Harmless5
  <2>4. ASSUME NEW q \in 1 .. Len(todo), q < r, todo[q].op = "erase_heads"
        PROVE  \E t \in 1 .. Len(todo') : t < p /\ todo'[t].op = "erase_heads"
    <3>1. q # 1
      BY <2>4
    <3>2. q - 1 \in 1 .. Len(todo') /\ todo'[q - 1] = todo[q] /\ q - 1 < p
      BY <2>1, <2>4, <3>1, StepShift
    <3>3. QED
      BY <2>4, <3>2
  <2>5. QED
    BY <2>2, <2>3, <2>4 DEF Keeps, Harmless5
<1>4. QED
  BY <1>2, <1>3

(* What may be adopted after the operation could be before, unless this    *)
(* was its magic number.  Fields programmed over fields change nothing, or *)
(* leave a mixture.                                                        *)
LEMMA StepAdoptable ==
  ASSUME FlashInv, FlashStep, NEW i \in Slots, Adoptable(i)'
  PROVE  /\ todo[1].op # "erase_heads"
         /\ heads'[i].config = heads[i].config /\ heads[i].config \in Configs
         /\ Adoptable(i) \/ (todo[1].op = "magic" /\ i = head_index - 1)
         /\ todo[1].op = "invalidate" => i # todo[1].slot
         /\ todo[1].op = "fields" /\ i = head_index - 1 => SameBut(heads[i].config, config)
<1> DEFINE f == todo[1]
           s == f.slot
<1>1. heads'[i].magic /\ heads'[i].valid /\ heads'[i].config \in Configs
  BY Zenon DEF Adoptable, Live
<1>2. f.op # "erase_heads"
  BY <1>1, BlankHeads
<1>3. f.op \in {"program", "erase", "erase_heads", "invalidate", "fields", "magic"}
  BY StepFacts DEF Perform
<1>4. CASE f.op \in {"program", "erase"}
  <2>1. heads' = heads
    BY <1>4, PlainHeads
  <2>2. Adoptable(i)
    BY <1>1, <2>1, Zenon DEF Adoptable, Live
  <2>3. QED
    BY <1>1, <1>2, <1>4, <2>1, <2>2
<1>5. CASE f.op \in {"invalidate", "fields", "magic"} /\ i # s
  <2>1. heads'[i] = heads[i]
    BY <1>5, HeadBits
  <2>2. Adoptable(i)
    BY <1>1, <2>1, Zenon DEF Adoptable, Live
  <2>3. f.op = "fields" => i # head_index - 1
    BY <1>5, HeadsLeft
  <2>4. QED
    BY <1>1, <1>2, <1>5, <2>1, <2>2, <2>3
<1>6. CASE f.op = "invalidate" /\ i = s
  BY <1>1, <1>6, HeadBits
<1>7. CASE f.op = "fields" /\ i = s
  <2>1. heads[i].magic /\ heads[i].valid
    BY <1>1, <1>7, HeadBits, Zenon
  <2>2. heads[i].config \notin {Erased, Torn}
    BY <2>1 DEF FlashInv, MagicVouches, Vouched
  <2>3. heads'[i].config = Over(heads[i].config, f.config)
    BY <1>7, HeadEffect
  <2>4. Mixed \notin Configs
    BY MarksAssumption
  <2>5. heads[i].config = f.config /\ heads'[i].config = f.config
    BY <1>1, <2>2, <2>3, <2>4 DEF Over
  <2>6. SameBut(f.config, config)
    BY <1>7, HeadsLeft
  <2>7. Adoptable(i)
    BY <1>1, <2>1, <2>5, Zenon DEF Adoptable, Live
  <2>8. QED
    BY <1>1, <1>7, <2>5, <2>6, <2>7
<1>8. CASE f.op = "magic" /\ i = s
  <2>1. heads'[i].config = heads[i].config
    BY <1>8, HeadEffect
  <2>2. s = head_index - 1
    BY <1>8, HeadsLeft
  <2>3. QED
    BY <1>1, <1>8, <2>1, <2>2
<1>9. QED
  BY <1>2, <1>3, <1>4, <1>5, <1>6, <1>7, <1>8

(* The magic number completes the head of the configuration.               *)
LEMMA StepMagic ==
  ASSUME FlashInv, FieldsMatch, FlashStep, todo[1].op = "magic",
         NEW i \in Slots, i = head_index - 1, heads[i].config \in Configs
  PROVE  SameBut(heads[i].config, config)
<1>1. ~Pending("erase_heads") /\ Pending("magic") /\ ~Pending("fields") /\ up
  BY HeadsLeft, StepPending, StepShift
<1>2. QED
  BY <1>1 DEF FieldsMatch

LEMMA StepHonest ==
  ASSUME FlashInv, HeadsHonest, ClaimClean, FieldsMatch, FlashStep
  PROVE  HeadsHonest'
<1>1. SUFFICES ASSUME NEW i \in Slots, Adoptable(i)'
               PROVE  Honest(heads[i].config)' /\ \A p \in 1 .. Len(todo') : Keeps(heads[i].config, p)'
  BY DEF HeadsHonest
<1>2. PICK c : c = heads[i].config
  OBVIOUS
<1>3. heads'[i].config = c /\ c \in Configs /\ todo[1].op # "erase_heads"
  BY <1>1, <1>2, StepAdoptable
<1>4. Honest(c)' /\ \A p \in 1 .. Len(todo') : Keeps(c, p)'
  <2>1. CASE Adoptable(i)
    <3>1. Honest(c) /\ \A p \in 1 .. Len(todo) : Keeps(c, p)
      BY <1>2, <2>1, Zenon DEF HeadsHonest
    <3>2. QED
      BY <1>3, <3>1, StepKeeps
  <2>2. CASE ~Adoptable(i)
    <3>1. todo[1].op = "magic" /\ i = head_index - 1
      BY <1>1, <2>2, StepAdoptable
    <3>2. SameBut(c, config)
      BY <1>2, <1>3, <3>1, StepMagic
    <3>3. Len(todo') = 0 /\ Any = 2 /\ Len(todo) = 1
      BY <3>1, HeadsLeft, StepShift DEF Any
    <3>4. ~Erases4(Any) /\ ~Erases5(Any)
      BY <3>1, <3>3 DEF Erases4, Erases5
    <3>5. \A a \in programmed : Claims(config, a) => InTail(a)
      BY <3>4, StepShift DEF ClaimClean, CleanBefore
    <3>6. \A a \in programmed : Claims(c, a) => InTail(a)
      BY <3>2, <3>5 DEF SameBut, Claims
    <3>7. programmed' = programmed
      BY <3>1, StepBytes
    <3>8. Honest(c)'
      BY <3>6, <3>7, Zenon DEF Honest, Claims, InTail
    <3>9. QED
      BY <3>3, <3>8
  <2>3. QED
    BY <2>1, <2>2
<1>5. QED
  BY <1>3, <1>4, Zenon DEF Honest, Keeps, Claims, InTail, Harmless5, Erases4, Any

LEMMA StepFields ==
  ASSUME FlashInv, FlashStep
  PROVE  FieldsMatch'
<1> DEFINE k == head_index
<1>1. SUFFICES ASSUME Pending("magic")', ~Pending("fields")', NEW i \in Slots, i = k - 1,
                      heads'[i].config \in Configs
               PROVE  SameBut(heads'[i].config, config)
  BY StepShift DEF FieldsMatch
<1>2. PICK p \in 1 .. Len(todo') : todo'[p].op = "magic"
  BY <1>1 DEF Pending
<1>3. Shape(todo', head_index, config)
  BY StepFacts
<1>4. p = Len(todo') /\ (p > 1 => todo'[p - 1].op = "fields")
  BY <1>2, <1>3 DEF Shape
<1>5. p = 1
  <2>1. p > 1 => p - 1 \in 1 .. Len(todo')
    BY <1>2
  <2>2. QED
    BY <1>1, <1>2, <1>4, <2>1 DEF Pending
<1>6. todo[2].op = "magic" /\ 2 \in 1 .. Len(todo) /\ todo[1].op = "fields"
  <2>1. 2 \in 1 .. Len(todo) /\ todo[2].op = "magic"
    BY <1>2, <1>4, <1>5, StepShift
  <2>2. Shape(todo, head_index, config)
    BY DEF FlashInv
  <2>3. QED
    BY <2>1, <2>2 DEF Shape
<1>7. /\ todo[1].slot = i /\ SameBut(todo[1].config, config)
      /\ heads'[i].config = Over(heads[i].config, todo[1].config)
  BY <1>1, <1>6, HeadsLeft, HeadEffect
<1>8. heads'[i].config = todo[1].config
  BY <1>1, <1>7, MarksAssumption DEF Over
<1>9. QED
  BY <1>7, <1>8

(* An old head stays behind: the text that runs over its write address is  *)
(* programmed first.                                                       *)
LEMMA StepBehind ==
  ASSUME FlashInv, TextsPlanned, FlashStep, NEW c \in Configs, Behind(c)
  PROVE  Behind(c)'
<1>1. c.write \in Nat /\ config' = config
  BY ConfigNumbers, StepShift
<1>2. CASE c.write < Sector4 /\ c.write \in programmed /\ ~Erases4(Any)
  <2>1. ~Erases4(Any)' /\ ~(todo[1].op = "erase" /\ todo[1].addr < Sector4)
    BY <1>2, StepErases
  <2>2. c.write \in programmed'
    <3>1. CASE todo[1].op = "erase"
      <4>1. todo[1].addr \in Nat /\ programmed' = programmed \ SectorOf(todo[1].addr)
        BY <3>1, StepBytes DEF Addresses
      <4>2. c.write \notin SectorOf(todo[1].addr)
        BY <1>1, <1>2, <2>1, <3>1, <4>1, Sizes DEF SectorOf
      <4>3. QED
        BY <1>2, <4>1, <4>2
    <3>2. CASE todo[1].op # "erase"
      BY <1>2, <3>2, StepBytes
    <3>3. QED
      BY <3>1, <3>2
  <2>3. QED
    BY <1>1, <1>2, <2>1, <2>2 DEF Behind
<1>3. ASSUME c.write < Sector4, NEW p \in 1 .. Len(todo), todo[p].op = "program", c.write \in Text(p)
      PROVE  Behind(c)'
  <2>1. CASE p = 1
    <3>1. c.write \in programmed'
      BY <1>3, <2>1, StepBytes
    <3>2. ~(todo[1].from >= Sector4)
      <4>1. todo[1] \in Programs
        BY <1>3, <2>1, StepBytes
      <4>2. todo[1].from \in Nat
        BY <4>1 DEF Programs, Addresses
      <4>3. QED
        BY <1>1, <1>3, <2>1, <4>2, Sizes DEF Text
    <3>3. \A q \in 1 .. Len(todo) : ~(todo[q].op = "erase" /\ todo[q].addr < Sector4)
      BY <1>3, <2>1, <3>2 DEF TextsPlanned
    <3>4. ~Erases4(Any)'
      BY <3>3, StepErases DEF Erases4
    <3>5. QED
      BY <1>1, <1>3, <3>1, <3>4 DEF Behind
  <2>2. CASE p # 1
    <3>1. PICK q : q = p - 1
      OBVIOUS
    <3>2. q \in 1 .. Len(todo') /\ todo'[q] = todo[p]
      BY <2>2, <3>1, StepShift
    <3>3. c.write \in Text(q)'
      BY <1>3, <3>2 DEF Text
    <3>4. QED
      BY <1>1, <1>3, <3>2, <3>3 DEF Behind
  <2>3. QED
    BY <2>1, <2>2
<1>4. QED
  BY <1>1, <1>2, <1>3 DEF Behind

LEMMA StepFollows ==
  ASSUME FlashInv, HeadsFollow, FieldsMatch, TextsPlanned, FlashStep
  PROVE  HeadsFollow'
<1> DEFINE k == head_index
<1>1. head_index' = k /\ config' = config /\ up
  BY StepShift
<1>2. SUFFICES ASSUME ~Pending("erase_heads")', NEW i \in Slots, Adoptable(i)', Stays(i)'
               PROVE  (i = k - 1 /\ Same(heads'[i].config, config)) \/ Behind(heads[i].config)'
  BY <1>1 DEF HeadsFollow, Same
<1>3. PICK c : c = heads[i].config
  OBVIOUS
<1>4. heads'[i].config = c /\ c \in Configs /\ todo[1].op # "erase_heads"
  BY <1>2, <1>3, StepAdoptable
<1>5. SUFFICES (i = k - 1 /\ Same(c, config)) \/ Behind(c)'
  BY <1>4, Zenon DEF Behind, Same, Erases4, Any, Text
<1>6. ~Pending("erase_heads")
  BY <1>2, <1>4, StepPending
<1>7. /\ ~(Pending("invalidate")' /\ i = k - 2)
      /\ ~(Pending("fields")' /\ i = k - 1)
  BY <1>1, <1>2 DEF Stays
<1>8. CASE todo[1].op \in {"magic", "fields"} /\ i = k - 1
  <2>1. SameBut(c, config)
    BY <1>2, <1>3, <1>4, <1>8, StepMagic, StepAdoptable
  <2>2. QED
    BY <1>8, <2>1 DEF SameBut, Same
<1>9. CASE ~(todo[1].op \in {"magic", "fields"} /\ i = k - 1)
  <2>1. Adoptable(i)
    BY <1>2, <1>9, StepAdoptable
  <2>2. ~(Pending("fields") /\ i = k - 1)
    BY <1>7, <1>9, StepPending
  <2>3. ~(Pending("invalidate") /\ i = k - 2)
    <3>1. todo[1].op = "invalidate" => i # k - 2
      BY <1>2, HeadsLeft, StepAdoptable
    <3>2. QED
      BY <1>7, <3>1, StepPending
  <2>4. (i = k - 1 /\ Same(c, config)) \/ Behind(c)
    BY <1>1, <1>3, <1>6, <2>1, <2>2, <2>3, Zenon DEF HeadsFollow, Stays
  <2>5. Behind(c) => Behind(c)'
    BY <1>4, StepBehind
  <2>6. QED
    BY <2>4, <2>5
<1>10. QED
  BY <1>8, <1>9

LEMMA StepTight ==
  ASSUME FlashInv, AllTight, FlashStep
  PROVE  AllTight'
<1>1. config' = config
  BY StepShift
<1>2. SUFFICES ASSUME NEW i \in Slots, heads'[i].config \in Configs
               PROVE  Tight(heads'[i].config)
  BY <1>1 DEF AllTight, Tight
<1>3. CASE heads'[i].config = heads[i].config
  BY <1>2, <1>3 DEF AllTight
<1>4. CASE heads'[i].config # heads[i].config
  <2>1. todo[1].op \in {"program", "erase", "erase_heads", "invalidate", "fields", "magic"}
    BY StepFacts DEF Perform
  <2>2. todo[1].op \notin {"program", "erase"}
    BY <1>4, PlainHeads
  <2>3. todo[1].op # "erase_heads"
    BY <1>2, BlankHeads
  <2>4. i = todo[1].slot
    BY <1>4, <2>1, <2>2, <2>3, HeadBits
  <2>5. todo[1].op # "magic"
    BY <1>4, <2>4, HeadEffect
  <2>6. todo[1].op # "invalidate"
    <3>1. SUFFICES ASSUME todo[1].op = "invalidate"
                   PROVE  FALSE
      OBVIOUS
    <3>2. heads'[i] = [heads[i] EXCEPT !.valid = FALSE, !.config = Mixed] /\ heads[i] \in GoodHeads
      BY <2>4, <3>1, StepFacts, PerformHead DEF FlashInv, Types
    <3>3. heads'[i].config = Mixed
      BY <3>2 DEF GoodHeads
    <3>4. QED
      BY <1>2, <3>3, MarksAssumption
  <2>7. todo[1].op = "fields"
    BY <2>1, <2>2, <2>3, <2>5, <2>6
  <2>8. heads'[i].config = Over(heads[i].config, todo[1].config) /\ SameBut(todo[1].config, config)
    BY <2>4, <2>7, HeadEffect, HeadsLeft
  <2>9. heads'[i].config = todo[1].config
    BY <1>2, <2>8, MarksAssumption DEF Over
  <2>10. QED
    BY <2>8, <2>9 DEF AllTight, Tight, SameBut
<1>5. QED
  BY <1>3, <1>4

LEMMA FlashStepTail ==
  ASSUME FlashInv, TailParts, FlashStep
  PROVE  TailParts'
  BY StepTwice, StepHeads, StepClaims, StepTexts, StepHonest, StepFollows, StepFields DEF TailParts

(***************************************************************************)
(* Power failures.                                                         *)
(***************************************************************************)
(* The beginning of a text, or of the fields of a head, may be programmed. *)
LEMMA FailureFacts ==
  ASSUME FlashInv, PowerFails
  PROVE  /\ up' = FALSE /\ todo' = << >> /\ Len(todo') = 0 /\ config' = Default /\ forked' = forked
         /\ \/ programmed' = programmed /\ twice' = twice
            \/ /\ todo # << >> /\ 1 \in 1 .. Len(todo) /\ todo[1].op = "program" /\ todo[1] \in Programs
               /\ \E n \in 0 .. todo[1].n - 1 :
                    /\ programmed' = programmed \cup (todo[1].from .. todo[1].from + n - 1)
                    /\ twice' = twice \cup ((todo[1].from .. todo[1].from + n - 1) \cap programmed)
         /\ \A i \in Slots : /\ heads'[i].magic = heads[i].magic /\ heads'[i].valid = heads[i].valid
                             /\ heads'[i].config \in Configs => heads'[i].config = heads[i].config
<1>1. /\ up' = FALSE /\ todo' = << >> /\ Len(todo') = 0 /\ config' = Default /\ forked' = forked
      /\ \/ todo # << >> /\ Interrupt(Head(todo))
         \/ heads' = heads /\ programmed' = programmed /\ twice' = twice
  BY DEF PowerFails, flash
<1>2. CASE heads' = heads /\ programmed' = programmed /\ twice' = twice
  BY <1>1, <1>2, Zenon
<1>3. CASE todo # << >> /\ Interrupt(Head(todo))
  <2>1. Head(todo) = todo[1] /\ todo[1] \in Operations /\ Len(todo) \in Nat \ {0}
    BY <1>3, HeadTailProperties, LenProperties, EmptySeq DEF FlashInv, Types
  <2>2. CASE todo[1].op = "program"
    <3>1. todo[1] \in Programs /\ 1 \in 1 .. Len(todo)
      BY <2>1, <2>2, OperationKinds
    <3>2. PICK n \in 0 .. todo[1].n - 1 : Wear(todo[1].from .. todo[1].from + n - 1)
      BY <1>3, <2>1, <2>2 DEF Interrupt
    <3>3. /\ heads' = heads
          /\ programmed' = programmed \cup (todo[1].from .. todo[1].from + n - 1)
          /\ twice' = twice \cup ((todo[1].from .. todo[1].from + n - 1) \cap programmed)
      BY <3>2 DEF Wear
    <3>4. QED
      BY <1>1, <1>3, <2>2, <3>1, <3>3, Zenon
  <2>3. CASE todo[1].op = "fields"
    <3> DEFINE s == todo[1].slot
               new == [heads[s] EXCEPT !.config = Over(heads[s].config, Torn)]
    <3>1. s \in Slots
      BY <2>1, <2>3, OperationKinds DEF Filling
    <3>2. heads' = [heads EXCEPT ![s] = new] /\ programmed' = programmed /\ twice' = twice
      BY <1>3, <2>1, <2>3 DEF Interrupt
    <3>3. heads \in [Slots -> GoodHeads] /\ heads[s] \in GoodHeads
      BY <3>1 DEF FlashInv, Types
    <3>4. heads'[s] = new /\ \A i \in Slots \ {s} : heads'[i] = heads[i]
      BY <3>1, <3>2, <3>3
    <3>5. /\ new.magic = heads[s].magic /\ new.valid = heads[s].valid
          /\ new.config = Over(heads[s].config, Torn)
      BY <3>3 DEF GoodHeads
    <3> HIDE DEF s, new
    <3>6. new.config \notin Configs
      BY <3>5, MarksAssumption DEF Over
    <3>7. \A i \in Slots : /\ heads'[i].magic = heads[i].magic /\ heads'[i].valid = heads[i].valid
                           /\ heads'[i].config \in Configs => heads'[i].config = heads[i].config
      BY <3>4, <3>5, <3>6, Zenon
    <3>8. QED
      BY <1>1, <3>2, <3>7, Zenon
  <2>4. QED
    BY <1>3, <2>1, <2>2, <2>3 DEF Interrupt
<1>4. QED
  BY <1>1, <1>2, <1>3

LEMMA PowerFailsTail ==
  ASSUME FlashInv, AllTight, ~forked => TailParts, PowerFails
  PROVE  AllTight' /\ (~forked' => TailParts')
<1>1. /\ up' = FALSE /\ Len(todo') = 0 /\ config' = Default /\ forked' = forked
      /\ \A i \in Slots : /\ heads'[i].magic = heads[i].magic /\ heads'[i].valid = heads[i].valid
                          /\ heads'[i].config \in Configs => heads'[i].config = heads[i].config
  BY FailureFacts
<1>2. AllTight'
  <2>1. Tight(Default)
    BY Sizes DEF Tight, Default
  <2>2. QED
    BY <1>1, <2>1, Zenon DEF AllTight, Tight
<1>3. ASSUME TailParts
      PROVE  TailParts'
  <2>1. InvalidBelow'
    <3>1. 0 \in Slots
      BY Sizes
    <3>2. InvalidBelow
      BY <1>3 DEF TailParts, HeadPart
    <3>3. QED
      BY <1>1, <3>1, <3>2, Zenon DEF InvalidBelow, Live
  <2>2. HeadPart' /\ ClaimClean' /\ HeadsFollow' /\ FieldsMatch'
    BY <1>1, <2>1, Zenon DEF HeadPart, ClaimClean, HeadsFollow, FieldsMatch
  <2>3. TextsPlanned' /\ \A p \in 1 .. Len(todo') : FALSE
    BY <1>1 DEF TextsPlanned
  <2>4. \A i \in Slots : Adoptable(i)' => Adoptable(i) /\ heads'[i].config = heads[i].config
    BY <1>1, Zenon DEF Adoptable, Live
  <2>5. CASE programmed' = programmed /\ twice' = twice
    <3>1. TwiceInTail'
      BY <1>3, <2>5, Zenon DEF TailParts, TwiceInTail, InTail
    <3>2. HeadsHonest'
      <4>1. ASSUME NEW i \in Slots, Adoptable(i)'
            PROVE  Honest(heads[i].config)'
        <5>1. Honest(heads[i].config) /\ heads'[i].config = heads[i].config
          BY <1>3, <2>4, <4>1, Zenon DEF TailParts, HeadsHonest
        <5>2. QED
          BY <2>5, <5>1, Zenon DEF Honest, Claims, InTail
      <4>2. QED
        BY <2>3, <4>1, Zenon DEF HeadsHonest
    <3>3. QED
      BY <2>2, <2>3, <3>1, <3>2 DEF TailParts
  <2>6. CASE /\ todo # << >> /\ 1 \in 1 .. Len(todo) /\ todo[1].op = "program" /\ todo[1] \in Programs
             /\ \E n \in 0 .. todo[1].n - 1 :
                  /\ programmed' = programmed \cup (todo[1].from .. todo[1].from + n - 1)
                  /\ twice' = twice \cup ((todo[1].from .. todo[1].from + n - 1) \cap programmed)
    <3>1. PICK from : from = todo[1].from
      OBVIOUS
    <3>2. from \in Nat /\ todo[1].n \in Nat
      BY <2>6, <3>1 DEF Programs, Addresses
    <3>3. PICK n \in 0 .. todo[1].n - 1 :
            /\ programmed' = programmed \cup (from .. from + n - 1)
            /\ twice' = twice \cup ((from .. from + n - 1) \cap programmed)
      BY <2>6, <3>1
    <3>4. n \in Nat /\ (from .. from + n - 1) \subseteq Text(1)
      BY <3>1, <3>2, <3>3 DEF Text
    <3>5. TwiceInTail'
      <4>1. SUFFICES ASSUME NEW a \in twice'
                     PROVE  InTail(a)
        BY DEF TwiceInTail, InTail
      <4>2. CASE a \in twice
        BY <1>3, <4>2 DEF TailParts, TwiceInTail
      <4>3. CASE a \notin twice
        <5>1. a \in Text(1) /\ a \in programmed
          BY <3>3, <3>4, <4>1, <4>3
        <5>2. CleanBefore(a, 1)
          BY <1>3, <2>6, <5>1 DEF TailParts, TextsPlanned
        <5>3. ~Erases4(1) /\ ~Erases5(1)
          BY DEF Erases4, Erases5
        <5>4. QED
          BY <5>2, <5>3 DEF CleanBefore
      <4>4. QED
        BY <4>2, <4>3
    <3>6. HeadsHonest'
      <4>1. ASSUME NEW i \in Slots, Adoptable(i)'
            PROVE  Honest(heads[i].config)'
        <5>1. PICK c : c = heads[i].config
          OBVIOUS
        <5>2. /\ Honest(c) /\ heads'[i].config = c /\ c \in Configs
              /\ Keeps(c, 1)
          BY <1>3, <2>4, <2>6, <4>1, <5>1, Zenon DEF TailParts, HeadsHonest, Adoptable
        <5>3. Harmless5(c, from)
          BY <2>6, <3>1, <5>2 DEF Keeps
        <5>4. programmed \subseteq 0 .. LogEnd
          BY DEF FlashInv, Types
        <5>5. Honest(c)'
          BY <3>2, <3>3, <3>4, <5>2, <5>3, <5>4, TextKeeps
        <5>6. QED
          BY <5>2, <5>5, Zenon DEF Honest, Claims, InTail
      <4>2. QED
        BY <2>3, <4>1, Zenon DEF HeadsHonest
    <3>7. QED
      BY <2>2, <2>3, <3>5, <3>6 DEF TailParts
  <2>7. QED
    BY <2>5, <2>6, FailureFacts
<1>4. QED
  BY <1>1, <1>2, <1>3

(***************************************************************************)
(* A call, or a restart, plans its operations: text first, then a head.    *)
(***************************************************************************)
LEMMA FlushOps ==
  ASSUME NEW i \in 0 .. HeadSlots, NEW c \in GoodConfigs
  PROVE  LET F == _flush_head_index(i, c)
         IN \A p \in 1 .. Len(F) :
              /\ F[p].op \in {"invalidate", "fields", "magic", "erase_heads"}
              /\ i < HeadSlots => F[p].op # "erase_heads"
<1> DEFINE Quiet(s) == \A p \in 1 .. Len(s) :
             /\ s[p].op \in {"invalidate", "fields", "magic", "erase_heads"}
             /\ i < HeadSlots => s[p].op # "erase_heads"
           A == IF i > 0 THEN <<Invalidate(i - 1)>> ELSE << >>
           B == IF __is_valid_head_index(i) THEN <<HeadFields(i, c), HeadMagic(i)>>
                                            ELSE <<EraseHeads>>
<1>1. A \in Seq(Operations) /\ Quiet(A)
  <2>1. CASE i > 0
    <3>1. i - 1 \in Slots
      BY <2>1, Sizes DEF Slots
    <3>2. QED
      BY <2>1, <3>1, HeadOps, Singles
  <2>2. CASE i = 0
    BY <2>2
  <2>3. QED
    BY <2>1, <2>2, Sizes
<1>2. B \in Seq(Operations) /\ Quiet(B)
  <2>1. CASE i < HeadSlots
    <3>1. i \in Slots /\ __is_valid_head_index(i)
      BY <2>1, Sizes DEF Slots, __is_valid_head_index
    <3>2. QED
      BY <2>1, <3>1, HeadOps, Pairs
  <2>2. CASE i = HeadSlots
    <3>1. ~__is_valid_head_index(i) /\ ~(i < HeadSlots)
      BY <2>2, Sizes DEF __is_valid_head_index
    <3>2. B = <<EraseHeads>>
      BY <3>1
    <3>3. B \in Seq(Operations) /\ Len(B) = 1 /\ B[1] = EraseHeads
      BY <3>2, ErasureOps, Singles, Zenon
    <3>4. EraseHeads.op = "erase_heads"
      BY ErasureOps
    <3> HIDE DEF B
    <3>5. QED
      BY <3>1, <3>3, <3>4
  <2>3. QED
    BY <2>1, <2>2, Sizes
<1>3. _flush_head_index(i, c) = A \o B
  BY DEF _flush_head_index
<1> HIDE DEF A, B
<1>4. /\ Len(A) \in Nat /\ Len(B) \in Nat /\ Len(A \o B) = Len(A) + Len(B)
      /\ \A p \in 1 .. Len(A) + Len(B) : (A \o B)[p] = IF p <= Len(A) THEN A[p] ELSE B[p - Len(A)]
  BY <1>1, <1>2, ConcatProperties, LenProperties
<1>5. \A p \in 1 .. Len(A \o B) :
        \/ p \in 1 .. Len(A) /\ (A \o B)[p] = A[p]
        \/ p - Len(A) \in 1 .. Len(B) /\ (A \o B)[p] = B[p - Len(A)]
  BY <1>4
<1>6. Quiet(A \o B)
  BY <1>1, <1>2, <1>5
<1>7. QED
  BY <1>3, <1>6

LEMMA PlanOps ==
  ASSUME NEW i \in 0 .. HeadSlots, NEW c \in GoodConfigs,
         NEW pre \in Seq(Operations), Harmless(pre),
         todo' = pre \o _flush_head_index(i, c),
         head_index' = Flushed(i), config' = c
  PROVE  /\ Len(pre) \in Nat /\ Len(todo') \in Nat /\ Len(pre) < Len(todo')
         /\ \A p \in 1 .. Len(todo') :
              \/ p \in 1 .. Len(pre) /\ todo'[p] = pre[p]
              \/ /\ p > Len(pre)
                 /\ todo'[p].op \in {"invalidate", "fields", "magic", "erase_heads"}
                 /\ i < HeadSlots => todo'[p].op # "erase_heads"
         /\ \A p \in 1 .. Len(pre) : p \in 1 .. Len(todo') /\ todo'[p] = pre[p]
         /\ i < HeadSlots => /\ head_index' = i + 1
                             /\ Pending("magic")' /\ Pending("fields")'
                             /\ i > 0 => Pending("invalidate")'
         /\ i = HeadSlots => Pending("erase_heads")'
<1> DEFINE F == _flush_head_index(i, c)
<1>1. /\ F \in Seq(Operations) /\ Len(F) >= 1 /\ (i > 0 => F[1].op = "invalidate")
      /\ \A p \in 1 .. Len(F) :
              /\ F[p].op \in {"invalidate", "fields", "magic", "erase_heads"}
              /\ i < HeadSlots => F[p].op # "erase_heads"
  BY FlushShape, FlushOps
<1>2. todo' = pre \o F
  OBVIOUS
<1> HIDE DEF F
<1>3. /\ Len(pre) \in Nat /\ Len(F) \in Nat /\ Len(todo') = Len(pre) + Len(F)
      /\ \A p \in 1 .. Len(pre) + Len(F) : todo'[p] = IF p <= Len(pre) THEN pre[p] ELSE F[p - Len(pre)]
  BY <1>1, <1>2, ConcatProperties, LenProperties
<1>4. \A p \in 1 .. Len(todo') :
        \/ p \in 1 .. Len(pre) /\ todo'[p] = pre[p]
        \/ p > Len(pre) /\ p - Len(pre) \in 1 .. Len(F) /\ todo'[p] = F[p - Len(pre)]
  BY <1>3
<1>5. \A p \in 1 .. Len(pre) : p \in 1 .. Len(todo') /\ todo'[p] = pre[p]
  BY <1>1, <1>3
<1>6. i > 0 => Pending("invalidate")'
  <2>1. Len(pre) + 1 \in 1 .. Len(todo') /\ todo'[Len(pre) + 1] = F[1]
    <3>1. Len(F) >= 1
      BY <1>1
    <3>2. Len(pre) + 1 \in 1 .. Len(pre) + Len(F)
      BY <1>3, <3>1
    <3>3. Len(pre) + 1 > Len(pre) /\ (Len(pre) + 1) - Len(pre) = 1
      BY <1>3
    <3>4. todo'[Len(pre) + 1] = F[1]
      <4>1. todo'[Len(pre) + 1] = IF Len(pre) + 1 <= Len(pre) THEN pre[Len(pre) + 1]
                                                              ELSE F[(Len(pre) + 1) - Len(pre)]
        BY <1>3, <3>2, Zenon
      <4>2. ~(Len(pre) + 1 <= Len(pre))
        BY <1>3
      <4>3. QED
        BY <3>3, <4>1, <4>2, Zenon
    <3>5. QED
      BY <1>3, <3>2, <3>4
  <2>2. QED
    BY <1>1, <2>1 DEF Pending
<1>7. /\ i < HeadSlots => head_index' = i + 1 /\ todo'[Len(todo')].op = "magic"
      /\ i = HeadSlots => todo'[Len(todo')].op = "erase_heads"
      /\ Shape(todo', head_index', config') /\ todo'[1].op # "magic"
  BY Planned
<1>8. Len(todo') \in 1 .. Len(todo')
  BY <1>1, <1>3
<1>9. i < HeadSlots => Pending("magic")' /\ Pending("fields")'
  <2>1. SUFFICES ASSUME i < HeadSlots
                 PROVE  Pending("magic")' /\ Pending("fields")'
    OBVIOUS
  <2>2. Len(todo') > 1 /\ Len(todo') - 1 \in 1 .. Len(todo')
    BY <1>3, <1>7, <1>8, <2>1
  <2>3. todo'[Len(todo') - 1].op = "fields"
    BY <1>7, <1>8, <2>1, <2>2 DEF Shape
  <2>4. QED
    BY <1>7, <1>8, <2>1, <2>2, <2>3 DEF Pending
<1>10. i = HeadSlots => Pending("erase_heads")'
  BY <1>7, <1>8 DEF Pending
<1>11. QED
  <2>1. Len(todo') \in Nat /\ Len(pre) < Len(todo')
    BY <1>1, <1>3
  <2>2. ASSUME NEW p \in 1 .. Len(todo')
        PROVE  \/ p \in 1 .. Len(pre) /\ todo'[p] = pre[p]
               \/ /\ p > Len(pre)
                  /\ todo'[p].op \in {"invalidate", "fields", "magic", "erase_heads"}
                  /\ i < HeadSlots => todo'[p].op # "erase_heads"
    BY <1>1, <1>4
  <2>3. QED
    BY <1>3, <1>5, <1>6, <1>7, <1>9, <1>10, <2>1, <2>2

(* What the invariant says between two calls.                              *)
LEMMA IdleFacts ==
  ASSUME FlashInv, TailParts, Idle
  PROVE  /\ \A a \in programmed : Claims(config, a) => InTail(a)
         /\ InvalidBelow /\ NewestHead
         /\ \A i \in Slots : Adoptable(i) =>
              LET c == heads[i].config
              IN /\ Honest(c)
                 /\ \/ i = head_index - 1 /\ Same(c, config)
                    \/ /\ c.erase = Sector4
                       /\ \/ config.write >= Sector4
                          \/ config.write <= c.write
                          \/ c.write < Sector4 /\ c.write \in programmed
<1>1. up /\ todo = << >> /\ Len(todo) = 0 /\ 1 .. Len(todo) = {}
  BY DEF Idle
<1>2. /\ \A op : ~Pending(op)
      /\ \A p : ~Erases4(p) /\ ~Erases5(p)
  BY <1>1 DEF Pending, Erases4, Erases5
<1>3. \A a \in programmed : Claims(config, a) => InTail(a)
  BY <1>1, <1>2 DEF TailParts, ClaimClean, CleanBefore
<1>4. InvalidBelow /\ NewestHead
  BY <1>1, <1>2 DEF TailParts, HeadPart
<1>5. ASSUME NEW i \in Slots, Adoptable(i)
      PROVE  /\ Honest(heads[i].config)
             /\ (i = head_index - 1 /\ Same(heads[i].config, config)) \/ Behind(heads[i].config)
  BY <1>1, <1>2, <1>5, Zenon DEF TailParts, HeadsHonest, HeadsFollow, Stays
<1>6. ASSUME NEW i \in Slots, Behind(heads[i].config)
      PROVE  /\ heads[i].config.erase = Sector4
             /\ \/ config.write >= Sector4
                \/ config.write <= heads[i].config.write
                \/ heads[i].config.write < Sector4 /\ heads[i].config.write \in programmed
  BY <1>1, <1>6 DEF Behind
<1>7. QED
  BY <1>3, <1>4, <1>5, <1>6, Zenon

LEMMA PlanHeads ==
  ASSUME NEW i \in 0 .. HeadSlots, NEW c \in GoodConfigs,
         NEW pre \in Seq(Operations), Harmless(pre),
         todo' = pre \o _flush_head_index(i, c), head_index' = Flushed(i), config' = c,
         heads' = heads, InvalidBelow, head_index \in 0 .. HeadSlots,
         \/ \E p \in 1 .. Len(pre) : pre[p].op = "erase_heads"
         \/ NewestHead /\ i = head_index
         \/ NewestHead /\ i = 0 /\ ~(head_index > 0 /\ ~heads[0].magic)
  PROVE  HeadPart'
<1> DEFINE k == head_index
<1>1. InvalidBelow'
  BY Zenon DEF InvalidBelow, Live
<1>2. CASE Pending("erase_heads")'
  BY <1>1, <1>2 DEF HeadPart
<1>3. CASE ~Pending("erase_heads")'
  <2>1. /\ i < HeadSlots /\ head_index' = i + 1 /\ Pending("magic")'
        /\ i > 0 => Pending("invalidate")'
    <3>1. i # HeadSlots
      BY <1>3, PlanOps
    <3>2. i < HeadSlots
      BY <3>1, Sizes
    <3>3. QED
      BY <3>2, PlanOps
  <2>2. NewestHead /\ (i = k \/ (i = 0 /\ ~(k > 0 /\ ~heads[0].magic)))
    <3>1. ~\E p \in 1 .. Len(pre) : pre[p].op = "erase_heads"
      BY <1>3, PlanOps DEF Pending
    <3>2. QED
      BY <3>1
  <2>3. SUFFICES NextHead'
    BY <1>1, <2>1 DEF HeadPart
  <2>4. CASE heads[0].magic
    <3>1. ASSUME NEW j \in Slots, j < i
          PROVE  ~heads[j].valid \/ (j = i - 1 /\ i > 0)
      <4>1. j < k - 1 => ~heads[j].valid
        BY <2>2, <2>4 DEF NewestHead
      <4>2. j < i - 1 \/ j = i - 1
        BY <3>1 DEF Slots
      <4>3. QED
        BY <2>2, <3>1, <4>1, <4>2 DEF Slots
    <3>2. i = (i + 1) - 1 /\ i - 1 = (i + 1) - 2
      OBVIOUS
    <3>3. QED
      BY <2>1, <2>4, <3>1, <3>2, Zenon DEF NextHead
  <2>5. CASE ~heads[0].magic
    <3>1. ASSUME NEW j \in Slots, Live(j)
          PROVE  j = i - 1 /\ i > 0
      <4>1. j = k - 1
        BY <2>2, <2>5, <3>1, Zenon DEF NewestHead
      <4>2. QED
        BY <2>2, <2>5, <4>1 DEF Slots
    <3>2. i - 1 = (i + 1) - 2
      OBVIOUS
    <3>3. \A j \in Slots : Live(j)' <=> Live(j)
      BY Zenon DEF Live
    <3>4. QED
      BY <2>1, <2>5, <3>1, <3>2, <3>3, Zenon DEF NextHead
  <2>6. QED
    BY <2>4, <2>5
<1>4. QED
  BY <1>2, <1>3

LEMMA PlanFields ==
  ASSUME NEW i \in 0 .. HeadSlots, NEW c \in GoodConfigs,
         NEW pre \in Seq(Operations), Harmless(pre),
         todo' = pre \o _flush_head_index(i, c), head_index' = Flushed(i), config' = c
  PROVE  FieldsMatch'
<1>1. Pending("fields")' \/ Pending("erase_heads")'
  <2>1. i < HeadSlots \/ i = HeadSlots
    BY Sizes
  <2>2. QED
    BY <2>1, PlanOps
<1>2. QED
  BY <1>1 DEF FieldsMatch

(***************************************************************************)
(* Writing on.                                                             *)
(***************************************************************************)
(* The text and the erasure among the operations planned.                  *)
OnTodo(w, len, ok, erases) ==
  /\ \A p \in 1 .. Len(todo) :
       /\ todo[p].op = "program" =>
            /\ ok /\ p = (IF erases THEN 2 ELSE 1)
            /\ todo[p].from = w /\ todo[p].n = len
       /\ todo[p].op = "erase" => erases /\ p = 1 /\ todo[p].addr = Sector4
  /\ erases => 1 \in 1 .. Len(todo) /\ todo[1].op = "erase" /\ todo[1].addr = Sector4
  /\ ok => \E p \in 1 .. Len(todo) :
             todo[p].op = "program" /\ todo[p].from = w /\ todo[p].n = len

LEMMA OperationFields ==
  /\ \A a, n : Program(a, n).op = "program" /\ Program(a, n).from = a /\ Program(a, n).n = n
  /\ \A a : Erase(a).op = "erase" /\ Erase(a).addr = a
  BY DEF Program, Erase

LEMMA OnTodoPlanned ==
  ASSUME NEW i \in 0 .. HeadSlots, NEW c \in GoodConfigs,
         NEW pre \in Seq(Operations), Harmless(pre),
         todo' = pre \o _flush_head_index(i, c), head_index' = Flushed(i), config' = c,
         NEW len, NEW ok \in BOOLEAN, NEW erases \in BOOLEAN, NEW w, w = config.write, OnPlan(len, ok, erases, pre)
  PROVE  OnTodo(w, len, ok, erases)'
<1>0. Program(w, len).op = "program" /\ Program(w, len).from = w /\ Program(w, len).n = len
  BY OperationFields
<1>1. /\ \A p \in 1 .. Len(todo') :
           \/ p \in 1 .. Len(pre) /\ todo'[p] = pre[p]
           \/ todo'[p].op \in {"invalidate", "fields", "magic", "erase_heads"}
      /\ \A p \in 1 .. Len(pre) : p \in 1 .. Len(todo') /\ todo'[p] = pre[p]
  <2>1. /\ \A p \in 1 .. Len(todo') :
             \/ p \in 1 .. Len(pre) /\ todo'[p] = pre[p]
             \/ /\ p > Len(pre)
                /\ todo'[p].op \in {"invalidate", "fields", "magic", "erase_heads"}
                /\ i < HeadSlots => todo'[p].op # "erase_heads"
        /\ \A p \in 1 .. Len(pre) : p \in 1 .. Len(todo') /\ todo'[p] = pre[p]
    BY PlanOps
  <2>2. QED
    BY <2>1, Zenon
<1>2. /\ \A p \in 1 .. Len(pre) :
           \/ erases /\ p = 1 /\ pre[p] = Erase(Sector4)
           \/ ok /\ p = (IF erases THEN 2 ELSE 1) /\ pre[p] = Program(w, len)
      /\ erases => 1 \in 1 .. Len(pre) /\ pre[1] = Erase(Sector4)
      /\ ok => \E p \in 1 .. Len(pre) : pre[p] = Program(w, len)
  BY DEF OnPlan
<1>3. ASSUME NEW p \in 1 .. Len(todo')
      PROVE  /\ todo'[p].op = "program" =>
                  /\ ok /\ p = (IF erases THEN 2 ELSE 1)
                  /\ todo'[p].from = w /\ todo'[p].n = len
             /\ todo'[p].op = "erase" => erases /\ p = 1 /\ todo'[p].addr = Sector4
  <2>1. CASE p \in 1 .. Len(pre) /\ todo'[p] = pre[p]
    <3>1. \/ erases /\ p = 1 /\ todo'[p] = Erase(Sector4)
          \/ ok /\ p = (IF erases THEN 2 ELSE 1) /\ todo'[p] = Program(w, len)
      BY <1>2, <2>1
    <3>2. CASE erases /\ p = 1 /\ todo'[p] = Erase(Sector4)
      <4>1. todo'[p].op = "erase" /\ todo'[p].addr = Sector4
        BY <3>2, OperationFields, Zenon
      <4>2. QED
        BY <3>2, <4>1
    <3>3. CASE ok /\ p = (IF erases THEN 2 ELSE 1) /\ todo'[p] = Program(w, len)
      <4>1. todo'[p].op = "program" /\ todo'[p].from = w /\ todo'[p].n = len
        BY <1>0, <3>3
      <4>2. QED
        BY <3>3, <4>1
    <3>4. QED
      BY <3>1, <3>2, <3>3
  <2>2. CASE todo'[p].op \in {"invalidate", "fields", "magic", "erase_heads"}
    BY <2>2
  <2>3. QED
    BY <1>1, <2>1, <2>2
<1>4. erases => 1 \in 1 .. Len(todo') /\ todo'[1].op = "erase" /\ todo'[1].addr = Sector4
  <2>1. erases => 1 \in 1 .. Len(todo') /\ todo'[1] = Erase(Sector4)
    BY <1>1, <1>2
  <2>2. QED
    BY <2>1, OperationFields, Zenon
<1>5. ok => \E p \in 1 .. Len(todo') :
              todo'[p].op = "program" /\ todo'[p].from = w /\ todo'[p].n = len
  <2>1. ok => \E p \in 1 .. Len(todo') : todo'[p] = Program(w, len)
    BY <1>1, <1>2
  <2>2. QED
    BY <1>0, <2>1
<1>6. QED
  BY <1>3, <1>4, <1>5, Zenon DEF OnTodo

LEMMA WriteOnTail ==
  ASSUME FlashInv, AllTight, ~forked => TailParts,
         NEW len \in 1 .. MaxLen, NEW ok \in BOOLEAN, WriteOn(len, ok)
  PROVE  AllTight' /\ (~forked' => TailParts')
<1>1. PICK i \in 0 .. HeadSlots, c \in GoodConfigs, pre \in Seq(Operations), erases \in BOOLEAN :
        /\ Harmless(pre)
        /\ todo' = pre \o _flush_head_index(i, c) /\ head_index' = Flushed(i) /\ config' = c
        /\ Idle /\ UNCHANGED <<flash, up, twice>>
        /\ erases <=> config.erase < config.write + len
        /\ config.write + len <= LogEnd
        /\ i = IF erases THEN 0 ELSE head_index
        /\ c.write = IF ok THEN config.write + len ELSE config.write
        /\ c.erase = IF erases THEN LogEnd + 1 ELSE config.erase
        /\ erases => config.erase = Sector4
        /\ forked' = (forked \/ (erases /\ head_index > 0 /\ ~heads[0].magic))
        /\ OnPlan(len, ok, erases, pre)
  BY WriteOnPlan
<1>2. /\ heads' = heads /\ programmed' = programmed /\ twice' = twice /\ up' = up /\ up
  BY <1>1 DEF flash, Idle
<1>3. PICK w, e : w = config.write /\ e = config.erase
  OBVIOUS
<1>4. w \in Nat /\ e \in Nat /\ len \in Nat \ {0} /\ w <= e
  <2>1. config \in Configs /\ Tight(config)
    BY DEF FlashInv, Types, GoodConfigs, AllTight
  <2>2. QED
    BY <1>3, <2>1, ConfigNumbers, Sizes DEF Tight
<1>5. /\ erases <=> e < w + len
      /\ w + len <= LogEnd
      /\ c.write = IF ok THEN w + len ELSE w
      /\ c.erase = IF erases THEN LogEnd + 1 ELSE e
      /\ erases => e = Sector4
  BY <1>1, <1>3, Zenon
<1>6. OnTodo(w, len, ok, erases)'
  BY <1>1, <1>3, OnTodoPlanned
<1>7. AllTight'
  <2>1. Tight(c)
    BY <1>4, <1>5, Sizes DEF Tight
  <2>2. QED
    BY <1>1, <1>2, <2>1, Zenon DEF AllTight, Tight
<1>8. SUFFICES ASSUME ~forked'
               PROVE  TailParts'
  BY <1>7
<1>9. TailParts /\ (erases => ~(head_index > 0 /\ ~heads[0].magic))
  BY <1>1, <1>8
<1>10. /\ \A a \in programmed : w <= a /\ a < e => InTail(a)
       /\ InvalidBelow /\ NewestHead
       /\ \A j \in Slots : Adoptable(j) =>
            LET d == heads[j].config
            IN /\ Honest(d)
               /\ \/ j = head_index - 1 /\ Same(d, config)
                  \/ /\ d.erase = Sector4
                     /\ w >= Sector4 \/ w <= d.write \/ (d.write < Sector4 /\ d.write \in programmed)
  BY <1>1, <1>3, <1>9, IdleFacts, Zenon DEF Claims
<1>11. programmed \subseteq 0 .. LogEnd /\ head_index \in 0 .. HeadSlots
  BY DEF FlashInv, Types
<1>12. TwiceInTail'
  BY <1>2, <1>9, Zenon DEF TailParts, TwiceInTail, InTail
<1>13. HeadPart'
  BY <1>1, <1>2, <1>9, <1>10, <1>11, PlanHeads
<1>14. FieldsMatch'
  BY <1>1, PlanFields
<1>15. ClaimClean'
  <2>1. SUFFICES ASSUME NEW a \in programmed, c.write <= a, a < c.erase
                 PROVE  CleanBefore(a, Any)'
    BY <1>1, <1>2 DEF ClaimClean, Claims
  <2>2. a \in Nat
    BY <1>11
  <2>3. w <= a
    BY <1>4, <1>5, <2>1, <2>2
  <2>4. CASE a < e
    BY <1>10, <2>3, <2>4 DEF CleanBefore, InTail
  <2>5. CASE ~(a < e)
    <3>1. erases /\ a >= Sector4
      BY <1>4, <1>5, <2>1, <2>2, <2>5, Sizes
    <3>2. Erases5(Any)'
      <4>1. /\ 1 \in 1 .. Len(todo') /\ todo'[1].op = "erase" /\ todo'[1].addr = Sector4
            /\ 1 < Len(todo') + 1
        BY <1>6, <3>1 DEF OnTodo
      <4>2. QED
        BY <4>1, Sizes DEF Erases5, Any
    <3>3. QED
      BY <3>1, <3>2 DEF CleanBefore
  <2>6. QED
    BY <2>4, <2>5
<1>16. TextsPlanned'
  <2>1. SUFFICES ASSUME NEW p \in 1 .. Len(todo'), todo'[p].op = "program"
                 PROVE  /\ \A a \in Text(p)' : /\ ~Claims(config, a)'
                                               /\ a \in programmed' => CleanBefore(a, p)'
                        /\ todo'[p].from >= Sector4
                             \/ \A q \in 1 .. Len(todo') :
                                  todo'[q].op = "erase" /\ todo'[q].addr < Sector4 => q < p
                        /\ \A q \in 1 .. Len(todo') : q < p /\ todo'[q].op = "program" =>
                             \A a \in Text(p)' : a < Sector4 /\ Sector4 <= todo'[q].from
    BY DEF TextsPlanned
  <2>2. ok /\ p = (IF erases THEN 2 ELSE 1) /\ todo'[p].from = w /\ todo'[p].n = len
    BY <1>6, <2>1 DEF OnTodo
  <2>3. Text(p)' = w .. w + len - 1
    BY <2>2 DEF Text
  <2>4. ASSUME NEW a \in w .. w + len - 1
        PROVE  ~Claims(config, a)' /\ (a \in programmed' => CleanBefore(a, p)')
    <3>1. ~Claims(config, a)'
      BY <1>1, <1>4, <1>5, <2>2 DEF Claims
    <3>2. ASSUME a \in programmed
          PROVE  CleanBefore(a, p)'
      <4>1. CASE a < e
        BY <1>4, <1>10, <3>2, <4>1 DEF CleanBefore, InTail
      <4>2. CASE ~(a < e)
        <5>1. erases /\ a >= Sector4
          BY <1>4, <1>5, <4>2, Sizes
        <5>2. 1 \in 1 .. Len(todo') /\ todo'[1].op = "erase" /\ todo'[1].addr = Sector4 /\ p = 2
          BY <1>6, <2>2, <5>1 DEF OnTodo
        <5>3. Erases5(p)'
          <6>1. 1 < p /\ Sector4 >= Sector4
            BY <5>2, Sizes
          <6>2. todo'[1].addr >= Sector4
            BY <5>2, <6>1, Zenon
          <6>3. \E q \in 1 .. Len(todo') :
                  q < p /\ todo'[q].op = "erase" /\ todo'[q].addr >= Sector4
            BY <5>2, <6>1, <6>2, Zenon
          <6>4. QED
            BY <6>3, Zenon DEF Erases5
        <5>4. QED
          BY <5>1, <5>3 DEF CleanBefore
      <4>3. QED
        BY <4>1, <4>2
    <3>3. QED
      BY <1>2, <3>1, <3>2
  <2>5. \A q \in 1 .. Len(todo') : ~(todo'[q].op = "erase" /\ todo'[q].addr < Sector4)
    BY <1>6, Sizes DEF OnTodo
  <2>6. \A q \in 1 .. Len(todo') : ~(q < p /\ todo'[q].op = "program")
    BY <1>6, <2>2 DEF OnTodo
  <2>7. QED
    BY <2>3, <2>4, <2>5, <2>6
<1>17. ~Erases4(Any)'
  BY <1>6, Sizes DEF Erases4, OnTodo
<1>18. HeadsHonest'
  <2>1. SUFFICES ASSUME NEW j \in Slots, Adoptable(j)'
                 PROVE  Honest(heads[j].config)' /\ \A p \in 1 .. Len(todo') : Keeps(heads[j].config, p)'
    BY DEF HeadsHonest
  <2>2. PICK d : d = heads[j].config
    OBVIOUS
  <2>3. d \in Configs /\ Adoptable(j)
    BY <1>2, <2>1, <2>2, Zenon DEF Adoptable, Live
  <2>4. /\ Honest(d)
        /\ \/ Same(d, config)
           \/ /\ d.erase = Sector4
              /\ w >= Sector4 \/ w <= d.write \/ (d.write < Sector4 /\ d.write \in programmed)
    BY <1>10, <2>2, <2>3, Zenon
  <2>5. Honest(d)'
    BY <1>2, <2>4, Zenon DEF Honest, Claims, InTail
  <2>6. ASSUME NEW p \in 1 .. Len(todo')
        PROVE  Keeps(d, p)'
    <3>1. ~(todo'[p].op = "erase" /\ todo'[p].addr < Sector4)
      BY <1>6, Sizes DEF OnTodo
    <3>2. ASSUME todo'[p].op = "program"
          PROVE  Harmless5(d, todo[p].from)'
      <4>1. todo'[p].from = w
        BY <1>6, <3>2 DEF OnTodo
      <4>2. d.write \in Nat /\ d.erase \in Nat
        BY <2>3, ConfigNumbers
      <4>3. d.erase <= w \/ w <= d.write \/ (d.write < Sector4 /\ d.write \in programmed)
        BY <1>3, <1>4, <2>4, <4>2, Sizes DEF Same
      <4>4. QED
        BY <1>2, <1>17, <4>1, <4>3 DEF Harmless5
    <3>3. QED
      BY <3>1, <3>2 DEF Keeps
  <2>7. QED
    BY <1>2, <2>2, <2>5, <2>6, Zenon DEF Honest, Keeps, Claims, InTail, Harmless5, Erases4, Any
<1>19. HeadsFollow'
  <2>1. SUFFICES ASSUME ~Pending("erase_heads")', NEW j \in Slots, Adoptable(j)', Stays(j)'
                 PROVE  Behind(heads[j].config)'
    BY DEF HeadsFollow
  <2>2. PICK d : d = heads[j].config
    OBVIOUS
  <2>3. d \in Configs /\ Adoptable(j) /\ d.write \in Nat
    BY <1>2, <2>1, <2>2, ConfigNumbers, Zenon DEF Adoptable, Live
  <2>4. /\ i < HeadSlots /\ head_index' = i + 1 /\ (i > 0 => Pending("invalidate")')
    <3>1. i # HeadSlots
      BY <1>1, <2>1, PlanOps
    <3>2. i < HeadSlots
      BY <3>1, Sizes
    <3>3. QED
      BY <1>1, <3>2, PlanOps
  <2>5. ~erases => j # head_index - 1
    <3>1. i > 0 => j # i - 1
      <4>1. (i + 1) - 2 = i - 1
        OBVIOUS
      <4>2. QED
        BY <2>1, <2>4, <4>1 DEF Stays
    <3>2. i = 0 => j # i - 1
      BY DEF Slots
    <3>3. QED
      BY <1>1, <3>1, <3>2
  <2>6. \/ erases /\ d.write = w /\ d.erase = Sector4
        \/ /\ d.erase = Sector4
           /\ w >= Sector4 \/ w <= d.write \/ (d.write < Sector4 /\ d.write \in programmed)
    BY <1>3, <1>5, <1>10, <2>2, <2>3, <2>5, Zenon DEF Same
  <2>7. Behind(d)'
    <3>1. SUFFICES \/ c.write >= Sector4
                   \/ c.write <= d.write
                   \/ d.write < Sector4 /\ \/ d.write \in programmed
                                           \/ \E p \in 1 .. Len(todo') :
                                                todo'[p].op = "program" /\ d.write \in Text(p)'
      BY <1>1, <1>2, <1>17, <2>6 DEF Behind
    <3>2. CASE ok
      <4>1. PICK p \in 1 .. Len(todo') :
              todo'[p].op = "program" /\ todo'[p].from = w /\ todo'[p].n = len
        BY <1>6, <3>2 DEF OnTodo
      <4>2. Text(p)' = w .. w + len - 1
        BY <4>1 DEF Text
      <4>3. c.write = w + len
        BY <1>5, <3>2
      <4>4. erases => c.write >= Sector4
        BY <1>4, <1>5, <4>3, Sizes
      <4>5. w >= Sector4 => c.write >= Sector4
        BY <1>4, <4>3, Sizes
      <4>6. w <= d.write => c.write >= Sector4 \/ c.write <= d.write
                            \/ (d.write < Sector4 /\ d.write \in w .. w + len - 1)
        BY <1>4, <2>3, <4>3, Sizes
      <4>7. QED
        BY <2>6, <4>1, <4>2, <4>4, <4>5, <4>6
    <3>3. CASE ~ok
      BY <1>4, <1>5, <2>3, <2>6, <3>3
    <3>4. QED
      BY <3>2, <3>3
  <2>8. QED
    BY <1>2, <2>2, <2>7, Zenon DEF Behind, Erases4, Any, Text
<1>20. QED
  BY <1>12, <1>13, <1>14, <1>15, <1>16, <1>18, <1>19 DEF TailParts

(***************************************************************************)
(* Writing around the end.                                                 *)
(***************************************************************************)
AroundTodo(w, len, filled, ok) ==
  LET first == LogEnd - w
      e == IF filled THEN 2 ELSE 1
  IN /\ \A p \in 1 .. Len(todo) :
          /\ todo[p].op = "program" =>
               \/ filled /\ p = 1 /\ todo[p].from = w /\ todo[p].n = first
               \/ ok /\ p = e + 1 /\ todo[p].from = 0 /\ todo[p].n = len - first
          /\ todo[p].op = "erase" => p = e /\ todo[p].addr = 0
     /\ e \in 1 .. Len(todo) /\ todo[e].op = "erase" /\ todo[e].addr = 0
     /\ ok => \E p \in 1 .. Len(todo) :
                todo[p].op = "program" /\ todo[p].from = 0 /\ todo[p].n = len - first

LEMMA AroundTodoPlanned ==
  ASSUME NEW i \in 0 .. HeadSlots, NEW c \in GoodConfigs,
         NEW pre \in Seq(Operations), Harmless(pre),
         todo' = pre \o _flush_head_index(i, c), head_index' = Flushed(i), config' = c,
         NEW len, NEW filled \in BOOLEAN, NEW ok \in BOOLEAN, NEW w, w = config.write,
         AroundPlan(len, filled, ok, pre)
  PROVE  AroundTodo(w, len, filled, ok)'
<1>0. PICK first, e : first = LogEnd - w /\ e = IF filled THEN 2 ELSE 1
  OBVIOUS
<1>1. /\ \A p \in 1 .. Len(todo') :
           \/ p \in 1 .. Len(pre) /\ todo'[p] = pre[p]
           \/ todo'[p].op \in {"invalidate", "fields", "magic", "erase_heads"}
      /\ \A p \in 1 .. Len(pre) : p \in 1 .. Len(todo') /\ todo'[p] = pre[p]
  <2>1. /\ \A p \in 1 .. Len(todo') :
             \/ p \in 1 .. Len(pre) /\ todo'[p] = pre[p]
             \/ /\ p > Len(pre)
                /\ todo'[p].op \in {"invalidate", "fields", "magic", "erase_heads"}
                /\ i < HeadSlots => todo'[p].op # "erase_heads"
        /\ \A p \in 1 .. Len(pre) : p \in 1 .. Len(todo') /\ todo'[p] = pre[p]
    BY PlanOps
  <2>2. QED
    BY <2>1, Zenon
<1>2. /\ \A p \in 1 .. Len(pre) :
           \/ filled /\ p = 1 /\ pre[p] = Program(w, first)
           \/ p = e /\ pre[p] = Erase(0)
           \/ ok /\ p = e + 1 /\ pre[p] = Program(0, len - first)
      /\ e \in 1 .. Len(pre) /\ pre[e] = Erase(0)
      /\ ok => \E p \in 1 .. Len(pre) : pre[p] = Program(0, len - first)
  BY <1>0, Zenon DEF AroundPlan
<1>3. /\ Program(w, first).op = "program" /\ Program(w, first).from = w
      /\ Program(w, first).n = first
      /\ Program(0, len - first).op = "program" /\ Program(0, len - first).from = 0
      /\ Program(0, len - first).n = len - first
      /\ Erase(0).op = "erase" /\ Erase(0).addr = 0
  BY OperationFields
<1>4. ASSUME NEW p \in 1 .. Len(todo')
      PROVE  /\ todo'[p].op = "program" =>
                  \/ filled /\ p = 1 /\ todo'[p].from = w /\ todo'[p].n = first
                  \/ ok /\ p = e + 1 /\ todo'[p].from = 0 /\ todo'[p].n = len - first
             /\ todo'[p].op = "erase" => p = e /\ todo'[p].addr = 0
  <2>1. CASE p \in 1 .. Len(pre) /\ todo'[p] = pre[p]
    <3>1. \/ filled /\ p = 1 /\ todo'[p] = Program(w, first)
          \/ p = e /\ todo'[p] = Erase(0)
          \/ ok /\ p = e + 1 /\ todo'[p] = Program(0, len - first)
      BY <1>2, <2>1, Zenon
    <3>2. QED
      BY <1>3, <3>1
  <2>2. CASE todo'[p].op \in {"invalidate", "fields", "magic", "erase_heads"}
    BY <2>2
  <2>3. QED
    BY <1>1, <2>1, <2>2
<1>5. e \in 1 .. Len(todo') /\ todo'[e].op = "erase" /\ todo'[e].addr = 0
  BY <1>1, <1>2, <1>3
<1>6. ok => \E p \in 1 .. Len(todo') :
              todo'[p].op = "program" /\ todo'[p].from = 0 /\ todo'[p].n = len - first
  BY <1>1, <1>2, <1>3
<1>7. QED
  BY <1>0, <1>4, <1>5, <1>6, Zenon DEF AroundTodo

LEMMA WriteAroundTail ==
  ASSUME FlashInv, AllTight, ~forked => TailParts,
         NEW len \in 1 .. MaxLen, NEW filled \in BOOLEAN, NEW ok \in BOOLEAN,
         WriteAround(len, filled, ok), ~overlong'
  PROVE  AllTight' /\ (~forked' => TailParts')
<1> DEFINE i == head_index
<1>1. PICK c \in GoodConfigs, pre \in Seq(Operations) :
        /\ Harmless(pre)
        /\ todo' = pre \o _flush_head_index(head_index, c) /\ head_index' = Flushed(head_index)
        /\ config' = c
        /\ Idle /\ UNCHANGED <<flash, up, history>>
        /\ config.write + len > LogEnd
        /\ c.write = IF ok THEN len - (LogEnd - config.write) ELSE 0
        /\ c.erase = Sector4
        /\ AroundPlan(len, filled, ok, pre)
  BY WriteAroundPlan
<1>2. /\ heads' = heads /\ programmed' = programmed /\ twice' = twice /\ up' = up /\ up
      /\ forked' = forked
  BY <1>1 DEF flash, Idle, history
<1>3. PICK w, erased, first, e :
        /\ w = config.write /\ erased = config.erase
        /\ first = LogEnd - w /\ e = IF filled THEN 2 ELSE 1
  OBVIOUS
<1>4. /\ w \in Nat /\ w >= Sector4 /\ erased \in Nat /\ erased >= LogEnd
      /\ first \in Nat /\ w + first = LogEnd
      /\ len - first \in Nat /\ len - first <= Sector4
      /\ e \in {1, 2}
  <2>1. /\ config \in Configs /\ Tight(config) /\ config.write <= LogEnd
        /\ config.erase \in {Sector4, LogEnd, LogEnd + 1}
    BY DEF FlashInv, Types, GoodConfigs, AllTight
  <2>2. w \in Nat /\ erased \in Nat /\ w <= erased /\ w <= LogEnd /\ w + len > LogEnd
    BY <1>1, <1>3, <2>1, ConfigNumbers DEF Tight
  <2>3. len \in Nat /\ LogEnd - len >= Sector4 - 1
    BY Sizes, FlashAssumption DEF LogEnd
  <2>4. w >= Sector4
    BY <2>2, <2>3, Sizes
  <2>5. ~(config.erase < LogEnd) /\ ~(len - (LogEnd - config.write) > Sector4)
    BY DEF WriteAround
  <2>6. erased >= LogEnd
    BY <1>3, <2>1, <2>2, <2>5, Sizes
  <2>7. first \in Nat /\ w + first = LogEnd /\ len - first \in Nat /\ len - first <= Sector4
    <3>1. first = LogEnd - w /\ ~(len - first > Sector4)
      BY <1>3, <2>5
    <3>2. LogEnd \in Nat /\ Sector4 \in Nat
      BY Sizes
    <3>3. QED
      BY <2>2, <2>3, <3>1, <3>2
  <2>8. QED
    BY <1>3, <2>2, <2>4, <2>6, <2>7, Sizes
<1>5. c.write = (IF ok THEN len - first ELSE 0) /\ c.erase = Sector4
  BY <1>1, <1>3, Zenon
<1>6. /\ \A p \in 1 .. Len(todo') :
           /\ todo'[p].op = "program" =>
                \/ filled /\ p = 1 /\ todo'[p].from = w /\ todo'[p].n = first
                \/ ok /\ p = e + 1 /\ todo'[p].from = 0 /\ todo'[p].n = len - first
           /\ todo'[p].op = "erase" => p = e /\ todo'[p].addr = 0
      /\ e \in 1 .. Len(todo') /\ todo'[e].op = "erase" /\ todo'[e].addr = 0
      /\ ok => \E p \in 1 .. Len(todo') :
                 todo'[p].op = "program" /\ todo'[p].from = 0 /\ todo'[p].n = len - first
  <2>1. AroundTodo(w, len, filled, ok)'
    <3>1. head_index \in 0 .. HeadSlots
      BY DEF FlashInv, Types
    <3>2. QED
      BY <1>1, <1>3, <3>1, AroundTodoPlanned
  <2>2. QED
    BY <1>3, <2>1, Zenon DEF AroundTodo
<1>7. AllTight'
  <2>1. Tight(c)
    BY <1>4, <1>5, Sizes DEF Tight
  <2>2. QED
    BY <1>1, <1>2, <2>1, Zenon DEF AllTight, Tight
<1>8. SUFFICES ASSUME ~forked'
               PROVE  TailParts'
  BY <1>7
<1>9. TailParts
  BY <1>2, <1>8
<1>10. /\ \A a \in programmed : w <= a /\ a < erased => InTail(a)
       /\ InvalidBelow /\ NewestHead
       /\ \A j \in Slots : Adoptable(j) =>
            LET d == heads[j].config
            IN /\ Honest(d)
               /\ (j = head_index - 1 /\ Same(d, config)) \/ d.erase = Sector4
  BY <1>1, <1>3, <1>9, IdleFacts, Zenon DEF Claims
<1>11. programmed \subseteq 0 .. LogEnd /\ head_index \in 0 .. HeadSlots
  BY DEF FlashInv, Types
<1>12. TwiceInTail'
  BY <1>2, <1>9, Zenon DEF TailParts, TwiceInTail, InTail
<1>13. HeadPart'
  BY <1>1, <1>2, <1>10, <1>11, PlanHeads
<1>14. FieldsMatch'
  BY <1>1, <1>11, PlanFields
<1>15. ASSUME NEW p, NEW a, e < p, a < Sector4
       PROVE  CleanBefore(a, p)'
  BY <1>6, <1>15, Sizes DEF CleanBefore, Erases4
<1>16. ClaimClean'
  <2>1. SUFFICES ASSUME NEW a \in programmed, c.write <= a, a < c.erase
                 PROVE  CleanBefore(a, Any)'
    BY <1>1, <1>2 DEF ClaimClean, Claims
  <2>2. Erases4(Any)'
    <3>1. e < Len(todo') + 1
      BY <1>6
    <3>2. QED
      BY <1>6, <3>1, Sizes DEF Erases4, Any
  <2>3. QED
    BY <1>5, <2>1, <2>2 DEF CleanBefore
<1>17. TextsPlanned'
  <2>1. SUFFICES ASSUME NEW p \in 1 .. Len(todo'), todo'[p].op = "program"
                 PROVE  /\ \A a \in Text(p)' : /\ ~Claims(config, a)'
                                               /\ a \in programmed' => CleanBefore(a, p)'
                        /\ todo'[p].from >= Sector4
                             \/ \A q \in 1 .. Len(todo') :
                                  todo'[q].op = "erase" /\ todo'[q].addr < Sector4 => q < p
                        /\ \A q \in 1 .. Len(todo') : q < p /\ todo'[q].op = "program" =>
                             \A a \in Text(p)' : a < Sector4 /\ Sector4 <= todo'[q].from
    BY DEF TextsPlanned
  <2>2. CASE filled /\ p = 1 /\ todo'[p].from = w /\ todo'[p].n = first
    <3>1. Text(p)' = w .. w + first - 1
      BY <2>2 DEF Text
    <3>2. ASSUME NEW a \in w .. w + first - 1
          PROVE  /\ ~Claims(config, a)'
                 /\ a \in programmed => InTail(a)
      <4>1. a \in Nat /\ w <= a /\ a < erased /\ Sector4 <= a
        BY <1>4, Sizes
      <4>2. ~(a < c.erase)
        BY <1>5, <4>1, Sizes
      <4>3. ~Claims(config, a)'
        BY <1>1, <4>2 DEF Claims
      <4>4. QED
        BY <1>10, <4>1, <4>3
    <3>3. \A a : InTail(a) => CleanBefore(a, p)'
      BY DEF CleanBefore, InTail
    <3>4. todo'[p].from >= Sector4
      BY <1>4, <2>2
    <3>5. \A q \in 1 .. Len(todo') : ~(q < p)
      BY <2>2
    <3>6. QED
      BY <1>2, <3>1, <3>2, <3>3, <3>4, <3>5
  <2>3. CASE ok /\ p = e + 1 /\ todo'[p].from = 0 /\ todo'[p].n = len - first
    <3>1. Text(p)' = 0 .. 0 + (len - first) - 1
      BY <2>3 DEF Text
    <3>2. ASSUME NEW a \in 0 .. 0 + (len - first) - 1
          PROVE  ~Claims(config, a)' /\ a < Sector4 /\ CleanBefore(a, p)'
      <4>1. a < c.write /\ a < Sector4 /\ a \in Nat /\ c.write \in Nat
        BY <1>4, <1>5, <2>3, Sizes
      <4>2. ~Claims(config, a)'
        BY <1>1, <4>1 DEF Claims
      <4>3. CleanBefore(a, p)'
        <5>1. e < p
          <6>1. e \in Nat /\ p = e + 1
            BY <1>4, <2>3
          <6>2. QED
            BY <6>1
        <5>2. QED
          BY <1>15, <4>1, <5>1
      <4>4. QED
        BY <4>1, <4>2, <4>3
    <3>3. \A q \in 1 .. Len(todo') : todo'[q].op = "erase" => q < p
      <4>1. \A q \in 1 .. Len(todo') : todo'[q].op = "erase" => q = e
        BY <1>6, Zenon
      <4>2. e < p
        BY <1>4, <2>3
      <4>3. QED
        BY <4>1, <4>2, Zenon
    <3>4. \A q \in 1 .. Len(todo') :
            q < p /\ todo'[q].op = "program" => Sector4 <= todo'[q].from
      <4>1. SUFFICES ASSUME NEW q \in 1 .. Len(todo'), q < p, todo'[q].op = "program"
                     PROVE  Sector4 <= todo'[q].from
        OBVIOUS
      <4>2. q # e + 1
        BY <1>4, <2>3, <4>1
      <4>3. todo'[q].from = w
        BY <1>6, <4>1, <4>2, Zenon
      <4>4. QED
        BY <1>4, <4>3
    <3>5. QED
      BY <3>1, <3>2, <3>3, <3>4
  <2>4. QED
    BY <1>6, <2>1, <2>2, <2>3
<1>18. HeadsHonest'
  <2>1. SUFFICES ASSUME NEW j \in Slots, Adoptable(j)'
                 PROVE  Honest(heads[j].config)' /\ \A p \in 1 .. Len(todo') : Keeps(heads[j].config, p)'
    BY DEF HeadsHonest
  <2>2. PICK d : d = heads[j].config
    OBVIOUS
  <2>3. d \in Configs /\ Adoptable(j)
    BY <1>2, <2>1, <2>2, Zenon DEF Adoptable, Live
  <2>4. Honest(d) /\ (Same(d, config) \/ d.erase = Sector4)
    BY <1>10, <2>2, <2>3, Zenon
  <2>5. Honest(d)'
    BY <1>2, <2>4, Zenon DEF Honest, Claims, InTail
  <2>6. ASSUME NEW p \in 1 .. Len(todo')
        PROVE  Keeps(d, p)'
    <3>1. d.write \in Nat /\ d.erase \in Nat
      BY <2>3, ConfigNumbers
    <3>2. d.erase = Sector4 \/ d.write = w
      BY <1>3, <2>4 DEF Same
    <3>3. ASSUME todo'[p].op = "program"
          PROVE  d.erase <= todo'[p].from \/ todo'[p].from <= d.write
      <4>1. todo'[p].from = w \/ todo'[p].from = 0
        BY <1>6, <3>3, Zenon
      <4>2. (d.erase <= w \/ w <= d.write) /\ 0 <= d.write
        BY <1>4, <3>1, <3>2, Sizes
      <4>3. QED
        BY <4>1, <4>2
    <3>4. d.erase = Sector4 \/ d.write >= Sector4
      BY <1>4, <3>2
    <3>5. QED
      BY <3>3, <3>4 DEF Keeps, Harmless5
  <2>7. QED
    BY <1>2, <2>2, <2>5, <2>6, Zenon DEF Honest, Keeps, Claims, InTail, Harmless5, Erases4, Any
<1>19. HeadsFollow'
  <2>1. SUFFICES ASSUME ~Pending("erase_heads")', NEW j \in Slots, Adoptable(j)', Stays(j)'
                 PROVE  Behind(heads[j].config)'
    BY DEF HeadsFollow
  <2>2. PICK d : d = heads[j].config
    OBVIOUS
  <2>3. d \in Configs /\ Adoptable(j) /\ d.write \in Nat
    BY <1>2, <2>1, <2>2, ConfigNumbers, Zenon DEF Adoptable, Live
  <2>4. /\ i < HeadSlots /\ head_index' = i + 1 /\ (i > 0 => Pending("invalidate")')
    <3>1. i # HeadSlots
      BY <1>1, <1>11, <2>1, PlanOps
    <3>2. i < HeadSlots
      BY <1>11, <3>1, Sizes
    <3>3. QED
      BY <1>1, <1>11, <3>2, PlanOps
  <2>5. j # head_index - 1
    <3>1. i > 0 => j # i - 1
      <4>1. (i + 1) - 2 = i - 1
        BY <1>11
      <4>2. QED
        BY <2>1, <2>4, <4>1 DEF Stays
    <3>2. i = 0 => j # i - 1
      BY DEF Slots
    <3>3. QED
      BY <1>11, <3>1, <3>2
  <2>6. d.erase = Sector4
    BY <1>10, <2>2, <2>3, <2>5, Zenon
  <2>7. Behind(d)'
    <3>1. CASE c.write <= d.write
      BY <1>1, <2>6, <3>1 DEF Behind
    <3>2. CASE ~(c.write <= d.write)
      <4>1. ok /\ d.write < Sector4 /\ d.write \in 0 .. 0 + (len - first) - 1
        BY <1>4, <1>5, <2>3, <3>2, Sizes
      <4>2. PICK p \in 1 .. Len(todo') :
              todo'[p].op = "program" /\ todo'[p].from = 0 /\ todo'[p].n = len - first
        BY <1>6, <4>1
      <4>3. Text(p)' = 0 .. 0 + (len - first) - 1
        BY <4>2 DEF Text
      <4>4. QED
        BY <2>6, <4>1, <4>2, <4>3 DEF Behind
    <3>3. QED
      BY <3>1, <3>2
  <2>8. QED
    BY <1>2, <2>2, <2>7, Zenon DEF Behind, Erases4, Any, Text
<1>20. QED
  BY <1>12, <1>13, <1>14, <1>16, <1>17, <1>18, <1>19 DEF TailParts

(***************************************************************************)
(* Clearing the log, by a call or by a restart.                            *)
(***************************************************************************)
Clears ==
  /\ {1, 2, 3} \subseteq 1 .. Len(todo)
  /\ todo[1].op = "erase_heads"
  /\ todo[2].op = "erase" /\ todo[2].addr = 0
  /\ todo[3].op = "erase" /\ todo[3].addr = Sector4
  /\ \A p \in 1 .. Len(todo) :
       /\ todo[p].op # "program"
       /\ todo[p].op = "erase" => 1 < p

LEMMA ClearOps ==
  /\ Len(_log_clear) = 3 /\ 1 .. Len(_log_clear) = {1, 2, 3}
  /\ _log_clear[1].op = "erase_heads"
  /\ _log_clear[2].op = "erase" /\ _log_clear[2].addr = 0
  /\ _log_clear[3].op = "erase" /\ _log_clear[3].addr = Sector4
<1>1. /\ Len(_log_clear) = 3
      /\ _log_clear[1] = EraseHeads /\ _log_clear[2] = Erase(0) /\ _log_clear[3] = Erase(Sector4)
  BY DEF _log_clear
<1>2. EraseHeads.op = "erase_heads"
  BY ErasureOps
<1>3. /\ Erase(0).op = "erase" /\ Erase(0).addr = 0
      /\ Erase(Sector4).op = "erase" /\ Erase(Sector4).addr = Sector4
  BY OperationFields
<1>4. 1 .. Len(_log_clear) = {1, 2, 3}
  BY <1>1
<1>5. QED
  BY <1>1, <1>2, <1>3, <1>4, Zenon

(* Any harmless sequence that begins as _log_clear does, then a new head. *)
LEMMA ClearsWith ==
  ASSUME NEW i \in 0 .. HeadSlots, NEW c \in GoodConfigs,
         NEW pre \in Seq(Operations), Harmless(pre),
         todo' = pre \o _flush_head_index(i, c), head_index' = Flushed(i), config' = c,
         1 .. Len(pre) = {1, 2, 3}, Len(pre) = 3,
         pre[1].op = "erase_heads",
         pre[2].op = "erase", pre[2].addr = 0,
         pre[3].op = "erase", pre[3].addr = Sector4
  PROVE  Clears'
<1>4. /\ \A p \in 1 .. Len(todo') :
           \/ p \in 1 .. Len(pre) /\ todo'[p] = pre[p]
           \/ p > Len(pre) /\ todo'[p].op \in {"invalidate", "fields", "magic", "erase_heads"}
      /\ \A p \in 1 .. Len(pre) : p \in 1 .. Len(todo') /\ todo'[p] = pre[p]
  <2>1. /\ \A p \in 1 .. Len(todo') :
             \/ p \in 1 .. Len(pre) /\ todo'[p] = pre[p]
             \/ /\ p > Len(pre)
                /\ todo'[p].op \in {"invalidate", "fields", "magic", "erase_heads"}
                /\ i < HeadSlots => todo'[p].op # "erase_heads"
        /\ \A p \in 1 .. Len(pre) : p \in 1 .. Len(todo') /\ todo'[p] = pre[p]
    BY PlanOps
  <2>2. QED
    BY <2>1, Zenon
<1>5. /\ {1, 2, 3} \subseteq 1 .. Len(todo')
      /\ todo'[1] = pre[1] /\ todo'[2] = pre[2] /\ todo'[3] = pre[3]
  <2>1. 1 \in 1 .. Len(pre) /\ 2 \in 1 .. Len(pre) /\ 3 \in 1 .. Len(pre)
    <3>1. 1 \in {1, 2, 3} /\ 2 \in {1, 2, 3} /\ 3 \in {1, 2, 3}
      OBVIOUS
    <3>2. QED
      BY <3>1, Zenon
  <2>2. \A p \in {1, 2, 3} : p \in 1 .. Len(pre)
    BY Zenon
  <2>3. {1, 2, 3} \subseteq 1 .. Len(todo')
    BY <1>4, <2>2, Zenon
  <2>4. QED
    BY <1>4, <2>1, <2>3, Zenon
<1>6. ASSUME NEW p \in 1 .. Len(todo')
      PROVE  todo'[p].op # "program" /\ (todo'[p].op = "erase" => 1 < p)
  <2>1. CASE p \in {1, 2, 3}
    BY <1>5, <2>1
  <2>2. CASE p > Len(pre) /\ todo'[p].op \in {"invalidate", "fields", "magic", "erase_heads"}
    BY <2>2
  <2>3. QED
    BY <1>4, <2>1, <2>2
<1>7. QED
  BY <1>5, <1>6, Zenon DEF Clears

LEMMA ClearPlanned ==
  ASSUME NEW i \in 0 .. HeadSlots, NEW c \in GoodConfigs,
         todo' = _log_clear \o _flush_head_index(i, c), head_index' = Flushed(i), config' = c
  PROVE  Clears'
<1>1. PICK pre : pre = _log_clear
  OBVIOUS
<1>2. /\ pre \in Seq(Operations) /\ Harmless(pre)
      /\ todo' = pre \o _flush_head_index(i, c)
  BY <1>1, ClearPlan
<1>3. /\ 1 .. Len(pre) = {1, 2, 3} /\ Len(pre) = 3
      /\ pre[1].op = "erase_heads"
      /\ pre[2].op = "erase" /\ pre[2].addr = 0
      /\ pre[3].op = "erase" /\ pre[3].addr = Sector4
  BY <1>1, ClearOps, Zenon
<1>4. QED
  BY <1>2, <1>3, ClearsWith, Zenon

LEMMA ClearsTail ==
  ASSUME FlashInv, AllTight, ~forked => TailParts, Clears', Tight(config)',
         heads' = heads, programmed' = programmed, twice' = twice, forked' = forked
  PROVE  AllTight' /\ (~forked' => TailParts')
<1>1. AllTight'
  BY Zenon DEF AllTight, Tight
<1>2. SUFFICES ASSUME TailParts
               PROVE  TailParts'
  BY <1>1
<1>3. Pending("erase_heads")'
  BY DEF Clears, Pending
<1>4. HeadPart'
  <2>1. InvalidBelow'
    BY <1>2, Zenon DEF TailParts, HeadPart, InvalidBelow, Live
  <2>2. QED
    BY <1>3, <2>1, Zenon DEF HeadPart
<1>5. TwiceInTail' /\ HeadsFollow' /\ FieldsMatch'
  BY <1>2, <1>3, Zenon DEF TailParts, TwiceInTail, InTail, HeadsFollow, FieldsMatch
<1>6. TextsPlanned'
  BY Zenon DEF Clears, TextsPlanned
<1>7. Erases4(Any)' /\ Erases5(Any)'
  <2>1. 2 < Len(todo') + 1 /\ 3 < Len(todo') + 1 /\ 0 < Sector4 /\ Sector4 >= Sector4
    BY Sizes DEF Clears
  <2>2. QED
    BY <2>1 DEF Clears, Erases4, Erases5, Any
<1>8. ClaimClean'
  <2>1. \A a \in programmed : a < Sector4 \/ a >= Sector4
    BY Sizes DEF FlashInv, Types
  <2>2. QED
    BY <1>7, <2>1, Zenon DEF ClaimClean, CleanBefore
<1>9. ASSUME NEW c, NEW p \in 1 .. Len(todo')
      PROVE  Keeps(c, p)'
  BY DEF Clears, Keeps
<1>10. HeadsHonest'
  <2>1. ASSUME NEW i \in Slots, Adoptable(i)'
        PROVE  Honest(heads[i].config)'
    <3>1. Honest(heads[i].config)
      BY <1>2, <2>1, Zenon DEF TailParts, HeadsHonest, Adoptable, Live
    <3>2. QED
      BY <3>1, Zenon DEF Honest, Claims, InTail
  <2>2. \A i \in Slots, p \in 1 .. Len(todo') : Keeps(heads[i].config, p)'
    <3>1. SUFFICES ASSUME NEW i \in Slots, NEW p \in 1 .. Len(todo')
                   PROVE  Keeps(heads[i].config, p)'
      OBVIOUS
    <3>2. PICK d : d = heads'[i].config
      OBVIOUS
    <3>3. Keeps(d, p)'
      BY <1>9
    <3>4. QED
      BY <3>2, <3>3, Zenon DEF Keeps, Harmless5, Erases4, Any
  <2>3. QED
    BY <2>1, <2>2, Zenon DEF HeadsHonest
<1>11. QED
  BY <1>4, <1>5, <1>6, <1>8, <1>10 DEF TailParts

LEMMA ClearTail ==
  ASSUME FlashInv, AllTight, ~forked => TailParts, Clear
  PROVE  AllTight' /\ (~forked' => TailParts')
<1>1. /\ todo' = _log_clear /\ heads' = heads /\ programmed' = programmed
      /\ config' = config /\ twice' = twice /\ forked' = forked
  BY DEF Clear, flash, ram, history
<1>2. Clears'
  <2>1. /\ 1 .. Len(todo') = {1, 2, 3}
        /\ todo'[1].op = "erase_heads"
        /\ todo'[2].op = "erase" /\ todo'[2].addr = 0
        /\ todo'[3].op = "erase" /\ todo'[3].addr = Sector4
    BY <1>1, ClearOps, Zenon
  <2>2. QED
    BY <2>1 DEF Clears
<1>3. Tight(config)'
  BY <1>1, Zenon DEF AllTight, Tight
<1>4. QED
  BY <1>1, <1>2, <1>3, ClearsTail

(***************************************************************************)
(* Reading, and steps that change less.                                    *)
(***************************************************************************)
LEMMA CursorTail ==
  ASSUME AllTight, ~forked => TailParts, SameBut(config', config),
         heads' = heads, programmed' = programmed, twice' = twice, forked' = forked,
         head_index' = head_index, todo' = todo, up' = up
  PROVE  AllTight' /\ (~forked' => TailParts')
<1>1. config'.write = config.write /\ config'.erase = config.erase
  BY DEF SameBut
<1>2. AllTight'
  BY <1>1, Zenon DEF AllTight, Tight
<1>3. SUFFICES ASSUME TailParts
               PROVE  TailParts'
  BY <1>2
<1>4. TwiceInTail'
  BY <1>3, Zenon DEF TailParts, TwiceInTail, InTail
<1>5. HeadPart'
  BY <1>3, Zenon DEF TailParts, HeadPart, InvalidBelow, NextHead, NewestHead, Live, Pending
<1>6. ClaimClean'
  BY <1>1, <1>3, Zenon
     DEF TailParts, ClaimClean, Claims, CleanBefore, InTail, Erases4, Erases5, Any
<1>7. TextsPlanned'
  <2>1. \A a, p : /\ Claims(config, a)' <=> Claims(config, a)
                  /\ CleanBefore(a, p)' <=> CleanBefore(a, p)
    BY <1>1, Zenon DEF Claims, CleanBefore, InTail, Erases4, Erases5
  <2>2. QED
    BY <1>3, <2>1, Zenon DEF TailParts, TextsPlanned, Text
<1>8. HeadsHonest'
  <2>1. \A j : Adoptable(j)' <=> Adoptable(j)
    BY Zenon DEF Adoptable, Live
  <2>2. \A c : Honest(c)' <=> Honest(c)
    BY Zenon DEF Honest, Claims, InTail
  <2>3. \A c, p : Keeps(c, p)' <=> Keeps(c, p)
    <3>1. \A c, x : Harmless5(c, x)' <=> Harmless5(c, x)
      BY Zenon DEF Harmless5, Erases4, Any
    <3>2. QED
      BY <3>1, Zenon DEF Keeps
  <2>4. HeadsHonest
    BY <1>3, Zenon DEF TailParts
  <2>5. QED
    BY <2>1, <2>2, <2>3, <2>4, Zenon DEF HeadsHonest
<1>9. HeadsFollow'
  <2>1. \A c : /\ Behind(c)' <=> Behind(c)
               /\ Same(c, config') <=> Same(c, config)
    BY <1>1, Zenon DEF Behind, Same, Erases4, Any, Text
  <2>2. QED
    BY <1>3, <2>1, Zenon DEF TailParts, HeadsFollow, Adoptable, Live, Stays, Pending
<1>10. FieldsMatch'
  <2>1. \A c : SameBut(c, config) => SameBut(c, config')
    BY DEF SameBut
  <2>2. QED
    BY <1>3, <2>1, Zenon DEF TailParts, FieldsMatch, Pending
<1>11. QED
  BY <1>4, <1>5, <1>6, <1>7, <1>8, <1>9, <1>10 DEF TailParts

LEMMA ReadTail ==
  ASSUME FlashInv, AllTight, ~forked => TailParts, NEW len \in 1 .. MaxLen, NEW ok,
         _log_read(len, ok) \/ _log_read_next(len, ok)
  PROVE  AllTight' /\ (~forked' => TailParts')
<1>1. /\ SameBut(config', config)
      /\ UNCHANGED <<flash, head_index, todo, up, history>>
  BY ReadFacts
<1>2. /\ heads' = heads /\ programmed' = programmed /\ twice' = twice /\ forked' = forked
      /\ head_index' = head_index /\ todo' = todo /\ up' = up
  BY <1>1 DEF flash, history
<1>3. QED
  BY <1>1, <1>2, CursorTail

LEMMA NothingTail ==
  ASSUME FlashInv, AllTight, ~forked => TailParts, UNCHANGED vars
  PROVE  AllTight' /\ (~forked' => TailParts')
<1>1. /\ heads' = heads /\ programmed' = programmed /\ twice' = twice /\ forked' = forked
      /\ head_index' = head_index /\ todo' = todo /\ up' = up /\ config' = config
  BY DEF vars, flash, ram, history
<1>2. SameBut(config', config)
  BY <1>1, SameButReflexive DEF FlashInv, Types, GoodConfigs
<1>3. QED
  BY <1>1, <1>2, CursorTail

(***************************************************************************)
(* Restart.                                                                *)
(***************************************************************************)
(* Where the check of the next write finds nothing, the claims of the head *)
(* are clean.                                                              *)
LEMMA CheckedClaims ==
  ASSUME NEW c \in Configs, Honest(c), NextWriteErased(c), programmed \subseteq 0 .. LogEnd
  PROVE  \A a \in programmed : Claims(c, a) => InTail(a)
<1>1. SUFFICES ASSUME NEW a \in programmed, c.write <= a
               PROVE  InTail(a) \/ c.write \notin programmed
  BY DEF Honest, Claims
<1>2. a \in Nat /\ a <= LogEnd /\ c.write \in Nat /\ LogEnd \in Nat /\ Guard \in Nat \ {0}
  BY ConfigNumbers, Sizes, FlashAssumption
<1>3. CASE c.write < LogEnd /\ c.write + Guard <= LogEnd
  <2>1. c.write \in c.write .. c.write + Guard - 1
    BY <1>2
  <2>2. (c.write .. c.write + Guard - 1) \cap programmed = {}
    BY <1>3 DEF NextWriteErased
  <2>3. QED
    BY <2>1, <2>2
<1>4. CASE ~(c.write < LogEnd /\ c.write + Guard <= LogEnd)
  BY <1>1, <1>2, <1>4 DEF InTail
<1>5. QED
  BY <1>3, <1>4

LEMMA ContinueTail ==
  ASSUME FlashInv, AllTight, ~forked => TailParts,
         heads[0].magic, FoundHead < HeadSlots, heads[FoundHead].config \in Configs,
         NextWriteErased(heads[FoundHead].config),
         config' = heads[FoundHead].config, head_index' = FoundHead + 1, todo' = << >>,
         heads' = heads, programmed' = programmed, twice' = twice, forked' = forked
  PROVE  AllTight' /\ (~forked' => TailParts')
<1>1. PICK k, c : k = FoundHead /\ c = heads[FoundHead].config
  OBVIOUS
<1>2. /\ k \in Slots /\ Live(k) /\ c \in Configs /\ c = heads[k].config /\ Adoptable(k)
      /\ \A i \in Slots : i < k => ~Live(i)
  <2>1. k \in Slots /\ ~Dead(k) /\ \A i \in Slots : i < k => Dead(i)
    BY <1>1, FoundFirst DEF FlashInv
  <2>2. QED
    BY <1>1, <2>1, Zenon DEF Dead, Live, Adoptable
<1>3. config' = c /\ head_index' = k + 1 /\ k \in Nat /\ Len(todo') = 0 /\ 1 .. Len(todo') = {}
  BY <1>1, <1>2 DEF Slots
<1>4. AllTight'
  <2>1. Tight(c)
    BY <1>2, Zenon DEF AllTight
  <2>2. QED
    BY <1>3, <2>1, Zenon DEF AllTight, Tight
<1>5. SUFFICES ASSUME TailParts
               PROVE  TailParts'
  BY <1>4
<1>6. \A op : ~Pending(op)'
  BY <1>3 DEF Pending
<1>7. InvalidBelow /\ \A i \in Slots : i < k => ~heads[i].valid
  BY <1>2, <1>5, Zenon DEF TailParts, HeadPart, InvalidBelow
<1>8. HeadPart'
  <2>1. k + 1 >= 1 /\ (k + 1) - 1 = k
    BY <1>3
  <2>2. NewestHead'
    BY <1>3, <1>7, <2>1, Zenon DEF NewestHead
  <2>3. InvalidBelow'
    BY <1>7, Zenon DEF InvalidBelow, Live
  <2>4. QED
    BY <1>6, <2>2, <2>3, Zenon DEF HeadPart
<1>9. ASSUME NEW i \in Slots, Live(i)
      PROVE  i = k
  <2>1. ~(i < k)
    BY <1>2, <1>9
  <2>2. ~(k < i)
    <3>1. 0 \in Slots
      BY Sizes
    <3>2. k < i => ~heads[k].valid
      BY <1>2, <1>7, <1>9, Zenon DEF InvalidBelow
    <3>3. QED
      BY <1>2, <3>2, Zenon DEF Live
  <2>3. QED
    BY <1>2, <2>1, <2>2 DEF Slots
<1>10. Honest(c)
  BY <1>2, <1>5, Zenon DEF TailParts, HeadsHonest
<1>11. TwiceInTail' /\ FieldsMatch'
  BY <1>5, <1>6, Zenon DEF TailParts, TwiceInTail, InTail, FieldsMatch
<1>12. ClaimClean'
  <2>1. \A a \in programmed : Claims(c, a) => InTail(a)
    BY <1>1, <1>2, <1>10, CheckedClaims DEF FlashInv, Types
  <2>2. QED
    BY <1>3, <2>1, Zenon DEF ClaimClean, CleanBefore, Claims, InTail
<1>13. TextsPlanned' /\ \A p \in 1 .. Len(todo') : FALSE
  BY <1>3 DEF TextsPlanned
<1>14. HeadsHonest'
  <2>1. ASSUME NEW i \in Slots, Adoptable(i)'
        PROVE  Honest(heads[i].config)'
    <3>1. Honest(heads[i].config)
      BY <1>5, <2>1, Zenon DEF TailParts, HeadsHonest, Adoptable, Live
    <3>2. QED
      BY <3>1, Zenon DEF Honest, Claims, InTail
  <2>2. QED
    BY <1>13, <2>1, Zenon DEF HeadsHonest
<1>15. HeadsFollow'
  <2>1. SUFFICES ASSUME NEW i \in Slots, Adoptable(i)'
                 PROVE  i = head_index' - 1 /\ Same(heads[i].config, config)'
    BY DEF HeadsFollow
  <2>2. i = k
    BY <1>9, <2>1, Zenon DEF Adoptable, Live
  <2>3. (k + 1) - 1 = k
    BY <1>3
  <2>4. QED
    BY <1>2, <1>3, <2>2, <2>3, Zenon DEF Same
<1>16. QED
  BY <1>8, <1>11, <1>12, <1>13, <1>14, <1>15 DEF TailParts

LEMMA RestartTail ==
  ASSUME FlashInv, AllTight, ~forked => TailParts, Restart, ~garbled'
  PROVE  AllTight' /\ (~forked' => TailParts')
<1>1. /\ heads' = heads /\ programmed' = programmed /\ twice' = twice /\ forked' = forked
  BY DEF Restart, flash, history
<1>2. Tight(Default)
  BY Sizes DEF Tight, Default
<1>3. ASSUME NEW i \in 0 .. HeadSlots, NEW c \in GoodConfigs, Tight(c),
             todo' = _log_clear \o _flush_head_index(i, c), head_index' = Flushed(i), config' = c
      PROVE  AllTight' /\ (~forked' => TailParts')
  <2>1. Clears'
    BY <1>3, ClearPlanned
  <2>2. Tight(config)'
    BY <1>3, Zenon DEF Tight
  <2>3. QED
    BY <1>1, <2>1, <2>2, ClearsTail
<1>4. CASE /\ config' = Default
           /\ head_index' = Flushed(0)
           /\ todo' = _log_clear \o _flush_head_index(0, Default)
  <2>1. 0 \in 0 .. HeadSlots
    BY Sizes
  <2>2. QED
    BY <1>2, <1>3, <1>4, <2>1, DefaultGood
<1>5. CASE /\ config' = Default
           /\ head_index' = Flushed(HeadSlots)
           /\ todo' = _log_clear \o _flush_head_index(HeadSlots, Default)
  <2>1. HeadSlots \in 0 .. HeadSlots
    BY Sizes
  <2>2. QED
    BY <1>2, <1>3, <1>5, <2>1, DefaultGood
<1>6. CASE RestartAdopts
  <2>1. PICK k, c : k = FoundHead /\ c = heads[FoundHead].config
    OBVIOUS
  <2>2. /\ heads[0].magic /\ k < HeadSlots /\ config' = c /\ c \in Configs
        /\ \/ /\ NextWriteErased(config')
              /\ head_index' = k + 1 /\ todo' = << >>
           \/ /\ head_index' = Flushed(k + 1)
              /\ todo' = _log_clear \o _flush_head_index(k + 1, config')
    BY <1>6, <2>1, Zenon DEF RestartAdopts
  <2>3. CASE NextWriteErased(config') /\ head_index' = k + 1 /\ todo' = << >>
    <3>1. NextWriteErased(heads[FoundHead].config)
      BY <2>1, <2>2, <2>3
    <3>2. QED
      BY <1>1, <2>1, <2>2, <2>3, <3>1, ContinueTail
  <2>4. CASE /\ head_index' = Flushed(k + 1)
             /\ todo' = _log_clear \o _flush_head_index(k + 1, config')
    <3>1. k \in Slots /\ k + 1 \in 0 .. HeadSlots /\ c \in GoodConfigs
      BY <2>1, <2>2, AdoptedGood, MarksApart
    <3>2. Tight(c)
      BY <2>1, <2>2, <3>1, Zenon DEF AllTight
    <3>3. todo' = _log_clear \o _flush_head_index(k + 1, c)
      BY <2>2, <2>4
    <3>4. QED
      BY <1>3, <2>2, <2>4, <3>1, <3>2, <3>3
  <2>5. QED
    BY <2>2, <2>3, <2>4
<1>7. QED
  BY <1>4, <1>5, <1>6, RestartCases

(***************************************************************************)
(* The invariant of the text.                                              *)
(***************************************************************************)
LEMMA InitTailInv == Init => TailInv
<1> SUFFICES ASSUME Init PROVE TailInv
  OBVIOUS
<1>1. FlashInv
  BY InitFlashInv
<1>2. /\ programmed = {} /\ heads = [i \in Slots |-> Blank] /\ config = Default
      /\ up = FALSE /\ twice = {} /\ Len(todo) = 0 /\ 1 .. Len(todo) = {}
  BY DEF Init, Slots
<1>3. \A i \in Slots : ~heads[i].magic /\ heads[i].config \notin Configs
  BY <1>2, MarksApart DEF Blank, Marks
<1>4. AllTight
  <2>1. Tight(Default)
    BY Sizes DEF Tight, Default
  <2>2. QED
    BY <1>2, <1>3, <2>1, Zenon DEF AllTight
<1>5. HeadPart
  BY <1>2, <1>3, Sizes, Zenon DEF HeadPart, InvalidBelow
<1>6. TextsPlanned
  BY <1>2 DEF TextsPlanned
<1>7. TwiceInTail /\ ClaimClean /\ HeadsHonest /\ HeadsFollow /\ FieldsMatch
  BY <1>2, <1>3, Zenon
     DEF TwiceInTail, ClaimClean, HeadsHonest, HeadsFollow, FieldsMatch, Adoptable, Live
<1>8. QED
  BY <1>1, <1>4, <1>5, <1>6, <1>7 DEF TailInv, TailParts

LEMMA NextTailInv == TailInv /\ ~garbled' /\ ~overlong' /\ [Next]_vars => TailInv'
<1> SUFFICES ASSUME TailInv, ~garbled', ~overlong', [Next]_vars PROVE TailInv'
  OBVIOUS
<1>1. FlashInv /\ FlashInv' /\ AllTight /\ (~forked => TailParts)
  BY NextFlashInv DEF TailInv
<1>2. SUFFICES AllTight' /\ (~forked' => TailParts')
  BY <1>1, Zenon DEF TailInv
<1>3. CASE FlashStep
  <2>1. AllTight'
    BY <1>1, <1>3, StepTight
  <2>2. forked' = forked
    BY <1>3 DEF FlashStep
  <2>3. TailParts => TailParts'
    BY <1>1, <1>3, FlashStepTail
  <2>4. QED
    BY <1>1, <2>1, <2>2, <2>3
<1>4. CASE PowerFails
  BY <1>1, <1>4, PowerFailsTail
<1>5. CASE Restart
  BY <1>1, <1>5, RestartTail
<1>6. CASE UNCHANGED vars
  BY <1>1, <1>6, NothingTail
<1>7. ASSUME NEW len \in 1 .. MaxLen, NEW ok \in BOOLEAN, WriteOn(len, ok)
      PROVE  AllTight' /\ (~forked' => TailParts')
  BY <1>1, <1>7, WriteOnTail
<1>8. ASSUME NEW len \in 1 .. MaxLen, NEW ok \in BOOLEAN, NEW filled \in BOOLEAN,
             WriteAround(len, filled, ok)
      PROVE  AllTight' /\ (~forked' => TailParts')
  BY <1>1, <1>8, WriteAroundTail
<1>9. ASSUME NEW len \in 1 .. MaxLen, NEW ok \in BOOLEAN,
             _log_read(len, ok) \/ _log_read_next(len, ok)
      PROVE  AllTight' /\ (~forked' => TailParts')
  BY <1>1, <1>9, ReadTail
<1>10. CASE Clear
  BY <1>1, <1>10, ClearTail
<1>11. ~WriteAstray
  BY <1>1 DEF WriteAstray, FlashInv, Types, GoodConfigs
<1>12. QED
  BY <1>3, <1>4, <1>5, <1>6, <1>7, <1>8, <1>9, <1>10, <1>11, Zenon DEF Next

LEMMA OverlongKept == overlong /\ [Next]_vars => overlong'
<1> SUFFICES ASSUME overlong, [Next]_vars
             PROVE  overlong'
  OBVIOUS
<1>1. CASE FlashStep \/ PowerFails \/ Restart \/ UNCHANGED vars
  BY <1>1, Zenon DEF FlashStep, PowerFails, Restart, vars
<1>2. ASSUME NEW len \in 1 .. MaxLen, NEW ok \in BOOLEAN, NEW filled \in BOOLEAN,
             WriteOn(len, ok) \/ WriteAround(len, filled, ok)
      PROVE  overlong'
  <2>1. CASE WriteOn(len, ok)
    BY <2>1, Zenon DEF WriteOn
  <2>2. CASE WriteAround(len, filled, ok)
    BY <2>2, Zenon DEF WriteAround
  <2>3. QED
    BY <1>2, <2>1, <2>2
<1>3. ASSUME NEW len \in 1 .. MaxLen, NEW ok \in BOOLEAN,
             _log_read(len, ok) \/ _log_read_next(len, ok)
      PROVE  overlong'
  BY <1>3, Zenon DEF _log_read, _log_read_next
<1>4. CASE WriteAstray \/ Clear
  BY <1>4, Zenon DEF WriteAstray, Clear
<1>5. QED
  BY <1>1, <1>2, <1>3, <1>4, Zenon DEF Next

(* Wherever power fails in _log_write, _flush_head_index, _log_clear or    *)
(* the check of a restart: what the configuration in RAM and every head a  *)
(* restart may adopt still claim is erased, or going to be, or the check   *)
(* of the place of the next write fails.  This holds until a restart       *)
(* adopts a mixture, or a text runs beyond what was erased for it.         *)
THEOREM TailInvariant == Spec => [](garbled \/ overlong \/ TailInv)
  BY InitTailInv, NextTailInv, GarbledKept, OverlongKept, PTL DEF Spec

(* _log_write never programs a byte of the section a second time without   *)
(* an erasure in between, but for the last bytes, at which                 *)
(* __confirm_head_and_data_section_valid does not look, whatever power     *)
(* failures, failed writes, clearings and restarts came before and however *)
(* long the texts, as long as none of the three things has happened that   *)
(* OnlyTail excepts, which the code does not see to.                       *)
THEOREM OnlyTailHolds == Spec => []OnlyTail
<1>1. garbled \/ overlong \/ TailInv => OnlyTail
  BY DEF TailInv, TailParts, TwiceInTail, InTail, OnlyTail
<1>2. QED
  BY <1>1, TailInvariant, PTL
==============================================================================
