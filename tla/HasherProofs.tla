---------------------------- MODULE HasherProofs ----------------------------
(***************************************************************************)
(* Proofs about Hasher, for every block size, alphabet, wrap-around of the *)
(* length and set of flagged blocks: IInv is inductive, and with it the    *)
(* hashers hold exactly the message they were fed and finalize to its      *)
(* digest: the refinement of HashSpec.  At the end, that no message has    *)
(* the digest of another.                                                  *)
(***************************************************************************)
EXTENDS Hasher, TLAPS, WellFoundedInduction, SequenceTheorems

-----------------------------------------------------------------------------
(* Facts about division: a counter that wraps at a multiple of the block   *)
(* size still says how far into a block the message is.                    *)

(* Quotient and remainder are determined by their sum.                     *)
LEMMA DivModUnique ==
  ASSUME NEW b \in Nat \ {0}, NEW q \in Int, NEW r \in 0 .. b - 1
  PROVE  /\ (q * b + r) % b = r
         /\ (q * b + r) \div b = q
  BY SMT

LEMMA DivMod ==
  ASSUME NEW b \in Nat \ {0}, NEW x \in Nat
  PROVE  /\ x \div b \in Nat
         /\ x % b \in 0 .. b - 1
         /\ x = (x \div b) * b + (x % b)
  BY SMT

LEMMA TimesMonotone ==
  ASSUME NEW b \in Nat, NEW p \in Nat, NEW q \in Nat, p <= q
  PROVE  p * b <= q * b
  BY SMT

LEMMA TimesSuccessor ==
  ASSUME NEW b \in Nat, NEW p \in Int
  PROVE  /\ (p + 1) * b = p * b + b
         /\ p * b \in Int
         /\ p \in Nat => p * b \in Nat
  BY SMT

(* Reducing by a multiple of b first does not change what is left by b.    *)
LEMMA ModOfMod ==
  ASSUME NEW b \in Nat \ {0}, NEW m \in Nat \ {0}, m % b = 0, NEW x \in Nat
  PROVE  (x % m) % b = x % b
<1> DEFINE c == m \div b
           q == x \div m
           y == x % m
<1>1. c \in Nat /\ m = c * b
  BY DivMod
<1>2. q \in Nat /\ y \in 0 .. m - 1 /\ x = q * m + y
  BY DivMod
<1> HIDE DEF c, q, y
<1>3. y \in Nat
  BY <1>2
<1> DEFINE p == y \div b
           r == y % b
<1>4. p \in Nat /\ r \in 0 .. b - 1 /\ y = p * b + r
  BY <1>3, DivMod
<1> HIDE DEF p, r
<1>5. q * m = (q * c) * b
  BY <1>1, <1>2, SMT
<1>6. x = (q * c + p) * b + r
  <2>1. q * c \in Nat /\ (q * c) * b \in Int /\ p * b \in Int
    BY <1>1, <1>2, <1>4
  <2>2. (q * c + p) * b = (q * c) * b + p * b
    BY <2>1, <1>4, SMT
  <2>3. x = (q * c) * b + (p * b + r)
    BY <1>2, <1>4, <1>5
  <2> QED BY <2>1, <2>2, <2>3, <1>4, SMT
<1>7. q * c + p \in Int
  BY <1>1, <1>2, <1>4
<1>8. x % b = r
  BY <1>4, <1>6, <1>7, DivModUnique
<1> QED BY <1>8 DEF r, y

(* Reducing before a multiplication does not change what is left after it. *)
LEMMA ModTimes ==
  ASSUME NEW m \in Nat \ {0}, NEW k \in Nat, NEW x \in Nat
  PROVE  ((x % m) * k) % m = (x * k) % m
<1> DEFINE q == x \div m
           y == x % m
<1>1. q \in Nat /\ y \in Nat /\ x = q * m + y
  BY DivMod
<1> HIDE DEF q, y
<1>2. y * k \in Nat
  BY <1>1
<1> DEFINE p == (y * k) \div m
           r == (y * k) % m
<1>3. p \in Nat /\ r \in 0 .. m - 1 /\ y * k = p * m + r
  BY <1>2, DivMod
<1> HIDE DEF p, r
<1>4. x * k = (q * k + p) * m + r
  <2>1. x * k = (q * m) * k + y * k
    BY <1>1, SMT
  <2>2. (q * m) * k = (q * k) * m
    BY <1>1, SMT
  <2>3. q * k \in Nat /\ (q * k) * m \in Int /\ p * m \in Int
    BY <1>1, <1>3
  <2>4. (q * k + p) * m = (q * k) * m + p * m
    BY <2>3, <1>3, SMT
  <2>5. x * k = (q * k) * m + (p * m + r)
    BY <2>1, <2>2, <1>3
  <2> QED BY <2>3, <2>4, <2>5, <1>3, SMT
<1>5. q * k + p \in Int
  BY <1>1, <1>3
<1>6. (x * k) % m = r
  BY <1>3, <1>4, <1>5, DivModUnique
<1> QED BY <1>6 DEF r, y

(* Adding to a wrapped counter is adding to the count and wrapping.        *)
LEMMA ModOfSum ==
  ASSUME NEW m \in Nat \ {0}, NEW x \in Nat, NEW k \in Nat
  PROVE  ((x % m) + k) % m = (x + k) % m
<1> DEFINE q == x \div m
           y == x % m
<1>1. q \in Nat /\ y \in Nat /\ x = q * m + y
  BY DivMod
<1> HIDE DEF q, y
<1>2. y + k \in Nat
  BY <1>1
<1> DEFINE p == (y + k) \div m
           r == (y + k) % m
<1>3. p \in Nat /\ r \in 0 .. m - 1 /\ y + k = p * m + r
  BY <1>2, DivMod
<1> HIDE DEF p, r
<1>4. x + k = (q + p) * m + r
  <2>1. q * m \in Int /\ p * m \in Int
    BY <1>1, <1>3
  <2>2. (q + p) * m = q * m + p * m
    BY <1>1, <1>3, SMT
  <2>3. x + k = q * m + (p * m + r)
    BY <1>1, <1>3, <2>1
  <2> QED BY <2>1, <2>2, <2>3, <1>3, SMT
<1>5. (x + k) % m = r
  <2>1. q + p \in Int
    BY <1>1, <1>3
  <2> QED BY <2>1, <1>3, <1>4, DivModUnique
<1> QED BY <1>5 DEF r, y

(* A set of natural numbers that is not empty has a least element.         *)
LEMMA LeastElement ==
  ASSUME NEW S \in SUBSET Nat, S # {}
  PROVE  \E n \in S : \A k \in S : n <= k
<1>1. \E n \in S : \A k \in S : ~ (<<k, n>> \in OpToRel(<, Nat))
  BY NatLessThanWellFounded, WFMin
<1>2. ASSUME NEW k \in Nat, NEW n \in Nat, k < n
      PROVE  <<k, n>> \in OpToRel(<, Nat)
  <2> DEFINE p == <<k, n>>
  <2>1. p \in Nat \X Nat /\ p[1] = k /\ p[2] = n
    OBVIOUS
  <2> HIDE DEF p
  <2>2. p[1] < p[2]
    BY <2>1, <1>2
  <2>3. p \in OpToRel(<, Nat)
    BY <2>1, <2>2 DEF OpToRel
  <2> QED BY <2>3 DEF p
<1>3. \A n \in Nat : \A k \in Nat : ~ (k < n) => n <= k
  OBVIOUS
<1> QED BY <1>1, <1>2, <1>3


(* What a byte of the padded message is, without the count of its blocks.  *)
LEMMA MessageByte ==
  ASSUME NEW m \in Seq(Byte), NEW k \in Nat, k < Len(m)
  PROVE  PaddedByte(m, k) = m[k + 1]
  BY DEF PaddedByte

LEMMA LengthByteType ==
  ASSUME NEW n \in Nat, NEW j \in 0 .. LengthSize - 1
  PROVE  LengthByte(n, j) \in Byte
<1>1. /\ LengthSize - 1 - j \in 0 .. LengthSize
      /\ Radix \in Nat \ {0}
  BY SizesAssumption
<1> DEFINE w == Radix ^ (LengthSize - 1 - j)
<1>2. w \in Nat \ {0}
  BY <1>1, WeightAssumption
<1> HIDE DEF w
<1>3. n \div w \in Nat
  BY <1>2, DivMod
<1> QED
  BY <1>1, <1>3, DivMod DEF LengthByte, Byte, w

LEMMA MarkerType == Marker \in Byte /\ 0 \in Byte
<1>1. Radix \in Nat \ {0} /\ 2 \in Nat \ {0}
  BY SizesAssumption
<1>2. /\ Radix \div 2 \in Nat
      /\ Radix % 2 \in 0 .. 1
      /\ Radix = (Radix \div 2) * 2 + (Radix % 2)
  BY <1>1, DivMod
<1> QED BY <1>1, <1>2, SizesAssumption DEF Marker, Byte

(* One compression extends a chain that fits the message by the next block *)
(* of the message: the chain and the flag still fit.                       *)
LEMMA CompressInv ==
  ASSUME NEW r \in Inner,
         ChainOf(r.settings, r.fed, r.h, r.found_collision),
         NEW block \in Block,
         \A k \in 0 .. BlockSize - 1 :
           block[k] = PaddedByte(r.fed, Len(r.h) * BlockSize + k)
  PROVE  LET c == Compress(r, block)
         IN  /\ c \in Inner
             /\ Len(c.h) = Len(r.h) + 1
             /\ ChainOf(c.settings, c.fed, c.h, c.found_collision)
             /\ c.settings = r.settings /\ c.fed = r.fed /\ c.len = r.len
             /\ c.data = r.data /\ c.call = r.call /\ c.resets = r.resets
             /\ c.buffer = r.buffer
             /\ r.found_collision => c.found_collision
<1> DEFINE s == r.settings
           m == r.fed
           chain == r.h
           times == IF Attack(s, chain, block) /\ s.safe_hash THEN 3 ELSE 1
           e == [block |-> block, times |-> times]
           new == Append(chain, e)
           found == r.found_collision \/ Attack(s, chain, block)
           c == Compress(r, block)
           N == Len(chain)
<1>a. /\ s \in Settings /\ m \in Seq(Byte)
      /\ chain \in Seq(Compression) /\ r.found_collision \in BOOLEAN
      /\ found \in BOOLEAN
      /\ times \in {1, 3}
  BY DEF Inner
<1>b. c = [r EXCEPT !.h = new, !.found_collision = found]
  BY DEF Compress
<1>c. /\ ChainOf(s, m, chain, r.found_collision)
      /\ \A k \in 0 .. BlockSize - 1 :
           block[k] = PaddedByte(m, N * BlockSize + k)
  OBVIOUS
<1>1. e \in Compression
  BY <1>a DEF Compression
<1> HIDE DEF c, new, s, m, chain
<1>2. /\ new \in Seq(Compression)
      /\ Len(new) = N + 1
      /\ \A i \in 1 .. N : new[i] = chain[i]
      /\ new[N + 1] = e
      /\ N \in Nat
  BY <1>1, <1>a, AppendProperties, LenProperties DEF new
<1>3. \A i \in 1 .. N : SubSeq(new, 1, i - 1) = SubSeq(chain, 1, i - 1)
  <2> SUFFICES ASSUME NEW i \in 1 .. N
               PROVE  SubSeq(new, 1, i - 1) = SubSeq(chain, 1, i - 1)
    OBVIOUS
  <2>1. \A j \in 1 .. i - 1 : new[j] = chain[j] /\ chain[j] \in Compression
    BY <1>2, ElementOfSeq
  <2>2. i - 1 \in Int /\ 1 \in Int
    BY <1>2
  <2>3. /\ SubSeq(new, 1, i - 1) \in Seq(Compression)
        /\ SubSeq(chain, 1, i - 1) \in Seq(Compression)
        /\ Len(SubSeq(new, 1, i - 1)) = Len(SubSeq(chain, 1, i - 1))
        /\ Len(SubSeq(new, 1, i - 1)) = i - 1
        /\ \A j \in 1 .. i - 1 : SubSeq(new, 1, i - 1)[j] = new[j]
        /\ \A j \in 1 .. i - 1 : SubSeq(chain, 1, i - 1)[j] = chain[j]
    BY <2>1, <2>2, SubSeqProperties
  <2> QED BY <2>1, <2>3, SeqEqual
<1>4. SubSeq(new, 1, (N + 1) - 1) = chain
  <2>1. \A j \in 1 .. N : new[j] = chain[j] /\ chain[j] \in Compression
    BY <1>2, ElementOfSeq
  <2>2. /\ SubSeq(new, 1, N) \in Seq(Compression)
        /\ Len(SubSeq(new, 1, N)) = N
        /\ \A j \in 1 .. N : SubSeq(new, 1, N)[j] = new[j]
    BY <1>2, <2>1, SubSeqProperties
  <2>3. SubSeq(new, 1, N) = chain
    BY <1>a, <2>1, <2>2, SeqEqual
  <2> QED BY <2>3, <1>2
<1>5. \A i \in 1 .. N : FlaggedAt(s, new, i) <=> FlaggedAt(s, chain, i)
  BY <1>2, <1>3 DEF FlaggedAt
<1>6. FlaggedAt(s, new, N + 1) <=> Attack(s, chain, block)
  <2>1. new[N + 1].block = block
    BY <1>2
  <2> QED BY <2>1, <1>4, Zenon DEF FlaggedAt
<1>7. \A i \in 1 .. N + 1 : \A k \in 0 .. BlockSize - 1 :
        new[i].block[k] = PaddedByte(m, (i - 1) * BlockSize + k)
  <2>1. (N + 1) - 1 = N
    BY <1>2
  <2>2. \A k \in 0 .. BlockSize - 1 :
          new[N + 1].block[k] = PaddedByte(m, ((N + 1) - 1) * BlockSize + k)
    BY <1>2, <1>c, <2>1
  <2>3. \A i \in 1 .. N + 1 : i \in 1 .. N \/ i = N + 1
    BY <1>2
  <2>4. \A i \in 1 .. N : \A k \in 0 .. BlockSize - 1 :
          chain[i].block[k] = PaddedByte(m, (i - 1) * BlockSize + k)
    BY <1>c DEF ChainOf
  <2>5. \A i \in 1 .. N : new[i] = chain[i]
    BY <1>2
  <2> HIDE DEF N
  <2>6. \A i \in 1 .. N : \A k \in 0 .. BlockSize - 1 :
          new[i].block[k] = PaddedByte(m, (i - 1) * BlockSize + k)
    BY <2>4, <2>5
  <2> QED BY <2>2, <2>3, <2>6
<1>8. \A i \in 1 .. N + 1 : new[i].times = TimesAt(s, new, i)
  BY <1>2, <1>5, <1>6, <1>c DEF ChainOf, TimesAt
<1>9. found <=> \E i \in 1 .. N + 1 : FlaggedAt(s, new, i)
  BY <1>2, <1>5, <1>6, <1>c DEF ChainOf
<1>10. ChainOf(s, m, new, found)
  BY <1>2, <1>7, <1>8, <1>9 DEF ChainOf
<1>11. /\ c \in Inner
       /\ c.h = new /\ c.found_collision = found
       /\ c.settings = s /\ c.fed = m /\ c.len = r.len
       /\ c.data = r.data /\ c.call = r.call /\ c.resets = r.resets
       /\ c.buffer = r.buffer
  <2> HIDE DEF found
  <2> QED BY <1>2, <1>a, <1>b DEF Inner, s, m
<1>12. r.found_collision => found
  BY <1>a
<1> QED
  <2> HIDE DEF found, s, m
  <2>1. ChainOf(c.settings, c.fed, c.h, c.found_collision)
    BY <1>10, <1>11
  <2>2. r.found_collision => c.found_collision
    BY <1>11, <1>12
  <2> QED BY <2>1, <2>2, <1>2, <1>11 DEF c, s, m, chain

-----------------------------------------------------------------------------
(* Each step of a call keeps the invariant of its hasher.                  *)

LEMMA ZeroBlockType == ZeroBlock \in Block
  BY MarkerType DEF ZeroBlock, Block

LEMMA NewInv ==
  ASSUME NEW s \in Settings
  PROVE  InnerInv(New(s))
<1> DEFINE r == New(s)
<1>1. r \in Inner
  BY ZeroBlockType, LenModAssumption DEF New, Inner, Calls
<1>2. /\ r.h = << >> /\ r.found_collision = FALSE /\ r.len = 0
      /\ r.fed = << >> /\ r.data = << >> /\ r.call = "none"
      /\ r.buffer = ZeroBlock /\ r.resets = FALSE
  BY DEF New
<1>3. /\ Len(r.h) = 0 /\ Len(r.fed) = 0 /\ Len(r.data) = 0
  BY <1>2
<1>4. /\ 0 % LenMod = 0 /\ 0 % BlockSize = 0
  <2>1. 0 * LenMod + 0 = 0 /\ 0 * BlockSize + 0 = 0
    BY SizesAssumption, LenModAssumption
  <2> QED BY <2>1, DivModUnique, SizesAssumption, LenModAssumption
<1>5. ChainOf(r.settings, r.fed, r.h, r.found_collision)
  BY <1>2, <1>3 DEF ChainOf
<1>6. DataInv(r)
  BY <1>2, <1>3 DEF DataInv
<1>7. BufferInv(r)
  <2>1. Len(r.h) * BlockSize = 0
    BY <1>3, SizesAssumption
  <2>2. Buffered(r) = 0
    BY <1>2, <1>4 DEF Buffered
  <2> QED BY <1>2, <1>3, <2>1, <2>2 DEF BufferInv, ZeroBlock
<1> QED BY <1>1, <1>2, <1>3, <1>4, <1>5, <1>6, <1>7 DEF InnerInv

LEMMA InnerEqual ==
  ASSUME NEW r \in Inner, NEW q \in Inner,
         r.h = q.h, r.found_collision = q.found_collision, r.len = q.len,
         r.buffer = q.buffer, r.settings = q.settings, r.call = q.call,
         r.data = q.data, r.resets = q.resets, r.fed = q.fed
  PROVE  r = q
  BY DEF Inner

LEMMA ResetIsNew ==
  ASSUME NEW r \in Inner, r.data = << >>
  PROVE  Reset(r) = New(r.settings)
<1>1. r.settings \in Settings
  BY DEF Inner
<1>2. New(r.settings) \in Inner
  BY <1>1, NewInv DEF InnerInv
<1>3. Reset(r) \in Inner
  <2>1. /\ << >> \in Seq(Compression) /\ << >> \in Seq(Byte)
        /\ 0 \in 0 .. LenMod - 1
    BY LenModAssumption, EmptySeq
  <2> QED BY <2>1, ZeroBlockType DEF Reset, Inner, Calls
<1> QED BY <1>2, <1>3, InnerEqual DEF Reset, New, Inner

(* Facts about a hasher every step starts from.                            *)
LEMMA InnerFacts ==
  ASSUME NEW r \in Inner
  PROVE  /\ r.h \in Seq(Compression) /\ Len(r.h) \in Nat
         /\ r.fed \in Seq(Byte) /\ Len(r.fed) \in Nat
         /\ r.data \in Seq(Byte) /\ Len(r.data) \in Nat
         /\ r.settings \in Settings /\ r.found_collision \in BOOLEAN
         /\ r.buffer \in Block /\ r.len \in Nat /\ r.resets \in BOOLEAN
         /\ Len(r.h) * BlockSize \in Nat
         /\ (Len(r.h) + 1) * BlockSize = Len(r.h) * BlockSize + BlockSize
         /\ Buffered(r) \in 0 .. BlockSize - 1
<1>1. /\ r.h \in Seq(Compression) /\ r.fed \in Seq(Byte)
      /\ r.data \in Seq(Byte) /\ r.settings \in Settings
      /\ r.found_collision \in BOOLEAN /\ r.buffer \in Block
      /\ r.resets \in BOOLEAN /\ r.len \in Nat
  BY LenModAssumption DEF Inner
<1>2. /\ Len(r.h) \in Nat /\ Len(r.fed) \in Nat /\ Len(r.data) \in Nat
  BY <1>1, LenProperties
<1>3. Buffered(r) \in 0 .. BlockSize - 1
  BY <1>1, DivMod, SizesAssumption DEF Buffered
<1>4. /\ Len(r.h) * BlockSize \in Nat
      /\ (Len(r.h) + 1) * BlockSize = Len(r.h) * BlockSize + BlockSize
  BY <1>2, TimesSuccessor, SizesAssumption
<1> QED BY <1>1, <1>2, <1>3, <1>4

(* Every block of a chain lies within the chain's length.                  *)
LEMMA InsideChain ==
  ASSUME NEW N \in Nat, NEW i \in 1 .. N, NEW k \in 0 .. BlockSize - 1
  PROVE  /\ (i - 1) * BlockSize + k \in Nat
         /\ (i - 1) * BlockSize + k < N * BlockSize
<1>1. /\ i - 1 \in Nat /\ i \in Nat /\ BlockSize \in Nat \ {0} /\ k \in Nat
      /\ k < BlockSize
  BY SizesAssumption
<1>2. /\ ((i - 1) + 1) * BlockSize = (i - 1) * BlockSize + BlockSize
      /\ (i - 1) * BlockSize \in Nat
  BY <1>1, TimesSuccessor
<1>3. (i - 1) + 1 = i
  BY <1>1
<1>4. i * BlockSize <= N * BlockSize
  BY <1>1, TimesMonotone
<1>5. i * BlockSize = (i - 1) * BlockSize + BlockSize
  BY <1>2, <1>3
<1>6. N * BlockSize \in Nat
  BY <1>1, TimesSuccessor
<1> QED BY <1>1, <1>2, <1>4, <1>5, <1>6

(* More data does not change the blocks already compressed.                *)
LEMMA ChainSurvives ==
  ASSUME NEW r \in Inner,
         ChainOf(r.settings, r.fed, r.h, r.found_collision),
         Len(r.h) * BlockSize <= Len(r.fed),
         NEW d \in Seq(Byte)
  PROVE  ChainOf(r.settings, r.fed \o d, r.h, r.found_collision)
<1> DEFINE fed == r.fed \o d
<1>1. /\ fed \in Seq(Byte)
      /\ Len(fed) = Len(r.fed) + Len(d)
      /\ \A i \in 1 .. Len(r.fed) : fed[i] = r.fed[i]
      /\ Len(d) \in Nat
  BY InnerFacts, ConcatProperties, LenProperties
<1> HIDE DEF fed
<1>2. ASSUME NEW i \in 1 .. Len(r.h), NEW k \in 0 .. BlockSize - 1
      PROVE  r.h[i].block[k] = PaddedByte(fed, (i - 1) * BlockSize + k)
  <2> DEFINE j == (i - 1) * BlockSize + k
  <2>1. Len(r.h) \in Nat /\ Len(r.fed) \in Nat
    BY InnerFacts
  <2>2. r.h[i].block[k] = PaddedByte(r.fed, j)
    BY DEF ChainOf
  <2>0. j \in Nat /\ j < Len(r.h) * BlockSize
    BY <2>1, InsideChain
  <2>7. Len(r.h) * BlockSize \in Nat
    BY InnerFacts
  <2> HIDE DEF j
  <2>6. j \in Nat /\ j < Len(r.fed) /\ j < Len(fed)
    BY <2>0, <2>1, <2>7, <1>1
  <2>3. PaddedByte(r.fed, j) = r.fed[j + 1] /\ PaddedByte(fed, j) = fed[j + 1]
    BY <1>1, <2>6, MessageByte, InnerFacts
  <2>4. j + 1 \in 1 .. Len(r.fed)
    BY <2>6, <2>1
  <2>5. PaddedByte(fed, j) = r.h[i].block[k]
    BY <1>1, <2>2, <2>3, <2>4
  <2> QED BY <2>5 DEF j
<1>3. ChainOf(r.settings, fed, r.h, r.found_collision)
  BY <1>2 DEF ChainOf
<1> QED BY <1>3 DEF fed

LEMMA CopyIntoType ==
  ASSUME NEW buffer \in Block, NEW pos \in 0 .. BlockSize, NEW n \in Nat,
         NEW d \in Seq(Byte), n <= Len(d)
  PROVE  CopyInto(buffer, pos, n, d) \in Block
<1> SUFFICES ASSUME NEW k \in 0 .. BlockSize - 1, k >= pos, k < pos + n
             PROVE  d[k - pos + 1] \in Byte
  BY DEF CopyInto, Block
<1>1. k - pos + 1 \in 1 .. Len(d)
  BY SizesAssumption, LenProperties
<1> QED BY <1>1, ElementOfSeq

(* The first part of update: the length moves on, the buffer is filled.    *)
LEMMA BeginUpdateInv ==
  ASSUME NEW r, InnerInv(r), r.call = "none", NEW d \in Seq(Byte)
  PROVE  LET q == BeginUpdate(r, d)
         IN  InnerInv(q) /\ q.found_collision = r.found_collision
                         /\ q.settings = r.settings /\ q.fed = r.fed \o d
<1> DEFINE q == BeginUpdate(r, d)
           old == r.fed
           at == Len(r.h) * BlockSize
           pos == Buffered(r)
           take == IF BlockSize - pos < Len(d) THEN BlockSize - pos ELSE Len(d)
           fed == old \o d
           rest == IF pos > 0 THEN SubSeq(d, take + 1, Len(d)) ELSE d
           buffer == IF pos > 0 THEN CopyInto(r.buffer, pos, take, d)
                     ELSE r.buffer
           call == IF pos = 0 THEN "blocks"
                   ELSE IF pos + take < BlockSize THEN "none" ELSE "buffer"
           len == (r.len + Len(d)) % LenMod
<1>1. r \in Inner
  BY DEF InnerInv
<1>2. /\ at \in Nat /\ pos \in Nat /\ pos < BlockSize /\ Len(d) \in Nat
      /\ BlockSize \in Nat \ {0} /\ LenMod \in Nat \ {0}
      /\ Len(old) \in Nat /\ at + pos = Len(old)
  BY <1>1, InnerFacts, LenProperties, SizesAssumption, LenModAssumption
     DEF InnerInv, BufferInv
<1>3. /\ old \in Seq(Byte) /\ r.buffer \in Block /\ r.settings \in Settings
      /\ r.h \in Seq(Compression) /\ r.found_collision \in BOOLEAN
      /\ Len(r.h) \in Int
  BY <1>1, InnerFacts
<1>4. \A k \in 0 .. BlockSize - 1 :
        r.buffer[k] = IF k < pos THEN old[at + k + 1] ELSE 0
  BY DEF InnerInv, BufferInv
<1>5. /\ r.len = Len(old) % LenMod
      /\ ChainOf(r.settings, old, r.h, r.found_collision)
  BY DEF InnerInv
<1>6. q = [r EXCEPT !.len = len, !.fed = fed, !.buffer = buffer,
                    !.data = rest, !.call = call]
  BY DEF BeginUpdate, TopUp, LenAfter
<1> HIDE DEF at, pos, q, old
<1>7. /\ take \in Nat /\ take <= Len(d) /\ pos + take <= BlockSize
      /\ pos + take < BlockSize => take = Len(d)
  BY <1>2
<1> HIDE DEF take, fed, rest, buffer, len, call
<1>8. /\ fed \in Seq(Byte) /\ Len(fed) = Len(old) + Len(d)
      /\ \A i \in 1 .. Len(old) : fed[i] = old[i]
      /\ \A i \in 1 .. Len(d) : fed[Len(old) + i] = d[i]
  <2>1. /\ fed \in Seq(Byte) /\ Len(fed) = Len(old) + Len(d)
        /\ \A i \in 1 .. Len(old) + Len(d) :
             fed[i] = IF i <= Len(old) THEN old[i] ELSE d[i - Len(old)]
    BY <1>3, ConcatProperties DEF fed
  <2>2. \A i \in 1 .. Len(old) : i \in 1 .. Len(old) + Len(d) /\ i <= Len(old)
    BY <1>2
  <2>3. \A i \in 1 .. Len(d) :
          /\ Len(old) + i \in 1 .. Len(old) + Len(d)
          /\ ~ (Len(old) + i <= Len(old))
          /\ (Len(old) + i) - Len(old) = i
    BY <1>2
  <2> QED BY <2>1, <2>2, <2>3
<1>9. /\ rest \in Seq(Byte)
      /\ Len(rest) = IF pos > 0 THEN Len(d) - take ELSE Len(d)
      /\ \A k \in 1 .. Len(rest) : rest[k] = d[Len(d) - Len(rest) + k]
  <2>1. CASE pos > 0
    <3>1. \A i \in take + 1 .. Len(d) : d[i] \in Byte
      BY <1>2, <1>7, ElementOfSeq
    <3>2. take + 1 \in Int /\ Len(d) \in Int
      BY <1>2, <1>7
    <3>3. /\ rest \in Seq(Byte)
          /\ Len(rest) = IF take + 1 <= Len(d) THEN Len(d) - (take + 1) + 1 ELSE 0
          /\ \A i \in 1 .. Len(d) - (take + 1) + 1 :
               rest[i] = d[(take + 1) + i - 1]
      BY <3>1, <3>2, <2>1, SubSeqProperties DEF rest
    <3>4. Len(rest) = Len(d) - take
      BY <3>3, <1>2, <1>7
    <3>5. \A i \in 1 .. Len(rest) :
            /\ i \in 1 .. Len(d) - (take + 1) + 1
            /\ (take + 1) + i - 1 = Len(d) - Len(rest) + i
      BY <3>4, <1>2, <1>7
    <3> QED BY <3>3, <3>4, <3>5, <2>1
  <2>2. CASE ~ (pos > 0)
    <3>1. rest = d
      BY <2>2 DEF rest
    <3>2. \A k \in 1 .. Len(d) : Len(d) - Len(d) + k = k
      BY <1>2
    <3> QED BY <3>1, <3>2, <2>2
  <2> QED BY <2>1, <2>2
<1>10. buffer \in Block
  <2>1. pos \in 0 .. BlockSize
    BY <1>2
  <2> QED BY <2>1, <1>3, <1>7, CopyIntoType DEF buffer
<1>11. /\ len = Len(fed) % LenMod
       /\ len \in 0 .. LenMod - 1
       /\ len % BlockSize = Len(fed) % BlockSize
  <2>1. len = (Len(old) + Len(d)) % LenMod
    <3>1. ((Len(old) % LenMod) + Len(d)) % LenMod = (Len(old) + Len(d)) % LenMod
      BY <1>2, ModOfSum
    <3>2. len = ((Len(old) % LenMod) + Len(d)) % LenMod
      BY <1>5, Zenon DEF len
    <3> QED BY <3>1, <3>2
  <2>2. Len(fed) \in Nat /\ len = Len(fed) % LenMod
    BY <2>1, <1>2, <1>8
  <2> QED BY <2>2, <1>2, DivMod, ModOfMod, LenModAssumption
<1>12. ASSUME NEW k \in 0 .. BlockSize - 1
       PROVE  buffer[k] = IF k < pos \/ (pos > 0 /\ k < pos + take)
                          THEN fed[at + k + 1] ELSE 0
  <2>1. CASE k < pos
    <3>1. buffer[k] = r.buffer[k]
      BY <2>1, <1>2, <1>7 DEF CopyInto, buffer
    <3>2. at + k + 1 \in 1 .. Len(old)
      BY <2>1, <1>2
    <3>3. buffer[k] = old[at + k + 1]
      BY <3>1, <2>1, <1>4
    <3> QED BY <3>2, <3>3, <2>1, <1>8
  <2>2. CASE pos > 0 /\ k >= pos /\ k < pos + take
    <3>1. buffer[k] = d[k - pos + 1]
      BY <2>2, <1>2, <1>7 DEF CopyInto, buffer
    <3>2. /\ k - pos + 1 \in 1 .. Len(d)
          /\ Len(old) + (k - pos + 1) = at + k + 1
      BY <2>2, <1>2, <1>7
    <3>3. fed[Len(old) + (k - pos + 1)] = d[k - pos + 1]
      BY <3>2, <1>8
    <3> QED BY <3>1, <3>2, <3>3, <2>2
  <2>3. CASE ~ (k < pos) /\ ~ (pos > 0 /\ k < pos + take)
    <3>1. buffer[k] = r.buffer[k]
      BY <2>3, <1>2, <1>7 DEF CopyInto, buffer
    <3> QED BY <3>1, <2>3, <1>4
  <2> QED BY <2>1, <2>2, <2>3, <1>2, <1>7
<1>13. /\ q \in Inner
       /\ q.h = r.h /\ q.found_collision = r.found_collision
       /\ q.settings = r.settings /\ q.len = len /\ q.fed = fed
       /\ q.buffer = buffer /\ q.data = rest /\ q.call = call
       /\ q.resets = r.resets
  <2>1. call \in Calls
    BY DEF Calls, call
  <2>2. rest \in Seq(Byte) /\ fed \in Seq(Byte) /\ len \in 0 .. LenMod - 1
    BY <1>8, <1>9, <1>11
  <2> QED BY <1>1, <1>6, <1>10, <2>1, <2>2 DEF Inner
<1>14. ChainOf(q.settings, q.fed, q.h, q.found_collision)
  <2>1. at <= Len(old)
    BY <1>2
  <2>2. ChainOf(r.settings, fed, r.h, r.found_collision)
    BY <2>1, <1>1, <1>5, ChainSurvives DEF at, fed, old
  <2> QED BY <2>2, <1>13
<1>15. Buffered(q) = Len(fed) % BlockSize
  BY <1>11, <1>13 DEF Buffered
<1>16. /\ Len(fed) \in Nat /\ Len(rest) \in Nat
       /\ Len(fed) = at + pos + Len(d)
       /\ pos > 0 => Len(rest) = Len(d) - take
       /\ pos = 0 => Len(rest) = Len(d)
  <2>1. /\ Len(fed) = Len(old) + Len(d)
        /\ Len(rest) = IF pos > 0 THEN Len(d) - take ELSE Len(d)
    BY <1>8, <1>9
  <2> QED BY <1>2, <1>7, <2>1
<1>17. DataInv(q)
  <2>1. Len(rest) <= Len(fed)
    BY <1>2, <1>7, <1>16
  <2>2. ASSUME NEW k \in 1 .. Len(rest)
        PROVE  rest[k] = fed[Len(fed) - Len(rest) + k]
    <3>1. /\ Len(d) - Len(rest) + k \in 1 .. Len(d)
          /\ Len(old) + (Len(d) - Len(rest) + k) = Len(fed) - Len(rest) + k
      BY <1>2, <1>7, <1>16
    <3>2. fed[Len(old) + (Len(d) - Len(rest) + k)]
            = d[Len(d) - Len(rest) + k]
      BY <3>1, <1>8
    <3> QED BY <3>1, <3>2, <1>9
  <2>3. call \in {"none", "overflow", "length"} => rest = << >>
    <3>1. call \in {"none", "overflow", "length"} => pos > 0 /\ take = Len(d)
      BY <1>2, <1>7, <1>16 DEF call
    <3>2. call \in {"none", "overflow", "length"} => Len(rest) = 0
      BY <3>1, <1>2, <1>7, <1>16
    <3> QED BY <3>2, <1>9, EmptySeq
  <2>4. Absorbed(q) = Len(fed) - Len(rest)
    BY <1>13 DEF Absorbed
  <2> QED BY <1>13, <2>1, <2>2, <2>3, <2>4 DEF DataInv
<1>18. BufferInv(q)
  <2>1. Len(q.h) * BlockSize = at
    BY <1>13 DEF at
  <2>2. ASSUME call = "none"
        PROVE  /\ at + Buffered(q) = Len(fed)
               /\ \A k \in 0 .. BlockSize - 1 :
                    buffer[k] = IF k < Buffered(q) THEN fed[at + k + 1] ELSE 0
    <3>1. pos > 0 /\ pos + take < BlockSize /\ take = Len(d)
      BY <2>2, <1>2, <1>7, <1>16 DEF call
    <3>2. Len(fed) = at + (pos + take) /\ pos + take \in 0 .. BlockSize - 1
      BY <3>1, <1>2, <1>7, <1>16
    <3>3. Len(r.h) \in Int
      BY <1>1, InnerFacts
    <3>4. (at + (pos + take)) % BlockSize = pos + take
      BY <3>2, <3>3, DivModUnique, SizesAssumption DEF at
    <3>5. Buffered(q) = pos + take
      BY <3>2, <3>4, <1>15
    <3>6. \A k \in 0 .. BlockSize - 1 :
            k < pos \/ (pos > 0 /\ k < pos + take) <=> k < pos + take
      BY <3>1, <1>2, <1>7, <1>16
    <3> QED BY <3>2, <3>5, <3>6, <1>12
  <2>3. ASSUME call = "buffer"
        PROVE  /\ at + BlockSize = Len(fed) - Len(rest)
               /\ \A k \in 0 .. BlockSize - 1 : buffer[k] = fed[at + k + 1]
    <3>1. pos > 0 /\ pos + take = BlockSize
      BY <2>3, <1>2, <1>7, <1>16 DEF call
    <3>2. at + BlockSize = Len(fed) - Len(rest)
      BY <3>1, <1>2, <1>7, <1>16
    <3>3. \A k \in 0 .. BlockSize - 1 : k < pos + take
      BY <3>1, <1>2, <1>7, <1>16
    <3> QED BY <3>1, <3>2, <3>3, <1>12
  <2>4. ASSUME call = "blocks"
        PROVE  at = Len(fed) - Len(rest) /\ buffer = ZeroBlock
    <3>1. pos = 0
      BY <2>4, <1>2, <1>7, <1>16 DEF call
    <3>2. \A k \in 0 .. BlockSize - 1 : ~ (k < pos) /\ ~ (pos > 0)
      BY <3>1, <1>2, <1>7, <1>16
    <3>3. \A k \in 0 .. BlockSize - 1 : buffer[k] = 0
      BY <3>2, <1>12
    <3>4. buffer = ZeroBlock
      BY <3>3, <1>10 DEF Block, ZeroBlock
    <3>5. at = Len(fed) - Len(rest)
      BY <3>1, <1>2, <1>7, <1>16
    <3> QED BY <3>4, <3>5
  <2>5. call \notin {"overflow", "length"}
    BY DEF call
  <2>6. Absorbed(q) = Len(fed) - Len(rest)
    BY <1>13 DEF Absorbed
  <2> QED BY <1>13, <2>1, <2>2, <2>3, <2>4, <2>5, <2>6 DEF BufferInv
<1>19. q.resets => q.call \in {"overflow", "length"}
  BY <1>13 DEF InnerInv
<1> QED BY <1>11, <1>13, <1>14, <1>17, <1>18, <1>19 DEF InnerInv, q, fed, old

(* A full buffer is the next block of the message.                         *)
LEMMA FlushBufferInv ==
  ASSUME NEW r, InnerInv(r), r.call = "buffer"
  PROVE  LET q == FlushBuffer(r)
         IN  InnerInv(q) /\ (r.found_collision => q.found_collision)
                         /\ q.settings = r.settings /\ q.fed = r.fed
<1> DEFINE c == Compress(r, r.buffer)
           q == FlushBuffer(r)
           N == Len(r.h)
           at == N * BlockSize
           fed == r.fed
           data == r.data
<1>1. r \in Inner
  BY DEF InnerInv
<1>2. /\ at \in Nat /\ N \in Nat /\ BlockSize \in Nat /\ Len(fed) \in Nat
      /\ Len(data) \in Nat /\ Len(data) <= Len(fed)
      /\ at + BlockSize = Len(fed) - Len(data)
      /\ (N + 1) * BlockSize = at + BlockSize
  BY <1>1, InnerFacts, SizesAssumption
     DEF InnerInv, BufferInv, DataInv, Absorbed
<1>3. /\ fed \in Seq(Byte) /\ r.buffer \in Block
      /\ ChainOf(r.settings, r.fed, r.h, r.found_collision)
      /\ \A k \in 0 .. BlockSize - 1 : r.buffer[k] = fed[at + k + 1]
  BY <1>1, InnerFacts DEF InnerInv, BufferInv
<1> HIDE DEF at, fed, data, c, q
<1>4. ASSUME NEW k \in 0 .. BlockSize - 1
      PROVE  r.buffer[k] = PaddedByte(fed, at + k)
  <2>1. at + k \in Nat /\ at + k < Len(fed)
    BY <1>2
  <2> QED BY <2>1, <1>3, MessageByte
<1>5. /\ c \in Inner /\ Len(c.h) = N + 1
      /\ ChainOf(c.settings, c.fed, c.h, c.found_collision)
      /\ c.settings = r.settings /\ c.fed = r.fed /\ c.len = r.len
      /\ c.data = r.data /\ c.resets = r.resets
      /\ r.found_collision => c.found_collision
  BY <1>1, <1>3, <1>4, CompressInv DEF c, at, fed
<1>6. /\ q \in Inner /\ q.h = c.h /\ q.fed = fed /\ q.data = data
      /\ q.settings = c.settings /\ q.found_collision = c.found_collision
      /\ q.len = r.len /\ q.buffer = ZeroBlock /\ q.call = "blocks"
      /\ q.resets = r.resets
  BY <1>5, ZeroBlockType DEF q, c, FlushBuffer, Inner, Calls, fed, data
<1>7. DataInv(q)
  BY <1>6 DEF InnerInv, DataInv, Absorbed, fed, data
<1>8. BufferInv(q)
  <2>1. Len(q.h) * BlockSize = Len(fed) - Len(data)
    BY <1>2, <1>5, <1>6
  <2> QED BY <2>1, <1>6 DEF BufferInv, Absorbed
<1>9. ChainOf(q.settings, q.fed, q.h, q.found_collision)
  BY <1>5, <1>6 DEF fed
<1>10. /\ q.len = Len(q.fed) % LenMod
       /\ q.resets => q.call \in {"overflow", "length"}
  BY <1>6 DEF InnerInv, fed
<1> QED BY <1>5, <1>6, <1>7, <1>8, <1>9, <1>10 DEF InnerInv, q, fed

(* So is a whole block of the data.                                        *)
LEMMA TakeBlockInv ==
  ASSUME NEW r, InnerInv(r), r.call = "blocks", Len(r.data) >= BlockSize
  PROVE  LET q == TakeBlock(r)
         IN  InnerInv(q) /\ (r.found_collision => q.found_collision)
                         /\ q.settings = r.settings /\ q.fed = r.fed
<1> DEFINE block == [k \in 0 .. BlockSize - 1 |-> r.data[k + 1]]
           c == Compress(r, block)
           q == TakeBlock(r)
           N == Len(r.h)
           at == N * BlockSize
           fed == r.fed
           data == r.data
           rest == SubSeq(data, BlockSize + 1, Len(data))
<1>1. r \in Inner
  BY DEF InnerInv
<1>2. /\ at \in Nat /\ N \in Nat /\ BlockSize \in Nat /\ Len(fed) \in Nat
      /\ Len(data) \in Nat /\ Len(data) <= Len(fed)
      /\ Len(data) >= BlockSize
      /\ at = Len(fed) - Len(data)
      /\ (N + 1) * BlockSize = at + BlockSize
  BY <1>1, InnerFacts, SizesAssumption
     DEF InnerInv, BufferInv, DataInv, Absorbed
<1>3. /\ fed \in Seq(Byte) /\ data \in Seq(Byte) /\ r.buffer = ZeroBlock
      /\ ChainOf(r.settings, r.fed, r.h, r.found_collision)
      /\ \A k \in 1 .. Len(data) : data[k] = fed[Len(fed) - Len(data) + k]
  BY <1>1, InnerFacts DEF InnerInv, BufferInv, DataInv, Absorbed
<1>4. block = [k \in 0 .. BlockSize - 1 |-> data[k + 1]]
  OBVIOUS
<1> HIDE DEF at, fed, data, c, q, rest, block
<1>5. ASSUME NEW k \in 0 .. BlockSize - 1
      PROVE  block[k] = PaddedByte(fed, at + k) /\ block[k] \in Byte
  <2>1. /\ at + k \in Nat /\ at + k < Len(fed)
        /\ k + 1 \in 1 .. Len(data)
        /\ Len(fed) - Len(data) + (k + 1) = at + k + 1
    BY <1>2
  <2>2. block[k] = data[k + 1]
    BY <1>4
  <2>3. data[k + 1] = fed[at + k + 1]
    BY <2>1, <1>3
  <2> QED BY <2>1, <2>2, <2>3, <1>3, MessageByte, ElementOfSeq
<1>6. block \in Block
  BY <1>4, <1>5 DEF Block
<1>7. /\ c \in Inner /\ Len(c.h) = N + 1
      /\ ChainOf(c.settings, c.fed, c.h, c.found_collision)
      /\ c.settings = r.settings /\ c.fed = r.fed /\ c.len = r.len
      /\ c.buffer = r.buffer /\ c.call = r.call /\ c.resets = r.resets
      /\ r.found_collision => c.found_collision
  BY <1>1, <1>3, <1>5, <1>6, CompressInv DEF c, at, fed
<1>8. /\ rest \in Seq(Byte)
      /\ Len(rest) = Len(data) - BlockSize
      /\ \A k \in 1 .. Len(rest) : rest[k] = data[BlockSize + k]
  <2>1. \A i \in BlockSize + 1 .. Len(data) : data[i] \in Byte
    BY <1>2, <1>3, ElementOfSeq
  <2>2. BlockSize + 1 \in Int /\ Len(data) \in Int
    BY <1>2
  <2>3. /\ rest \in Seq(Byte)
        /\ Len(rest) = IF BlockSize + 1 <= Len(data)
                       THEN Len(data) - (BlockSize + 1) + 1 ELSE 0
        /\ \A i \in 1 .. Len(data) - (BlockSize + 1) + 1 :
             rest[i] = data[(BlockSize + 1) + i - 1]
    BY <2>1, <2>2, SubSeqProperties DEF rest
  <2>4. Len(rest) = Len(data) - BlockSize
    BY <2>3, <1>2
  <2>5. \A i \in 1 .. Len(rest) :
          /\ i \in 1 .. Len(data) - (BlockSize + 1) + 1
          /\ (BlockSize + 1) + i - 1 = BlockSize + i
    BY <2>4, <1>2
  <2> QED BY <2>3, <2>4, <2>5
<1>9. /\ q \in Inner /\ q.h = c.h /\ q.fed = fed /\ q.data = rest
      /\ q.settings = c.settings /\ q.found_collision = c.found_collision
      /\ q.len = r.len /\ q.buffer = ZeroBlock /\ q.call = "blocks"
      /\ q.resets = r.resets
  <2>1. q = [c EXCEPT !.data = rest]
    BY DEF q, c, TakeBlock, rest, data, block
  <2> QED BY <2>1, <1>3, <1>7, <1>8 DEF Inner, fed
<1>10. DataInv(q)
  <2>1. Len(rest) <= Len(fed)
    BY <1>2, <1>8
  <2>2. ASSUME NEW k \in 1 .. Len(rest)
        PROVE  rest[k] = fed[Len(fed) - Len(rest) + k]
    <3>1. /\ BlockSize + k \in 1 .. Len(data)
          /\ Len(fed) - Len(data) + (BlockSize + k) = Len(fed) - Len(rest) + k
      BY <1>2, <1>8
    <3>2. rest[k] = data[BlockSize + k]
      BY <1>8
    <3>3. data[BlockSize + k] = fed[Len(fed) - Len(data) + (BlockSize + k)]
      BY <3>1, <1>3
    <3> QED BY <3>1, <3>2, <3>3
  <2> QED BY <2>1, <2>2, <1>9 DEF DataInv, Absorbed
<1>11. BufferInv(q)
  <2>1. Len(q.h) * BlockSize = Len(fed) - Len(rest)
    BY <1>2, <1>7, <1>8, <1>9
  <2> QED BY <2>1, <1>9 DEF BufferInv, Absorbed
<1>12. ChainOf(q.settings, q.fed, q.h, q.found_collision)
  BY <1>7, <1>9 DEF fed
<1>13. /\ q.len = Len(q.fed) % LenMod
       /\ q.resets => q.call \in {"overflow", "length"}
  BY <1>9 DEF InnerInv, fed
<1> QED BY <1>7, <1>9, <1>10, <1>11, <1>12, <1>13 DEF InnerInv, q, fed

(* What is left of the data becomes the buffer.                            *)
LEMMA KeepRestInv ==
  ASSUME NEW r, InnerInv(r), r.call = "blocks", Len(r.data) < BlockSize
  PROVE  LET q == KeepRest(r)
         IN  InnerInv(q) /\ q.found_collision = r.found_collision
                         /\ q.settings = r.settings /\ q.fed = r.fed
<1> DEFINE q == KeepRest(r)
           N == Len(r.h)
           at == N * BlockSize
           fed == r.fed
           data == r.data
           pos == Len(data)
           buffer == CopyInto(r.buffer, 0, pos, data)
<1>1. r \in Inner
  BY DEF InnerInv
<1>2. /\ at \in Nat /\ N \in Int /\ BlockSize \in Nat \ {0} /\ Len(fed) \in Nat
      /\ pos \in Nat /\ pos < BlockSize
      /\ at + pos = Len(fed)
      /\ Len(fed) - pos = at
      /\ LenMod \in Nat \ {0}
  <2>1. /\ at \in Nat /\ N \in Nat /\ Len(fed) \in Nat /\ pos \in Nat
        /\ at = Len(fed) - pos
    BY <1>1, InnerFacts DEF InnerInv, BufferInv, Absorbed
  <2>2. pos < BlockSize
    OBVIOUS
  <2> HIDE DEF at, pos, N, fed
  <2> QED BY <2>1, <2>2, SizesAssumption, LenModAssumption
<1>3. /\ fed \in Seq(Byte) /\ data \in Seq(Byte) /\ r.buffer = ZeroBlock
      /\ r.len = Len(fed) % LenMod
      /\ ChainOf(r.settings, r.fed, r.h, r.found_collision)
      /\ \A k \in 1 .. Len(data) : data[k] = fed[Len(fed) - Len(data) + k]
  BY <1>1, InnerFacts DEF InnerInv, BufferInv, DataInv, Absorbed
<1>4. q = [r EXCEPT !.buffer = buffer, !.data = << >>, !.call = "none"]
  BY DEF KeepRest
<1>5. \A k \in 0 .. BlockSize - 1 :
        buffer[k] = IF k >= 0 /\ k < 0 + pos THEN data[k - 0 + 1] ELSE 0
  BY <1>3 DEF CopyInto, ZeroBlock
<1>6. buffer \in Block
  <2>1. 0 \in 0 .. BlockSize
    BY <1>2
  <2>2. r.buffer \in Block /\ pos \in Nat /\ pos <= Len(data)
    BY <1>1, <1>2, InnerFacts
  <2> QED BY <2>1, <2>2, <1>3, CopyIntoType
<1> HIDE DEF at, fed, data, pos, buffer, q
<1>7. /\ q \in Inner /\ q.h = r.h /\ q.fed = fed /\ q.data = << >>
      /\ q.settings = r.settings /\ q.found_collision = r.found_collision
      /\ q.len = r.len /\ q.buffer = buffer /\ q.call = "none"
      /\ q.resets = r.resets
  BY <1>1, <1>4, <1>6, EmptySeq DEF Inner, Calls, fed
<1>8. \A k \in 0 .. BlockSize - 1 :
        buffer[k] = IF k < pos THEN fed[at + k + 1] ELSE 0
  <2> SUFFICES ASSUME NEW k \in 0 .. BlockSize - 1
               PROVE  buffer[k] = IF k < pos THEN fed[at + k + 1] ELSE 0
    OBVIOUS
  <2>1. CASE k < pos
    <3>1. k >= 0 /\ k < 0 + pos /\ k - 0 + 1 = k + 1 /\ k + 1 \in 1 .. pos
          /\ Len(fed) - pos + (k + 1) = at + k + 1
      BY <2>1, <1>2
    <3>2. data[k + 1] = fed[at + k + 1]
      BY <3>1, <1>3 DEF pos
    <3> QED BY <3>1, <3>2, <2>1, <1>5
  <2>2. CASE ~ (k < pos)
    <3>1. ~ (k < 0 + pos)
      BY <2>2, <1>2
    <3> QED BY <3>1, <2>2, <1>5
  <2> QED BY <2>1, <2>2
<1>9. Buffered(q) = pos
  <2>1. (at + pos) % BlockSize = pos
    <3>1. N \in Int /\ pos \in 0 .. BlockSize - 1 /\ BlockSize \in Nat \ {0}
      BY <1>2
    <3> HIDE DEF N
    <3> QED BY <3>1, DivModUnique DEF at
  <2>2. (Len(fed) % LenMod) % BlockSize = Len(fed) % BlockSize
    BY <1>2, ModOfMod, LenModAssumption
  <2>3. Len(fed) % BlockSize = pos
    BY <2>1, <1>2
  <2> QED BY <2>2, <2>3, <1>3, <1>7 DEF Buffered
<1>10. BufferInv(q)
  <2>1. Len(q.h) * BlockSize = at
    BY <1>7 DEF at
  <2> QED BY <2>1, <1>2, <1>7, <1>8, <1>9 DEF BufferInv
<1>11. DataInv(q)
  BY <1>2, <1>7, EmptySeq DEF DataInv
<1>12. ChainOf(q.settings, q.fed, q.h, q.found_collision)
  BY <1>3, <1>7 DEF fed
<1>13. q.resets => q.call \in {"overflow", "length"}
  BY <1>7 DEF InnerInv
<1> QED BY <1>3, <1>7, <1>10, <1>11, <1>12, <1>13 DEF InnerInv, q, fed

(* The end of the message in the padded message: how many blocks there are *)
(* and what a byte of the last ones is.                                    *)
LEMMA PaddingShape ==
  ASSUME NEW m \in Seq(Byte), NEW N \in Nat, NEW pos \in 0 .. BlockSize - 1,
         N * BlockSize + pos = Len(m)
  PROVE  /\ PaddedBlocks(m) = IF pos + 1 > BlockSize - LengthSize
                              THEN N + 2 ELSE N + 1
         /\ \A k \in 0 .. BlockSize - 1 :
              k < BlockSize - LengthSize \/ pos + 1 > BlockSize - LengthSize =>
                PaddedByte(m, N * BlockSize + k) =
                  IF k < pos THEN m[N * BlockSize + k + 1]
                  ELSE IF k = pos THEN Marker ELSE 0
<1> DEFINE at == N * BlockSize
           L == LengthSize
           B == BlockSize
           blocks == PaddedBlocks(m)
<1>1. /\ at \in Nat /\ Len(m) \in Nat /\ B \in Nat \ {0} /\ L \in Nat \ {0}
      /\ L < B /\ pos \in Nat /\ pos < B /\ at + pos = Len(m)
      /\ (N + 1) * B = at + B
      /\ N + 1 \in Int /\ N + 2 \in Int
  BY SizesAssumption, LenProperties, TimesSuccessor
<1>2. (N + 2) * B = at + B + B
  <2>1. ((N + 1) + 1) * B = (N + 1) * B + B
    BY <1>1, TimesSuccessor
  <2>2. (N + 1) + 1 = N + 2
    OBVIOUS
  <2> QED BY <2>1, <2>2, <1>1
<1>3. blocks = (Len(m) + L + B) \div B
  BY DEF PaddedBlocks
<1> HIDE DEF at, L, B, blocks
<1>4. CASE pos + 1 > B - L
  <2>1. /\ pos + L - B \in 0 .. B - 1
        /\ Len(m) + L + B = (N + 2) * B + (pos + L - B)
    BY <1>1, <1>2, <1>4
  <2>2. ((N + 2) * B + (pos + L - B)) \div B = N + 2
    BY <2>1, <1>1, DivModUnique
  <2>3. blocks = N + 2
    BY <2>1, <2>2, <1>3
  <2>4. blocks * B - L > at + B
    BY <2>3, <1>1, <1>2
  <2>5. ASSUME NEW k \in 0 .. B - 1
        PROVE  PaddedByte(m, at + k) = IF k < pos THEN m[at + k + 1]
                                       ELSE IF k = pos THEN Marker ELSE 0
    <3>1. /\ at + k < Len(m) <=> k < pos
          /\ at + k = Len(m) <=> k = pos
          /\ ~ (at + k >= blocks * B - L)
      BY <2>4, <1>1, <2>3, <1>2
    <3> QED BY <3>1 DEF PaddedByte, blocks, B, L
  <2> QED BY <1>4, <2>3, <2>5 DEF at, B, L, blocks
<1>5. CASE ~ (pos + 1 > B - L)
  <2>1. /\ pos + L \in 0 .. B - 1
        /\ Len(m) + L + B = (N + 1) * B + (pos + L)
    BY <1>1, <1>2, <1>5
  <2>2. ((N + 1) * B + (pos + L)) \div B = N + 1
    BY <2>1, <1>1, DivModUnique
  <2>3. blocks = N + 1
    BY <2>1, <2>2, <1>3
  <2>4. blocks * B - L = at + B - L
    BY <2>3, <1>1
  <2>5. ASSUME NEW k \in 0 .. B - 1, k < B - L
        PROVE  PaddedByte(m, at + k) = IF k < pos THEN m[at + k + 1]
                                       ELSE IF k = pos THEN Marker ELSE 0
    <3>1. /\ at + k < Len(m) <=> k < pos
          /\ at + k = Len(m) <=> k = pos
          /\ ~ (at + k >= blocks * B - L)
      BY <2>4, <2>5, <1>1
    <3> QED BY <3>1 DEF PaddedByte, blocks, B, L
  <2> QED BY <1>5, <2>3, <2>5 DEF at, B, L, blocks
<1> QED BY <1>4, <1>5 DEF B, L

(* The marker ends the message, whether the length still fits or not.      *)
LEMMA BeginFinalizeInv ==
  ASSUME NEW r, InnerInv(r), r.call = "none", NEW resets \in BOOLEAN
  PROVE  LET q == BeginFinalize(r, resets)
         IN  InnerInv(q) /\ q.found_collision = r.found_collision
                         /\ q.settings = r.settings /\ q.fed = r.fed
<1> DEFINE q == BeginFinalize(r, resets)
           N == Len(r.h)
           at == N * BlockSize
           fed == r.fed
           pos == Buffered(r)
           buffer == [r.buffer EXCEPT ![pos] = Marker]
           overflows == pos + 1 > BlockSize - LengthSize
           call == IF overflows THEN "overflow" ELSE "length"
<1>1. r \in Inner
  BY DEF InnerInv
<1>2. /\ at \in Nat /\ N \in Nat /\ BlockSize \in Nat \ {0} /\ Len(fed) \in Nat
      /\ pos \in Nat /\ pos < BlockSize /\ pos \in 0 .. BlockSize - 1
      /\ at + pos = Len(fed)
      /\ LengthSize \in Nat \ {0} /\ LengthSize < BlockSize
  BY <1>1, InnerFacts, SizesAssumption
     DEF InnerInv, BufferInv, DataInv, Absorbed
<1>3. /\ fed \in Seq(Byte) /\ r.buffer \in Block /\ r.data = << >>
      /\ r.len = Len(fed) % LenMod
      /\ ChainOf(r.settings, r.fed, r.h, r.found_collision)
      /\ \A k \in 0 .. BlockSize - 1 :
           r.buffer[k] = IF k < pos THEN fed[at + k + 1] ELSE 0
  BY <1>1, InnerFacts DEF InnerInv, BufferInv, DataInv, Absorbed
<1>4. q = [r EXCEPT !.buffer = buffer, !.resets = resets, !.call = call]
  BY DEF BeginFinalize
<1>5. buffer \in Block
  BY <1>2, <1>3, MarkerType DEF Block
<1>6. \A k \in 0 .. BlockSize - 1 :
        buffer[k] = IF k < pos THEN fed[at + k + 1]
                    ELSE IF k = pos THEN Marker ELSE 0
  <2> SUFFICES ASSUME NEW k \in 0 .. BlockSize - 1
               PROVE  buffer[k] = IF k < pos THEN fed[at + k + 1]
                                  ELSE IF k = pos THEN Marker ELSE 0
    OBVIOUS
  <2> HIDE DEF pos, at, fed
  <2>1. r.buffer = [j \in 0 .. BlockSize - 1 |-> r.buffer[j]]
    BY <1>3 DEF Block
  <2>2. buffer[k] = IF k = pos THEN Marker ELSE r.buffer[k]
    BY <2>1, <1>2
  <2>3. k < pos => k # pos
    BY <1>2
  <2> QED BY <2>2, <2>3, <1>3
<1> HIDE DEF at, fed, buffer, q, pos, call, N, overflows
<1>7. /\ q \in Inner /\ q.h = r.h /\ q.fed = fed /\ q.data = << >>
      /\ q.settings = r.settings /\ q.found_collision = r.found_collision
      /\ q.len = r.len /\ q.buffer = buffer /\ q.call = call
  <2>1. call \in Calls
    BY DEF call, Calls
  <2> QED BY <2>1, <1>1, <1>3, <1>4, <1>5 DEF Inner, fed
<1>8. /\ PaddedBlocks(fed) = IF overflows THEN N + 2 ELSE N + 1
      /\ \A k \in 0 .. BlockSize - 1 :
           k < BlockSize - LengthSize \/ overflows =>
             PaddedByte(fed, at + k) =
               IF k < pos THEN fed[at + k + 1]
               ELSE IF k = pos THEN Marker ELSE 0
  <2>1. /\ N * BlockSize + pos = Len(fed) /\ N \in Nat
        /\ pos \in 0 .. BlockSize - 1 /\ fed \in Seq(Byte)
    BY <1>2, <1>3 DEF at
  <2>2. PaddedBlocks(fed) = IF overflows THEN N + 2 ELSE N + 1
    BY <2>1, PaddingShape DEF overflows
  <2>3. \A k \in 0 .. BlockSize - 1 :
          k < BlockSize - LengthSize \/ pos + 1 > BlockSize - LengthSize =>
            PaddedByte(fed, N * BlockSize + k) =
              IF k < pos THEN fed[N * BlockSize + k + 1]
              ELSE IF k = pos THEN Marker ELSE 0
    BY <2>1, PaddingShape
  <2> QED BY <2>2, <2>3 DEF at, overflows
<1>9. BufferInv(q)
  <2>1. Len(q.h) = N /\ Len(q.h) * BlockSize = at
    BY <1>7 DEF at, N
  <2>2. ASSUME call = "overflow"
        PROVE  /\ at <= Len(fed) /\ Len(fed) < at + BlockSize
               /\ PaddedBlocks(fed) = N + 2
               /\ \A k \in 0 .. BlockSize - 1 :
                    buffer[k] = PaddedByte(fed, at + k)
    <3>1. overflows
      BY <2>2 DEF call
    <3>2. at <= Len(fed) /\ Len(fed) < at + BlockSize
      BY <1>2
    <3> QED BY <3>1, <3>2, <1>6, <1>8
  <2>3. ASSUME call = "length"
        PROVE  /\ Len(fed) + LengthSize < at + BlockSize
               /\ PaddedBlocks(fed) = N + 1
               /\ \A k \in 0 .. BlockSize - LengthSize - 1 :
                    buffer[k] = PaddedByte(fed, at + k)
    <3>1. ~ overflows
      BY <2>3 DEF call
    <3>2. ~ (pos + 1 > BlockSize - LengthSize)
      BY <3>1 DEF overflows
    <3>3. Len(fed) + LengthSize < at + BlockSize
      BY <3>2, <1>2
    <3>4. \A k \in 0 .. BlockSize - LengthSize - 1 :
            k \in 0 .. BlockSize - 1 /\ k < BlockSize - LengthSize
      BY <1>2
    <3> QED BY <3>1, <3>3, <3>4, <1>6, <1>8
  <2>4. call \in {"overflow", "length"}
    BY DEF call
  <2> QED BY <2>1, <2>2, <2>3, <2>4, <1>7 DEF BufferInv
<1>10. DataInv(q)
  BY <1>2, <1>7, EmptySeq DEF DataInv
<1>11. ChainOf(q.settings, q.fed, q.h, q.found_collision)
  BY <1>3, <1>7 DEF fed
<1>12. q.call \in {"overflow", "length"}
  BY <1>7 DEF call
<1> QED BY <1>3, <1>7, <1>9, <1>10, <1>11, <1>12 DEF InnerInv, q, fed

(* The block without the length is the last but one of the padded message. *)
LEMMA FlushMarkerInv ==
  ASSUME NEW r, InnerInv(r), r.call = "overflow"
  PROVE  LET q == FlushMarker(r)
         IN  InnerInv(q) /\ (r.found_collision => q.found_collision)
                         /\ q.settings = r.settings /\ q.fed = r.fed
<1> DEFINE c == Compress(r, r.buffer)
           q == FlushMarker(r)
           N == Len(r.h)
           at == N * BlockSize
           fed == r.fed
<1>1. r \in Inner
  BY DEF InnerInv
<1>2. /\ at \in Nat /\ N \in Nat /\ BlockSize \in Nat /\ Len(fed) \in Nat
      /\ at <= Len(fed) /\ Len(fed) < at + BlockSize
      /\ (N + 1) * BlockSize = at + BlockSize
      /\ LengthSize \in Nat /\ LengthSize < BlockSize
      /\ PaddedBlocks(fed) = N + 2
  BY <1>1, InnerFacts, SizesAssumption DEF InnerInv, BufferInv
<1>3. /\ fed \in Seq(Byte) /\ r.buffer \in Block /\ r.data = << >>
      /\ ChainOf(r.settings, r.fed, r.h, r.found_collision)
      /\ \A k \in 0 .. BlockSize - 1 : r.buffer[k] = PaddedByte(fed, at + k)
  BY <1>1, InnerFacts DEF InnerInv, BufferInv, DataInv
<1> HIDE DEF at, fed, c, q
<1>4. /\ c \in Inner /\ Len(c.h) = N + 1
      /\ ChainOf(c.settings, c.fed, c.h, c.found_collision)
      /\ c.settings = r.settings /\ c.fed = r.fed /\ c.len = r.len
      /\ c.data = r.data /\ c.resets = r.resets
      /\ r.found_collision => c.found_collision
  BY <1>1, <1>3, CompressInv DEF c, at, fed
<1>5. /\ q \in Inner /\ q.h = c.h /\ q.fed = fed /\ q.data = << >>
      /\ q.settings = c.settings /\ q.found_collision = c.found_collision
      /\ q.len = r.len /\ q.buffer = ZeroBlock /\ q.call = "length"
  BY <1>3, <1>4, ZeroBlockType DEF q, c, FlushMarker, Inner, Calls, fed
<1>6. DataInv(q)
  BY <1>2, <1>5, EmptySeq DEF DataInv
<1>7. \A k \in 0 .. BlockSize - LengthSize - 1 :
        PaddedByte(fed, at + BlockSize + k) = 0
  <2> SUFFICES ASSUME NEW k \in 0 .. BlockSize - LengthSize - 1
               PROVE  PaddedByte(fed, at + BlockSize + k) = 0
    OBVIOUS
  <2>1. PaddedBlocks(fed) * BlockSize = at + BlockSize + BlockSize
    <3>1. ((N + 1) + 1) * BlockSize = (N + 1) * BlockSize + BlockSize
      BY <1>2, TimesSuccessor
    <3>2. (N + 1) + 1 = N + 2
      BY <1>2
    <3> QED BY <3>1, <3>2, <1>2
  <2>2. /\ ~ (at + BlockSize + k < Len(fed))
        /\ at + BlockSize + k # Len(fed)
        /\ ~ (at + BlockSize + k
                >= (at + BlockSize + BlockSize) - LengthSize)
    BY <1>2
  <2> QED BY <2>1, <2>2 DEF PaddedByte
<1>8. BufferInv(q)
  <2>1. /\ Len(q.h) * BlockSize = at + BlockSize
        /\ PaddedBlocks(fed) = Len(q.h) + 1
    <3>1. Len(q.h) = N + 1
      BY <1>4, <1>5
    <3> HIDE DEF N
    <3> QED BY <3>1, <1>2
  <2>2. Len(fed) + LengthSize < (at + BlockSize) + BlockSize
    BY <1>2
  <2>3. \A k \in 0 .. BlockSize - LengthSize - 1 : ZeroBlock[k] = 0
    BY <1>2 DEF ZeroBlock
  <2> QED BY <2>1, <2>2, <2>3, <1>5, <1>7 DEF BufferInv
<1>9. ChainOf(q.settings, q.fed, q.h, q.found_collision)
  BY <1>4, <1>5 DEF fed
<1>10. q.len = Len(q.fed) % LenMod
  BY <1>5 DEF InnerInv, fed
<1> QED BY <1>4, <1>5, <1>6, <1>8, <1>9, <1>10 DEF InnerInv, q, fed

(* With the length in it the buffer is the last block of the padded        *)
(* message, so what is returned is the digest of the message.              *)
LEMMA CompressLastInv ==
  ASSUME NEW r, InnerInv(r), r.call = "length"
  PROVE  LET q == CompressLast(r)
         IN  /\ q \in Inner /\ q.data = << >>
             /\ q.settings = r.settings /\ q.fed = r.fed
             /\ ResultInv(ResultOf(q))
             /\ ResultOf(q).settings = r.settings
             /\ ResultOf(q).message = r.fed
<1> DEFINE q == CompressLast(r)
           N == Len(r.h)
           at == N * BlockSize
           fed == r.fed
           len == r.len
           bitLen == (len * BitsPerByte) % LenMod
           lengthAt == BlockSize - LengthSize
           last == [k \in 0 .. BlockSize - 1 |->
                      IF k >= lengthAt THEN LengthByte(bitLen, k - lengthAt)
                      ELSE r.buffer[k]]
           rr == [r EXCEPT !.buffer = last]
<1>1. r \in Inner
  BY DEF InnerInv
<1>2. /\ at \in Nat /\ N \in Nat /\ BlockSize \in Nat /\ Len(fed) \in Nat
      /\ Len(fed) + LengthSize < at + BlockSize
      /\ (N + 1) * BlockSize = at + BlockSize
      /\ LengthSize \in Nat \ {0} /\ LengthSize < BlockSize
      /\ PaddedBlocks(fed) = N + 1
      /\ LenMod \in Nat \ {0} /\ BitsPerByte \in Nat
  BY <1>1, InnerFacts, SizesAssumption, LenModAssumption
     DEF InnerInv, BufferInv
<1>3. /\ fed \in Seq(Byte) /\ r.buffer \in Block /\ r.data = << >>
      /\ len = Len(fed) % LenMod
      /\ ChainOf(r.settings, r.fed, r.h, r.found_collision)
      /\ \A k \in 0 .. BlockSize - LengthSize - 1 :
           r.buffer[k] = PaddedByte(fed, at + k)
  BY <1>1, InnerFacts DEF InnerInv, BufferInv, DataInv
<1>4. q = Compress(rr, last)
  BY DEF CompressLast
<1>5. last = [k \in 0 .. BlockSize - 1 |->
                IF k >= lengthAt THEN LengthByte(bitLen, k - lengthAt)
                ELSE r.buffer[k]]
  OBVIOUS
<1> HIDE DEF at, fed, q, len, last, rr
<1>6. /\ bitLen \in Nat
      /\ bitLen = (Len(fed) * BitsPerByte) % LenMod
  <2>1. ((Len(fed) % LenMod) * BitsPerByte) % LenMod
          = (Len(fed) * BitsPerByte) % LenMod
    BY <1>2, ModTimes
  <2>2. bitLen = ((Len(fed) % LenMod) * BitsPerByte) % LenMod
    BY <1>3, Zenon
  <2>3. Len(fed) * BitsPerByte \in Nat
    BY <1>2, TimesSuccessor
  <2>4. (Len(fed) * BitsPerByte) % LenMod \in 0 .. LenMod - 1
    BY <2>3, <1>2, DivMod
  <2> QED BY <2>1, <2>2, <2>4, <1>2
<1> HIDE DEF bitLen
<1>7. ASSUME NEW k \in 0 .. BlockSize - 1
      PROVE  last[k] \in Byte /\ last[k] = PaddedByte(fed, at + k)
  <2>1. CASE k >= lengthAt
    <3>1. /\ k - lengthAt \in 0 .. LengthSize - 1
          /\ ~ (at + k < Len(fed)) /\ at + k # Len(fed)
          /\ at + k >= PaddedBlocks(fed) * BlockSize - LengthSize
          /\ (at + k) - (PaddedBlocks(fed) * BlockSize - LengthSize)
               = k - lengthAt
      <4>1. PaddedBlocks(fed) * BlockSize = at + BlockSize
        BY <1>2
      <4>2. /\ k \in Nat /\ k < BlockSize /\ k - lengthAt \in Nat
            /\ k - lengthAt < LengthSize
        BY <2>1, <1>2
      <4> DEFINE last2 == PaddedBlocks(fed) * BlockSize
      <4> HIDE DEF last2, N
      <4>3. last2 = at + BlockSize
        BY <4>1 DEF last2
      <4>4. /\ ~ (at + k < Len(fed)) /\ at + k # Len(fed)
            /\ at + k >= last2 - LengthSize
            /\ (at + k) - (last2 - LengthSize) = k - lengthAt
        BY <4>2, <4>3, <2>1, <1>2
      <4> QED BY <4>2, <4>4, <1>2 DEF last2
    <3>2. last[k] = LengthByte(bitLen, k - lengthAt)
      BY <2>1, <1>5
    <3>3. LengthByte(bitLen, k - lengthAt) \in Byte
      BY <3>1, <1>6, LengthByteType
    <3>4. PaddedByte(fed, at + k)
            = LengthByte((Len(fed) * BitsPerByte) % LenMod, k - lengthAt)
      <4> HIDE DEF lengthAt
      <4> QED BY <3>1, Zenon DEF PaddedByte
    <3> QED BY <3>2, <3>3, <3>4, <1>6
  <2>2. CASE ~ (k >= lengthAt)
    <3>1. k \in 0 .. BlockSize - LengthSize - 1
      BY <2>2, <1>2
    <3>2. last[k] = r.buffer[k] /\ r.buffer[k] \in Byte
      BY <2>2, <1>3, <1>5 DEF Block
    <3> QED BY <3>1, <3>2, <1>3
  <2> QED BY <2>1, <2>2
<1>8. last \in Block
  BY <1>5, <1>7 DEF Block
<1>9. /\ rr \in Inner /\ rr.settings = r.settings /\ rr.fed = r.fed
      /\ rr.h = r.h /\ rr.found_collision = r.found_collision
      /\ rr.data = r.data
  BY <1>1, <1>8 DEF rr, Inner
<1>10. /\ ChainOf(rr.settings, rr.fed, rr.h, rr.found_collision)
       /\ \A k \in 0 .. BlockSize - 1 :
            last[k] = PaddedByte(rr.fed, Len(rr.h) * BlockSize + k)
  BY <1>3, <1>7, <1>9 DEF at, fed
<1>11. /\ q \in Inner /\ Len(q.h) = N + 1
       /\ ChainOf(q.settings, q.fed, q.h, q.found_collision)
       /\ q.settings = r.settings /\ q.fed = r.fed /\ q.data = << >>
  BY <1>3, <1>4, <1>8, <1>9, <1>10, CompressInv
<1> DEFINE res == ResultOf(q)
<1>12. /\ res.settings = q.settings /\ res.message = q.fed
       /\ res.digest = q.h
       /\ res.kind = IF q.found_collision
                     THEN IF q.settings.safe_hash THEN "Mitigated"
                          ELSE "Collision"
                     ELSE "Ok"
       /\ res = [settings |-> res.settings, message |-> res.message,
                 digest |-> res.digest, kind |-> res.kind]
  BY DEF ResultOf
<1>13. /\ q.settings \in Settings /\ q.fed \in Seq(Byte)
       /\ q.h \in Seq(Compression)
  BY <1>11, InnerFacts
<1> HIDE DEF res
<1>14. res \in Result
  BY <1>12, <1>13 DEF Result
<1>15. IsChainOf(res.settings, res.message, res.digest)
  BY <1>2, <1>11, <1>12 DEF IsChainOf, ChainOf, fed
<1>16. res.kind = ResultKind(res.settings, res.digest)
  BY <1>11, <1>12 DEF ResultKind, ChainOf
<1> QED BY <1>11, <1>12, <1>14, <1>15, <1>16 DEF ResultInv, q, res

-----------------------------------------------------------------------------
(* The invariant of the whole program.                                     *)

(* A step that changes one hasher, and perhaps its last result.            *)
LEMMA OneHasherChanges ==
  ASSUME IInv, NEW i \in DOMAIN hasher, NEW q, InnerInv(q), Becomes(i, q),
         \/ result' = result
         \/ \E x : ResultInv(x) /\ result' = [result EXCEPT ![i] = x]
  PROVE  IInv'
<1>1. i \in Ids /\ DOMAIN hasher' = DOMAIN hasher
  BY DEF IInv, Becomes
<1>2. \A j \in DOMAIN hasher' : InnerInv(hasher'[j])
  BY <1>1 DEF IInv, Becomes
<1>3. /\ DOMAIN result' = Ids
      /\ \A j \in Ids : result'[j] = NoResult \/ ResultInv(result'[j])
  BY <1>1 DEF IInv
<1> QED BY <1>1, <1>2, <1>3 DEF IInv, InnerInv, ResultInv

(* A new hasher beside the others, whose names it does not take.           *)
LEMMA OneHasherMore ==
  ASSUME IInv, NEW i \in Ids, NEW q, InnerInv(q), UNCHANGED result,
         hasher' = [j \in DOMAIN hasher \cup {i} |->
                      IF j = i THEN q ELSE hasher[j]]
  PROVE  IInv'
<1>1. DOMAIN hasher' = DOMAIN hasher \cup {i}
  OBVIOUS
<1>2. \A j \in DOMAIN hasher' : InnerInv(hasher'[j])
  BY <1>1 DEF IInv
<1> QED BY <1>1, <1>2 DEF IInv

LEMMA InitInv == Init => IInv
  BY DEF Init, IInv

(* IInv is inductive: no call of any hasher, at any of its steps, breaks   *)
(* it for that hasher or for another.                                      *)
LEMMA NextInv == IInv /\ [Next]_vars => IInv'
<1> SUFFICES ASSUME IInv, [Next]_vars PROVE IInv'
  OBVIOUS
<1>1. CASE UNCHANGED vars
  BY <1>1 DEF vars, IInv
<1>2. ASSUME NEW i \in Ids, NEW s \in Settings, Build(i, s) PROVE IInv'
  <2>1. InnerInv(New(s))
    BY NewInv
  <2> QED BY <1>2, <2>1, OneHasherMore DEF Build
<1>3. ASSUME NEW i \in Ids, NEW j \in Ids, Clone(i, j) PROVE IInv'
  <2>1. InnerInv(hasher[i])
    BY <1>3 DEF Clone, Idle, IInv
  <2> QED BY <1>3, <2>1, OneHasherMore DEF Clone
<1>4. ASSUME NEW i \in Ids, NEW d \in Data, Update(i, d) PROVE IInv'
  <2>1. /\ i \in DOMAIN hasher /\ InnerInv(hasher[i])
        /\ hasher[i].call = "none" /\ d \in Seq(Byte)
    BY <1>4, InputAssumption DEF Update, Idle, IInv
  <2>2. InnerInv(BeginUpdate(hasher[i], d))
    BY <2>1, BeginUpdateInv
  <2> QED BY <1>4, <2>1, <2>2, OneHasherChanges DEF Update
<1>5. ASSUME NEW i \in Ids, UpdateBuffer(i) PROVE IInv'
  <2>1. /\ i \in DOMAIN hasher /\ InnerInv(hasher[i])
        /\ hasher[i].call = "buffer"
    BY <1>5 DEF UpdateBuffer, InCall, IInv
  <2>2. InnerInv(FlushBuffer(hasher[i]))
    BY <2>1, FlushBufferInv
  <2> QED BY <1>5, <2>1, <2>2, OneHasherChanges DEF UpdateBuffer
<1>6. ASSUME NEW i \in Ids, UpdateBlock(i) PROVE IInv'
  <2>1. /\ i \in DOMAIN hasher /\ InnerInv(hasher[i])
        /\ hasher[i].call = "blocks" /\ Len(hasher[i].data) >= BlockSize
    BY <1>6 DEF UpdateBlock, InCall, IInv
  <2>2. InnerInv(TakeBlock(hasher[i]))
    BY <2>1, TakeBlockInv
  <2> QED BY <1>6, <2>1, <2>2, OneHasherChanges DEF UpdateBlock
<1>7. ASSUME NEW i \in Ids, UpdateRest(i) PROVE IInv'
  <2>1. /\ i \in DOMAIN hasher /\ InnerInv(hasher[i])
        /\ hasher[i].call = "blocks" /\ Len(hasher[i].data) < BlockSize
    BY <1>7 DEF UpdateRest, InCall, IInv
  <2>2. InnerInv(KeepRest(hasher[i]))
    BY <2>1, KeepRestInv
  <2> QED BY <1>7, <2>1, <2>2, OneHasherChanges DEF UpdateRest
<1>8. ASSUME NEW i \in Ids, ResetHasher(i) PROVE IInv'
  <2>1. /\ i \in DOMAIN hasher /\ hasher[i] \in Inner
        /\ hasher[i].data = << >> /\ hasher[i].settings \in Settings
    BY <1>8, InnerFacts DEF ResetHasher, Idle, IInv, InnerInv, DataInv
  <2>2. InnerInv(Reset(hasher[i]))
    BY <2>1, ResetIsNew, NewInv
  <2> QED BY <1>8, <2>1, <2>2, OneHasherChanges DEF ResetHasher
<1>9. ASSUME NEW i \in Ids, NEW resets \in BOOLEAN, Finalize(i, resets)
      PROVE  IInv'
  <2>1. /\ i \in DOMAIN hasher /\ InnerInv(hasher[i])
        /\ hasher[i].call = "none"
    BY <1>9 DEF Finalize, Idle, IInv
  <2>2. InnerInv(BeginFinalize(hasher[i], resets))
    BY <2>1, BeginFinalizeInv
  <2> QED BY <1>9, <2>1, <2>2, OneHasherChanges DEF Finalize
<1>10. ASSUME NEW i \in Ids, FinalizeOverflow(i) PROVE IInv'
  <2>1. /\ i \in DOMAIN hasher /\ InnerInv(hasher[i])
        /\ hasher[i].call = "overflow"
    BY <1>10 DEF FinalizeOverflow, InCall, IInv
  <2>2. InnerInv(FlushMarker(hasher[i]))
    BY <2>1, FlushMarkerInv
  <2> QED BY <1>10, <2>1, <2>2, OneHasherChanges DEF FinalizeOverflow
<1>11. ASSUME NEW i \in Ids, FinalizeReturn(i) PROVE IInv'
  <2>1. /\ i \in DOMAIN hasher /\ InnerInv(hasher[i])
        /\ hasher[i].call = "length"
    BY <1>11 DEF FinalizeReturn, InCall, IInv
  <2>2. ResultInv(ResultOf(CompressLast(hasher[i])))
    BY <2>1, CompressLastInv
  <2>3. /\ DOMAIN hasher' \subseteq Ids
        /\ \A j \in DOMAIN hasher' : InnerInv(hasher'[j])
    BY <1>11 DEF FinalizeReturn, IInv
  <2>4. /\ DOMAIN result' = Ids
        /\ \A j \in Ids : result'[j] = NoResult \/ ResultInv(result'[j])
    BY <1>11, <2>2 DEF FinalizeReturn, IInv
  <2> QED BY <2>3, <2>4 DEF IInv
<1>12. ASSUME NEW i \in Ids, FinalizeResetReturn(i) PROVE IInv'
  <2>1. /\ i \in DOMAIN hasher /\ InnerInv(hasher[i])
        /\ hasher[i].call = "length"
    BY <1>12 DEF FinalizeResetReturn, InCall, IInv
  <2>2. /\ ResultInv(ResultOf(CompressLast(hasher[i])))
        /\ CompressLast(hasher[i]) \in Inner
        /\ CompressLast(hasher[i]).data = << >>
    BY <2>1, CompressLastInv
  <2>3. InnerInv(Reset(CompressLast(hasher[i])))
    BY <2>2, ResetIsNew, NewInv, InnerFacts
  <2> QED BY <1>12, <2>1, <2>2, <2>3, OneHasherChanges
          DEF FinalizeResetReturn
<1> QED BY <1>1, <1>2, <1>3, <1>4, <1>5, <1>6, <1>7, <1>8, <1>9, <1>10,
           <1>11, <1>12 DEF Next

(* Every reachable state satisfies the inductive invariant.                *)
THEOREM SpecIInv == Spec => []IInv
  BY InitInv, NextInv, PTL DEF Spec

-----------------------------------------------------------------------------
(* What the invariant says of the program.                                 *)

(* Every reachable state has its type.                                     *)
THEOREM SpecTypeOK == Spec => []TypeOK
<1>1. IInv => TypeOK
  BY DEF IInv, TypeOK, InnerInv, ResultInv
<1> QED BY <1>1, SpecIInv, PTL

(* Between two calls the buffer holds the tail of the message and zeros.   *)
THEOREM SpecBufferHoldsTail == Spec => []BufferHoldsTail
<1>1. IInv => BufferHoldsTail
  <2> SUFFICES ASSUME IInv, NEW i \in DOMAIN hasher,
                      hasher[i].call = "none"
               PROVE  LET r == hasher[i]
                      IN  /\ Buffered(r) = Len(r.fed) - Len(r.h) * BlockSize
                          /\ \A k \in 0 .. BlockSize - 1 :
                               r.buffer[k] =
                                 IF k < Buffered(r)
                                 THEN r.fed[Len(r.h) * BlockSize + k + 1]
                                 ELSE 0
    BY DEF BufferHoldsTail
  <2> DEFINE r == hasher[i]
             at == Len(r.h) * BlockSize
             pos == Buffered(r)
             size == Len(r.fed)
  <2>1. InnerInv(r) /\ r \in Inner
    BY DEF IInv, InnerInv
  <2>2. /\ at \in Nat /\ pos \in Nat /\ size \in Nat /\ at + pos = size
        /\ \A k \in 0 .. BlockSize - 1 :
             r.buffer[k] = IF k < pos THEN r.fed[at + k + 1] ELSE 0
    BY <2>1, InnerFacts DEF InnerInv, BufferInv
  <2> HIDE DEF at, pos, size
  <2>3. pos = size - at
    BY <2>2
  <2> QED BY <2>2, <2>3 DEF at, pos, size
<1> QED BY <1>1, SpecIInv, PTL

(* The blocks compressed are those of the padded message, at every step.   *)
THEOREM SpecChainHoldsBlocks == Spec => []ChainHoldsBlocks
<1>1. IInv => ChainHoldsBlocks
  BY DEF IInv, InnerInv, ChainOf, ChainHoldsBlocks
<1> QED BY <1>1, SpecIInv, PTL

(* A hasher knows of an attack exactly when one of its blocks was flagged, *)
(* and mitigated exactly the flagged blocks.                               *)
THEOREM SpecFoundMatchesChain == Spec => []FoundMatchesChain
<1>1. IInv => FoundMatchesChain
  BY DEF IInv, InnerInv, ChainOf, FoundMatchesChain
<1> QED BY <1>1, SpecIInv, PTL

LEMMA BlocksEqual ==
  ASSUME NEW a \in Block, NEW b \in Block,
         \A k \in 0 .. BlockSize - 1 : a[k] = b[k]
  PROVE  a = b
<1>1. /\ a = [k \in 0 .. BlockSize - 1 |-> a[k]]
      /\ b = [k \in 0 .. BlockSize - 1 |-> b[k]]
  BY DEF Block
<1> QED BY <1>1

(* Settings, message and length determine a chain and its flag.            *)
LEMMA ChainIsUnique ==
  ASSUME NEW s, NEW m, NEW a \in Seq(Compression), NEW b \in Seq(Compression),
         Len(a) = Len(b), NEW f \in BOOLEAN, NEW g \in BOOLEAN,
         ChainOf(s, m, a, f), ChainOf(s, m, b, g)
  PROVE  a = b /\ f = g
<1> DEFINE N == Len(a)
           D == {n \in 1 .. N : a[n] # b[n]}
<1>1. N \in Nat /\ D \in SUBSET Nat
  BY LenProperties
<1>2. ASSUME NEW n \in 1 .. N, \A k \in 1 .. n - 1 : a[k] = b[k]
      PROVE  /\ a[n] = b[n]
             /\ FlaggedAt(s, a, n) <=> FlaggedAt(s, b, n)
  <2>1. SubSeq(a, 1, n - 1) = SubSeq(b, 1, n - 1)
    <3>1. \A j \in 1 .. n - 1 :
            a[j] \in Compression /\ b[j] \in Compression /\ a[j] = b[j]
      BY <1>1, <1>2, ElementOfSeq
    <3>2. n - 1 \in Int /\ 1 \in Int
      BY <1>1
    <3>3. /\ SubSeq(a, 1, n - 1) \in Seq(Compression)
          /\ SubSeq(b, 1, n - 1) \in Seq(Compression)
          /\ Len(SubSeq(a, 1, n - 1)) = Len(SubSeq(b, 1, n - 1))
          /\ Len(SubSeq(a, 1, n - 1)) = n - 1
          /\ \A j \in 1 .. n - 1 : SubSeq(a, 1, n - 1)[j] = a[j]
          /\ \A j \in 1 .. n - 1 : SubSeq(b, 1, n - 1)[j] = b[j]
      BY <3>1, <3>2, SubSeqProperties
    <3> QED BY <3>1, <3>3, SeqEqual
  <2>2. a[n] \in Compression /\ b[n] \in Compression
    BY <1>1, ElementOfSeq
  <2>3. a[n].block = b[n].block
    <3>1. \A k \in 0 .. BlockSize - 1 : a[n].block[k] = b[n].block[k]
      BY DEF ChainOf
    <3>2. a[n].block \in Block /\ b[n].block \in Block
      BY <2>2 DEF Compression
    <3> QED BY <3>1, <3>2, BlocksEqual
  <2>4. FlaggedAt(s, a, n) <=> FlaggedAt(s, b, n)
    BY <2>1, <2>3 DEF FlaggedAt
  <2>5. a[n].times = b[n].times
    BY <2>4 DEF ChainOf, TimesAt
  <2> QED BY <2>2, <2>3, <2>4, <2>5 DEF Compression
<1>3. D = {}
  <2> SUFFICES ASSUME D # {} PROVE FALSE
    OBVIOUS
  <2>1. PICK n \in D : \A k \in D : n <= k
    BY <1>1, LeastElement
  <2>2. \A k \in 1 .. n - 1 : k \in 1 .. N /\ ~ (n <= k)
    BY <1>1
  <2>3. \A k \in 1 .. n - 1 : a[k] = b[k]
    BY <2>1, <2>2
  <2> QED BY <2>3, <1>2
<1>4. a = b
  BY <1>3, SeqEqual
<1>5. f <=> g
  BY <1>4 DEF ChainOf
<1> QED BY <1>4, <1>5

(* However a message was split into updates, and whatever a hasher was     *)
(* reset from or cloned from: same settings and message, same state.       *)
THEOREM SpecSameMessageSameState == Spec => []SameMessageSameState
<1>1. IInv => SameMessageSameState
  <2> SUFFICES ASSUME IInv, NEW i \in DOMAIN hasher, NEW j \in DOMAIN hasher,
                      hasher[i].call = "none", hasher[j].call = "none",
                      hasher[i].settings = hasher[j].settings,
                      hasher[i].fed = hasher[j].fed
               PROVE  hasher[i] = hasher[j]
    BY DEF SameMessageSameState
  <2> DEFINE r == hasher[i]
             q == hasher[j]
  <2>1. InnerInv(r) /\ InnerInv(q) /\ r \in Inner /\ q \in Inner
    BY DEF IInv, InnerInv
  <2> DEFINE fed == r.fed
             M == Len(r.h)
             N == Len(q.h)
             pos == Buffered(r)
  <2>2. /\ r.len = q.len /\ Buffered(q) = pos
        /\ r.resets = q.resets /\ r.data = q.data
    BY <2>1, InnerFacts DEF InnerInv, DataInv, Buffered
  <2>3. /\ M \in Nat /\ N \in Nat /\ pos \in 0 .. BlockSize - 1
        /\ M * BlockSize + pos = Len(fed)
        /\ N * BlockSize + pos = Len(fed)
    BY <2>1, <2>2, InnerFacts DEF InnerInv, BufferInv
  <2>4. M = N
    <3> HIDE DEF M, N, pos, fed
    <3>1. /\ (M * BlockSize + pos) \div BlockSize = M
          /\ (N * BlockSize + pos) \div BlockSize = N
      BY <2>3, DivModUnique, SizesAssumption
    <3>2. M * BlockSize + pos = N * BlockSize + pos
      BY <2>3
    <3> QED BY <3>1, <3>2
  <2>5. r.h = q.h /\ r.found_collision = q.found_collision
    <3>1. /\ r.h \in Seq(Compression) /\ q.h \in Seq(Compression)
          /\ r.found_collision \in BOOLEAN /\ q.found_collision \in BOOLEAN
          /\ ChainOf(r.settings, fed, r.h, r.found_collision)
          /\ ChainOf(r.settings, fed, q.h, q.found_collision)
      BY <2>1, InnerFacts DEF InnerInv
    <3> HIDE DEF r, q, fed
    <3> QED BY <2>4, <3>1, ChainIsUnique DEF M, N
  <2>6. r.buffer = q.buffer
    <3>1. \A k \in 0 .. BlockSize - 1 : r.buffer[k] = q.buffer[k]
      BY <2>1, <2>2, <2>4 DEF InnerInv, BufferInv
    <3>2. r.buffer \in Block /\ q.buffer \in Block
      BY <2>1, InnerFacts
    <3> QED BY <3>1, <3>2, BlocksEqual
  <2> QED BY <2>1, <2>2, <2>5, <2>6, InnerEqual
<1> QED BY <1>1, SpecIInv, PTL

(* The two hashers give a message one digest exactly when the mitigating   *)
(* one reports no attack: what one of them compresses once the other       *)
(* compresses once or three times, and one or the other decides it.        *)
THEOREM SpecHashersAgreeUnlessFlagged == Spec => []HashersAgreeUnlessFlagged
<1>1. IInv => HashersAgreeUnlessFlagged
  <2> SUFFICES ASSUME IInv, NEW r \in Returned, NEW q \in Returned,
                      r.message = q.message,
                      ~ r.settings.safe_hash, q.settings.safe_hash
               PROVE  r.digest = q.digest <=> q.kind = "Ok"
    BY DEF HashersAgreeUnlessFlagged
  <2> DEFINE N == Len(q.digest)
             flagged(n) == FlaggedAt(q.settings, q.digest, n)
  <2>1. ResultInv(r) /\ ResultInv(q)
    BY DEF IInv, Returned
  <2>2. /\ r.digest \in Seq(Compression) /\ q.digest \in Seq(Compression)
        /\ Len(r.digest) = N
        /\ \A n \in 1 .. N : r.digest[n].times = 1
        /\ \A n \in 1 .. N :
             q.digest[n].times = IF flagged(n) THEN 3 ELSE 1
    <3>1. r.digest \in Seq(Compression) /\ q.digest \in Seq(Compression)
      BY <2>1 DEF ResultInv, Result
    <3>2. Len(r.digest) = N
      BY <2>1 DEF ResultInv, IsChainOf
    <3>3. \A n \in 1 .. N : r.digest[n].times = 1
      BY <2>1, <3>2 DEF ResultInv, IsChainOf, TimesAt
    <3>4. ASSUME NEW n \in 1 .. N
          PROVE  q.digest[n].times = IF flagged(n) THEN 3 ELSE 1
      <4>1. q.digest[n].times = TimesAt(q.settings, q.digest, n)
        BY <2>1 DEF ResultInv, IsChainOf
      <4> QED BY <4>1 DEF TimesAt
    <3> QED BY <3>1, <3>2, <3>3, <3>4
  <2>3. q.kind = "Ok" <=> \A n \in 1 .. N : ~ flagged(n)
    BY <2>1 DEF ResultInv, ResultKind
  <2>4. ASSUME r.digest = q.digest PROVE \A n \in 1 .. N : ~ flagged(n)
    BY <2>2, <2>4
  <2>5. ASSUME \A n \in 1 .. N : ~ flagged(n) PROVE r.digest = q.digest
    <3>1. ASSUME NEW n \in 1 .. N PROVE r.digest[n] = q.digest[n]
      <4>1. r.digest[n] \in Compression /\ q.digest[n] \in Compression
        BY <2>2, ElementOfSeq
      <4>2. \A k \in 0 .. BlockSize - 1 :
              r.digest[n].block[k] = q.digest[n].block[k]
        BY <2>1, <2>2 DEF ResultInv, IsChainOf
      <4>3. r.digest[n].block = q.digest[n].block
        BY <4>1, <4>2, BlocksEqual DEF Compression
      <4>4. r.digest[n].times = q.digest[n].times
        BY <2>2, <2>5
      <4> QED BY <4>1, <4>3, <4>4 DEF Compression
    <3> QED BY <2>2, <3>1, SeqEqual
  <2> QED BY <2>3, <2>4, <2>5
<1> QED BY <1>1, SpecIInv, PTL


(* collision_detected() stays true until the data is taken back to none.   *)
THEOREM SpecAttackIsRemembered == Spec => AttackIsRemembered
<1> DEFINE Remembers ==
             \A i \in DOMAIN hasher \cap DOMAIN hasher' :
               hasher[i].found_collision /\ ~ hasher'[i].found_collision
                 => hasher'[i] = New(hasher[i].settings)
<1>1. ASSUME IInv, [Next]_vars PROVE Remembers
  <2>1. ASSUME NEW i \in DOMAIN hasher, NEW q, Becomes(i, q),
               \/ hasher[i].found_collision => q.found_collision
               \/ q = New(hasher[i].settings)
        PROVE  Remembers
    BY <2>1 DEF Becomes
  <2>2. ASSUME \A i \in DOMAIN hasher \cap DOMAIN hasher' :
                 hasher'[i] = hasher[i]
        PROVE  Remembers
    BY <2>2
  <2>3. \A i \in DOMAIN hasher : InnerInv(hasher[i]) /\ hasher[i] \in Inner
    BY <1>1 DEF IInv, InnerInv
  <2> HIDE DEF Remembers
  <2>4. CASE UNCHANGED vars
    BY <2>2, <2>4 DEF vars
  <2>5. ASSUME NEW i \in Ids, NEW s \in Settings, Build(i, s)
        PROVE  Remembers
    BY <2>2, <2>5 DEF Build
  <2>6. ASSUME NEW i \in Ids, NEW j \in Ids, Clone(i, j) PROVE Remembers
    BY <2>2, <2>6 DEF Clone
  <2>7. ASSUME NEW i \in Ids, NEW d \in Data, Update(i, d) PROVE Remembers
    <3>1. d \in Seq(Byte) /\ i \in DOMAIN hasher /\ hasher[i].call = "none"
      BY <2>7, InputAssumption DEF Update, Idle
    <3> QED BY <2>1, <2>3, <2>7, <3>1, BeginUpdateInv DEF Update
  <2>8. ASSUME NEW i \in Ids, UpdateBuffer(i) PROVE Remembers
    BY <2>1, <2>3, <2>8, FlushBufferInv DEF UpdateBuffer, InCall
  <2>9. ASSUME NEW i \in Ids, UpdateBlock(i) PROVE Remembers
    BY <2>1, <2>3, <2>9, TakeBlockInv DEF UpdateBlock, InCall
  <2>10. ASSUME NEW i \in Ids, UpdateRest(i) PROVE Remembers
    BY <2>1, <2>3, <2>10, KeepRestInv DEF UpdateRest, InCall
  <2>11. ASSUME NEW i \in Ids, ResetHasher(i) PROVE Remembers
    <3>1. i \in DOMAIN hasher /\ hasher[i].data = << >>
      BY <2>3, <2>11 DEF ResetHasher, Idle, InnerInv, DataInv
    <3> QED BY <2>1, <2>3, <2>11, <3>1, ResetIsNew DEF ResetHasher
  <2>12. ASSUME NEW i \in Ids, NEW resets \in BOOLEAN, Finalize(i, resets)
         PROVE  Remembers
    BY <2>1, <2>3, <2>12, BeginFinalizeInv DEF Finalize, Idle
  <2>13. ASSUME NEW i \in Ids, FinalizeOverflow(i) PROVE Remembers
    BY <2>1, <2>3, <2>13, FlushMarkerInv DEF FinalizeOverflow, InCall
  <2>14. ASSUME NEW i \in Ids, FinalizeReturn(i) PROVE Remembers
    BY <2>2, <2>14 DEF FinalizeReturn
  <2>15. ASSUME NEW i \in Ids, FinalizeResetReturn(i) PROVE Remembers
    <3>1. /\ i \in DOMAIN hasher /\ hasher[i].call = "length"
          /\ Becomes(i, Reset(CompressLast(hasher[i])))
      BY <2>15 DEF FinalizeResetReturn, InCall
    <3>2. Reset(CompressLast(hasher[i])) = New(hasher[i].settings)
      BY <2>3, <3>1, CompressLastInv, ResetIsNew
    <3> QED BY <2>1, <3>1, <3>2
  <2> QED BY <1>1, <2>4, <2>5, <2>6, <2>7, <2>8, <2>9, <2>10, <2>11, <2>12,
             <2>13, <2>14, <2>15 DEF Next
<1>2. IInv /\ [Next]_vars => [Remembers]_vars
  BY <1>1
<1> QED BY <1>2, SpecIInv, PTL DEF Spec, AttackIsRemembered

-----------------------------------------------------------------------------
(***************************************************************************)
(* Hasher implements HashSpec: the initial states map to its initial       *)
(* states, and every step of every call maps to a step of it or changes    *)
(* nothing it can see.  A message reaches HashSpec as soon as update has   *)
(* been called, and a digest when the finalization returns.                *)
(***************************************************************************)

(* What HashSpec sees of the hashers.                                      *)
SettingsSeen == [i \in DOMAIN hasher |-> hasher[i].settings]
MessageSeen == [i \in DOMAIN hasher |-> hasher[i].fed]

(* The definitions HashSpec shares with Hasher mean the same in both.      *)
LEMMA SameReference ==
  ASSUME NEW s, NEW m, NEW c
  PROVE  /\ Abstract!IsChainOf(s, m, c) <=> IsChainOf(s, m, c)
         /\ Abstract!ResultKind(s, c) = ResultKind(s, c)
<1>1. Abstract!PaddedBlocks(m) = PaddedBlocks(m)
  BY DEF Abstract!PaddedBlocks, PaddedBlocks
<1>2. \A k : Abstract!PaddedByte(m, k) = PaddedByte(m, k)
  BY <1>1 DEF Abstract!PaddedByte, PaddedByte, Abstract!Marker, Marker,
              Abstract!LengthByte, LengthByte
<1>3. \A n : Abstract!FlaggedAt(s, c, n) <=> FlaggedAt(s, c, n)
  BY Zenon DEF Abstract!FlaggedAt, FlaggedAt
<1>4. \A n : Abstract!TimesAt(s, c, n) = TimesAt(s, c, n)
  BY <1>3 DEF Abstract!TimesAt, TimesAt
<1> QED BY <1>1, <1>2, <1>3, <1>4
        DEF Abstract!IsChainOf, IsChainOf, Abstract!ResultKind, ResultKind

LEMMA ResultSeen ==
  ASSUME NEW r, ResultInv(r)
  PROVE  Abstract!IsResultOf(r.settings, r.message, r)
  BY SameReference DEF ResultInv, Abstract!IsResultOf

(* A step of one hasher, as HashSpec sees it.                              *)
LEMMA OneHasherSeen ==
  ASSUME NEW i \in DOMAIN hasher, NEW q, Becomes(i, q),
         q.settings = hasher[i].settings
  PROVE  /\ SettingsSeen' = SettingsSeen
         /\ MessageSeen' = [MessageSeen EXCEPT ![i] = q.fed]
         /\ q.fed = hasher[i].fed => MessageSeen' = MessageSeen
         /\ i \in DOMAIN MessageSeen
         /\ MessageSeen[i] = hasher[i].fed
         /\ SettingsSeen[i] = hasher[i].settings
  BY DEF Becomes, SettingsSeen, MessageSeen

LEMMA InitSeen == Init => Abstract!SpecInit
  BY DEF Init, Abstract!SpecInit

(* Every step is a step of HashSpec or invisible to it.                    *)
LEMMA NextSeen ==
  IInv /\ [Next]_vars => [Abstract!SpecNext]_(Abstract!specVars)
<1> SUFFICES ASSUME IInv, [Next]_vars
             PROVE  \/ Abstract!SpecNext
                    \/ /\ SettingsSeen' = SettingsSeen
                       /\ MessageSeen' = MessageSeen
                       /\ result' = result
  BY DEF Abstract!specVars, SettingsSeen, MessageSeen
<1> DEFINE Seen == \/ Abstract!SpecNext
                   \/ /\ SettingsSeen' = SettingsSeen
                      /\ MessageSeen' = MessageSeen
                      /\ result' = result
<1>a. \A i \in DOMAIN hasher : InnerInv(hasher[i]) /\ hasher[i] \in Inner
  BY DEF IInv, InnerInv
<1>1. CASE UNCHANGED vars
  BY <1>1 DEF vars, SettingsSeen, MessageSeen
<1>2. ASSUME NEW i \in Ids, NEW s \in Settings, Build(i, s) PROVE Seen
  <2>1. Abstract!SpecBuild(i, s)
    BY <1>2 DEF Build, Abstract!SpecBuild, New
  <2> QED BY <2>1 DEF Abstract!SpecNext
<1>3. ASSUME NEW i \in Ids, NEW j \in Ids, Clone(i, j) PROVE Seen
  <2>1. Abstract!SpecClone(i, j)
    BY <1>3 DEF Clone, Idle, Abstract!SpecClone
  <2> QED BY <2>1 DEF Abstract!SpecNext
<1>4. ASSUME NEW i \in Ids, NEW d \in Data, Update(i, d) PROVE Seen
  <2>1. /\ i \in DOMAIN hasher /\ d \in Seq(Byte)
        /\ hasher[i].call = "none"
        /\ Becomes(i, BeginUpdate(hasher[i], d)) /\ result' = result
    BY <1>4, InputAssumption DEF Update, Idle
  <2>2. /\ BeginUpdate(hasher[i], d).settings = hasher[i].settings
        /\ BeginUpdate(hasher[i], d).fed = hasher[i].fed \o d
    BY <1>a, <2>1, BeginUpdateInv
  <2> DEFINE q == BeginUpdate(hasher[i], d)
  <2>a. i \in DOMAIN hasher /\ Becomes(i, q) /\ q.settings = hasher[i].settings
    BY <2>1, <2>2
  <2>b. q.fed = hasher[i].fed \o d
    BY <2>2
  <2> HIDE DEF q
  <2>c. /\ SettingsSeen' = SettingsSeen /\ i \in DOMAIN MessageSeen
        /\ MessageSeen[i] = hasher[i].fed
        /\ MessageSeen' = [MessageSeen EXCEPT ![i] = q.fed]
    BY <2>a, OneHasherSeen
  <2>3. /\ SettingsSeen' = SettingsSeen /\ i \in DOMAIN MessageSeen
        /\ MessageSeen' = [MessageSeen EXCEPT ![i] = @ \o d]
    BY <2>b, <2>c, Zenon
  <2>4. Abstract!SpecUpdate(i, d)
    BY <2>1, <2>3 DEF Abstract!SpecUpdate, SettingsSeen, MessageSeen
  <2> QED BY <2>4 DEF Abstract!SpecNext
<1>5. ASSUME NEW i \in Ids, UpdateBuffer(i) PROVE Seen
  BY <1>5, <1>a, FlushBufferInv, OneHasherSeen DEF UpdateBuffer, InCall
<1>6. ASSUME NEW i \in Ids, UpdateBlock(i) PROVE Seen
  BY <1>6, <1>a, TakeBlockInv, OneHasherSeen DEF UpdateBlock, InCall
<1>7. ASSUME NEW i \in Ids, UpdateRest(i) PROVE Seen
  BY <1>7, <1>a, KeepRestInv, OneHasherSeen DEF UpdateRest, InCall
<1>8. ASSUME NEW i \in Ids, ResetHasher(i) PROVE Seen
  <2>1. /\ i \in DOMAIN hasher /\ Becomes(i, Reset(hasher[i]))
        /\ hasher[i].data = << >> /\ result' = result
    BY <1>8, <1>a DEF ResetHasher, Idle, InnerInv, DataInv
  <2>2. /\ Reset(hasher[i]).settings = hasher[i].settings
        /\ Reset(hasher[i]).fed = << >>
    BY <2>1, <1>a, ResetIsNew DEF New
  <2>3. /\ SettingsSeen' = SettingsSeen /\ i \in DOMAIN MessageSeen
        /\ MessageSeen' = [MessageSeen EXCEPT ![i] = << >>]
    BY <2>1, <2>2, OneHasherSeen
  <2>4. Abstract!SpecReset(i)
    BY <2>1, <2>3 DEF Abstract!SpecReset, SettingsSeen, MessageSeen
  <2> QED BY <2>4 DEF Abstract!SpecNext
<1>9. ASSUME NEW i \in Ids, NEW resets \in BOOLEAN, Finalize(i, resets)
      PROVE  Seen
  BY <1>9, <1>a, BeginFinalizeInv, OneHasherSeen DEF Finalize, Idle
<1>10. ASSUME NEW i \in Ids, FinalizeOverflow(i) PROVE Seen
  BY <1>10, <1>a, FlushMarkerInv, OneHasherSeen DEF FinalizeOverflow, InCall
<1>b. ASSUME NEW i \in Ids, InCall(i, "length"),
             result' = [result EXCEPT ![i] = ResultOf(CompressLast(hasher[i]))]
      PROVE  /\ Abstract!IsResultOf(SettingsSeen[i], MessageSeen[i], result'[i])
             /\ result' = [result EXCEPT ![i] = result'[i]]
             /\ i \in DOMAIN MessageSeen
  <2> DEFINE x == ResultOf(CompressLast(hasher[i]))
  <2>1. i \in DOMAIN hasher /\ hasher[i].call = "length" /\ i \in DOMAIN result
    BY <1>b DEF InCall, IInv
  <2>2. /\ ResultInv(x) /\ x.settings = hasher[i].settings
        /\ x.message = hasher[i].fed
    BY <1>a, <2>1, CompressLastInv
  <2>3. Abstract!IsResultOf(hasher[i].settings, hasher[i].fed, x)
    BY <2>2, ResultSeen
  <2>4. result'[i] = x
    BY <1>b, <2>1
  <2>5. /\ SettingsSeen[i] = hasher[i].settings
        /\ MessageSeen[i] = hasher[i].fed /\ i \in DOMAIN MessageSeen
    BY <2>1 DEF SettingsSeen, MessageSeen
  <2> QED BY <1>b, <2>3, <2>4, <2>5
<1>11. ASSUME NEW i \in Ids, FinalizeReturn(i) PROVE Seen
  <2>1. /\ Abstract!IsResultOf(SettingsSeen[i], MessageSeen[i], result'[i])
        /\ result' = [result EXCEPT ![i] = result'[i]]
        /\ i \in DOMAIN MessageSeen
    BY <1>11, <1>b DEF FinalizeReturn
  <2>2. hasher' = [j \in DOMAIN hasher \ {i} |-> hasher[j]]
    BY <1>11 DEF FinalizeReturn
  <2>3. /\ SettingsSeen' = [j \in DOMAIN SettingsSeen \ {i} |->
                              SettingsSeen[j]]
        /\ MessageSeen' = [j \in DOMAIN MessageSeen \ {i} |-> MessageSeen[j]]
    BY <2>2 DEF SettingsSeen, MessageSeen
  <2>4. Abstract!SpecFinalize(i)
    BY <2>1, <2>3 DEF Abstract!SpecFinalize, SettingsSeen, MessageSeen
  <2> QED BY <2>4 DEF Abstract!SpecNext
<1>12. ASSUME NEW i \in Ids, FinalizeResetReturn(i) PROVE Seen
  <2>1. /\ Abstract!IsResultOf(SettingsSeen[i], MessageSeen[i], result'[i])
        /\ result' = [result EXCEPT ![i] = result'[i]]
        /\ i \in DOMAIN MessageSeen
    BY <1>12, <1>b DEF FinalizeResetReturn
  <2>2. /\ i \in DOMAIN hasher /\ hasher[i].call = "length"
        /\ Becomes(i, Reset(CompressLast(hasher[i])))
    BY <1>12 DEF FinalizeResetReturn, InCall
  <2>3. /\ Reset(CompressLast(hasher[i])).settings = hasher[i].settings
        /\ Reset(CompressLast(hasher[i])).fed = << >>
    BY <2>2, <1>a, CompressLastInv, ResetIsNew DEF New
  <2>4. /\ SettingsSeen' = SettingsSeen
        /\ MessageSeen' = [MessageSeen EXCEPT ![i] = << >>]
    BY <2>2, <2>3, OneHasherSeen
  <2>5. Abstract!SpecFinalizeReset(i)
    BY <2>1, <2>4 DEF Abstract!SpecFinalizeReset, SettingsSeen, MessageSeen
  <2> QED BY <2>5 DEF Abstract!SpecNext
<1> QED BY <1>1, <1>2, <1>3, <1>4, <1>5, <1>6, <1>7, <1>8, <1>9, <1>10,
           <1>11, <1>12 DEF Next

(* The hashers implement HashSpec: finalization returns the digest of      *)
(* exactly the message that was fed, whatever calls came in between.       *)
THEOREM SpecImplementsHashSpec == Spec => ImplementsHashSpec
  BY InitSeen, NextSeen, SpecIInv, PTL
     DEF Spec, ImplementsHashSpec, Abstract!SpecSpec

-----------------------------------------------------------------------------
(* A digest spelled out, entry by entry.                                   *)
Entry(d, n) == [t \in 1 .. d[n].times |-> d[n].block]

Grows(d, f, k) ==
  /\ f \in [0 .. k -> Seq(Block)] /\ f[0] = << >>
  /\ \A n \in 1 .. k : f[n] = f[n - 1] \o Entry(d, n)

Spells(d, f) == Grows(d, f, Len(d)) /\ f[Len(d)] = Flat(d)

LEMMA GrowsAt ==
  ASSUME NEW d, NEW f, NEW k \in Nat, Grows(d, f, k), NEW n \in 1 .. k
  PROVE  /\ n - 1 \in 0 .. k /\ n \in 0 .. k
         /\ f[n - 1] \in Seq(Block) /\ f[n] \in Seq(Block)
         /\ f[n] = f[n - 1] \o Entry(d, n)
<1>1. f \in [0 .. k -> Seq(Block)] /\ f[n] = f[n - 1] \o Entry(d, n)
  BY DEF Grows
<1>2. n - 1 \in 0 .. k /\ n \in 0 .. k
  OBVIOUS
<1> QED BY <1>1, <1>2

LEMMA FunctionIsSeq ==
  ASSUME NEW S, NEW n \in Nat, NEW f \in [1 .. n -> S]
  PROVE  f \in Seq(S) /\ Len(f) = n
OBVIOUS

LEMMA EntryIs ==
  ASSUME NEW d \in Seq(Compression), NEW n \in 1 .. Len(d)
  PROVE  /\ d[n].times \in {1, 3} /\ d[n].block \in Block
         /\ Entry(d, n) \in Seq(Block) /\ Len(Entry(d, n)) = d[n].times
         /\ \A t \in 1 .. d[n].times : Entry(d, n)[t] = d[n].block
<1>1. d[n] \in Compression
  BY ElementOfSeq
<1>2. d[n].times \in {1, 3} /\ d[n].block \in Block
  BY <1>1 DEF Compression
<1>3. Entry(d, n) \in [1 .. d[n].times -> Block]
  BY <1>2 DEF Entry
<1>4. Entry(d, n) \in Seq(Block) /\ Len(Entry(d, n)) = d[n].times
  <2>1. PICK m \in Nat : m = d[n].times
    BY <1>2
  <2> QED BY <1>3, <2>1, FunctionIsSeq
<1> QED BY <1>2, <1>4 DEF Entry

LEMMA GrowsExists ==
  ASSUME NEW d \in Seq(Compression)
  PROVE  \A k \in 0 .. Len(d) : \E f : Grows(d, f, k)
<1>1. PICK N \in Nat : N = Len(d)
  BY LenProperties
<1> DEFINE D == { k \in 0 .. N : ~ \E f : Grows(d, f, k) }
<1>2. D = {}
  <2> SUFFICES ASSUME D # {} PROVE FALSE
    OBVIOUS
  <2>1. PICK k \in D : \A j \in D : k <= j
    <3>1. D \in SUBSET Nat
      BY <1>1
    <3> QED BY <3>1, LeastElement
  <2>2. CASE k = 0
    <3> DEFINE f == [n \in 0 .. 0 |-> << >>]
    <3>1. f \in [0 .. 0 -> Seq(Block)] /\ f[0] = << >>
      BY EmptySeq
    <3>2. Grows(d, f, 0)
      BY <3>1 DEF Grows
    <3> QED BY <2>1, <2>2, <3>2
  <2>3. CASE k # 0
    <3>1. k \in 1 .. N /\ k - 1 \in 0 .. N /\ k - 1 \notin D
      BY <1>1, <2>1, <2>3
    <3>2. PICK f : Grows(d, f, k - 1)
      BY <3>1
    <3>3. PICK e \in Seq(Block) : e = Entry(d, k)
      BY <1>1, <3>1, EntryIs
    <3> DEFINE g == [n \in 0 .. k |-> IF n = k THEN f[k - 1] \o e ELSE f[n]]
    <3>4. /\ f \in [0 .. k - 1 -> Seq(Block)] /\ f[0] = << >>
          /\ \A n \in 1 .. k - 1 : f[n] = f[n - 1] \o Entry(d, n)
      BY <3>2 DEF Grows
    <3>5. g \in [0 .. k -> Seq(Block)]
      <4>1. f[k - 1] \o e \in Seq(Block)
        BY <3>1, <3>4, ConcatProperties
      <4>2. \A n \in 0 .. k : n # k => f[n] \in Seq(Block)
        BY <3>1, <3>4
      <4> QED BY <4>1, <4>2
    <3>6. g[0] = << >> /\ \A n \in 1 .. k : g[n] = g[n - 1] \o Entry(d, n)
      <4>1. ASSUME NEW n \in 1 .. k, n # k PROVE g[n] = g[n - 1] \o Entry(d, n)
        <5>1. n \in 1 .. k - 1 /\ n - 1 \in 0 .. k /\ n - 1 # k /\ n \in 0 .. k
          BY <1>1, <3>1, <4>1
        <5>2. g[n] = f[n] /\ g[n - 1] = f[n - 1]
          BY <4>1, <5>1
        <5> QED BY <3>4, <5>1, <5>2
      <4>2. g[k] = g[k - 1] \o Entry(d, k)
        <5>1. k - 1 \in 0 .. k /\ k - 1 # k /\ k \in 0 .. k
          BY <1>1, <3>1
        <5>2. g[k] = f[k - 1] \o e /\ g[k - 1] = f[k - 1]
          BY <5>1
        <5> QED BY <3>3, <5>2
      <4>3. 0 \in 0 .. k /\ 0 # k
        BY <1>1, <3>1
      <4> QED BY <3>4, <4>1, <4>2, <4>3
    <3>7. Grows(d, g, k)
      BY <3>5, <3>6 DEF Grows
    <3> QED BY <2>1, <3>7
  <2> QED BY <2>2, <2>3
<1> QED BY <1>1, <1>2

(* What the recursion of FlattenSeq computes.                              *)
FlattenEq(seqs, h) ==
  h = [i \in 1 .. Len(seqs) |-> IF i = 1 THEN seqs[i] ELSE h[i - 1] \o seqs[i]]

LEMMA FlattenRuns ==
  ASSUME NEW seqs, Len(seqs) # 0
  PROVE  FlattenSeq(seqs) = (CHOOSE h : FlattenEq(seqs, h))[Len(seqs)]
BY Zenon DEF FlattenSeq, FlattenEq

LEMMA FlatGrows ==
  ASSUME NEW d \in Seq(Compression)
  PROVE  \E f : Spells(d, f)
<1>1. PICK N \in Nat : N = Len(d)
  BY LenProperties
<1>2. PICK f : Grows(d, f, N)
  BY <1>1, GrowsExists
<1>3. /\ f \in [0 .. N -> Seq(Block)] /\ f[0] = << >>
      /\ \A n \in 1 .. N : f[n] = f[n - 1] \o Entry(d, n)
  BY <1>2 DEF Grows
<1>4. PICK seqs : seqs = [n \in 1 .. N |-> Entry(d, n)]
  OBVIOUS
<1>5. Flat(d) = FlattenSeq(seqs)
  BY <1>1, <1>4 DEF Flat, Entry
<1>6. seqs \in Seq(Seq(Block)) /\ Len(seqs) = N
  <2>1. seqs \in [1 .. N -> Seq(Block)]
    BY <1>1, <1>4, EntryIs
  <2> QED BY <2>1, FunctionIsSeq
<1>7. CASE N = 0
  <2>1. Flat(d) = seqs
    BY <1>5, <1>6, <1>7 DEF FlattenSeq
  <2>2. seqs = << >>
    BY <1>6, <1>7, EmptySeq
  <2> QED BY <1>1, <1>2, <1>3, <1>7, <2>1, <2>2 DEF Spells
<1>8. CASE N # 0
  <2>1. FlattenEq(seqs, [i \in 1 .. N |-> f[i]])
    <3> DEFINE h == [i \in 1 .. N |-> f[i]]
    <3>1. ASSUME NEW i \in 1 .. N
          PROVE  h[i] = IF i = 1 THEN seqs[i] ELSE h[i - 1] \o seqs[i]
      <4>1. f[i] = f[i - 1] \o seqs[i] /\ seqs[i] \in Seq(Block)
        BY <1>1, <1>3, <1>4, EntryIs
      <4>2. CASE i = 1
        <5>1. f[i] = << >> \o seqs[i]
          <6>1. f[i - 1] = << >>
            BY <1>3, <4>2
          <6> QED BY <4>1, <6>1
        <5> QED BY <4>1, <4>2, <5>1, ConcatEmptySeq
      <4>3. CASE i # 1
        <5>1. i - 1 \in 1 .. N
          BY <1>1, <4>3
        <5>2. h[i - 1] = f[i - 1] /\ h[i] = f[i]
          BY <5>1
        <5> QED BY <4>1, <4>3, <5>2
      <4> QED BY <4>2, <4>3
    <3> QED BY <1>6, <3>1 DEF FlattenEq
  <2>2. PICK h : FlattenEq(seqs, h) /\ Flat(d) = h[N]
    BY <1>5, <1>6, <1>8, <2>1, FlattenRuns
  <2>3. \A i \in 1 .. N : h[i] = IF i = 1 THEN seqs[i] ELSE h[i - 1] \o seqs[i]
    BY <1>6, <2>2 DEF FlattenEq
  <2> DEFINE D == { i \in 1 .. N : h[i] # f[i] }
  <2>4. D = {}
    <3> SUFFICES ASSUME D # {} PROVE FALSE
      OBVIOUS
    <3>1. PICK i \in D : \A j \in D : i <= j
      <4>1. D \in SUBSET Nat
        OBVIOUS
      <4> QED BY <4>1, LeastElement
    <3>2. f[i] = f[i - 1] \o seqs[i] /\ seqs[i] \in Seq(Block)
      BY <1>1, <1>3, <1>4, EntryIs
    <3>3. CASE i = 1
      <4>1. f[i] = << >> \o seqs[i]
        <5>1. f[i - 1] = << >>
          BY <1>3, <3>3
        <5> QED BY <3>2, <5>1
      <4> QED BY <2>3, <3>2, <3>3, <4>1, ConcatEmptySeq
    <3>4. CASE i # 1
      <4>1. i - 1 \in 1 .. N /\ i - 1 \notin D
        BY <1>1, <3>1, <3>4
      <4> QED BY <2>3, <3>2, <3>4, <4>1
    <3> QED BY <3>3, <3>4
  <2>5. Flat(d) = f[N]
    BY <1>8, <2>2, <2>4
  <2> QED BY <1>1, <1>2, <2>5 DEF Spells
<1> QED BY <1>7, <1>8

(* Each entry adds its block at the end, and nothing changes behind it.    *)
LEMMA GrowsBy ==
  ASSUME NEW d \in Seq(Compression), NEW f, Grows(d, f, Len(d)), NEW n \in 1 .. Len(d)
  PROVE  /\ f[n - 1] \in Seq(Block) /\ f[n] \in Seq(Block)
         /\ Len(f[n]) = Len(f[n - 1]) + d[n].times
         /\ \A i \in 1 .. Len(f[n - 1]) : f[n][i] = f[n - 1][i]
         /\ \A i \in Len(f[n - 1]) + 1 .. Len(f[n]) : f[n][i] = d[n].block
<1>1. PICK N \in Nat : N = Len(d)
  BY LenProperties
<1>2. /\ f[n - 1] \in Seq(Block) /\ f[n] \in Seq(Block) /\ f[n] = f[n - 1] \o Entry(d, n)
  BY <1>1, GrowsAt
<1>3. PICK s \in Seq(Block), e \in Seq(Block), l \in Nat, t \in {1, 3} :
        s = f[n - 1] /\ e = Entry(d, n) /\ l = Len(s) /\ t = d[n].times /\ Len(e) = t
  BY <1>2, EntryIs, LenProperties
<1>4. /\ Len(s \o e) = l + t
      /\ \A i \in 1 .. l + t : (s \o e)[i] = IF i <= l THEN s[i] ELSE e[i - l]
  BY <1>3, ConcatProperties
<1>5. \A i \in 1 .. t : e[i] = d[n].block
  BY <1>3, EntryIs
<1>6. f[n] = s \o e
  BY <1>2, <1>3
<1>7. \A i \in 1 .. l : i \in 1 .. l + t /\ i <= l
  BY <1>3
<1>8. \A i \in l + 1 .. l + t : i \in 1 .. l + t /\ ~ (i <= l) /\ i - l \in 1 .. t
  BY <1>3
<1> QED BY <1>2, <1>3, <1>4, <1>5, <1>6, <1>7, <1>8

LEMMA GrowsOn ==
  ASSUME NEW d \in Seq(Compression), NEW f, Grows(d, f, Len(d)), NEW n \in 0 .. Len(d)
  PROVE  \A m \in n .. Len(d) :
           /\ f[n] \in Seq(Block) /\ f[m] \in Seq(Block)
           /\ Len(f[n]) + (m - n) <= Len(f[m])
           /\ \A i \in 1 .. Len(f[n]) : f[m][i] = f[n][i]
<1>1. PICK N \in Nat : N = Len(d)
  BY LenProperties
<1>2. f \in [0 .. N -> Seq(Block)]
  BY <1>1 DEF Grows
<1> DEFINE On(m) == Len(f[n]) + (m - n) <= Len(f[m]) /\ \A i \in 1 .. Len(f[n]) : f[m][i] = f[n][i]
           D == { m \in n .. N : ~ On(m) }
<1>3. D = {}
  <2> SUFFICES ASSUME D # {} PROVE FALSE
    OBVIOUS
  <2>1. PICK m \in D : \A j \in D : m <= j
    <3>1. D \in SUBSET Nat
      BY <1>1
    <3> QED BY <3>1, LeastElement
  <2>2. Len(f[n]) \in Nat
    BY <1>1, <1>2, LenProperties
  <2>3. m # n
    BY <1>1, <2>2
  <2>4. m \in 1 .. N /\ m - 1 \in n .. N /\ m - 1 \notin D
    BY <1>1, <2>1, <2>3
  <2>5. On(m - 1)
    BY <2>4
  <2>6. /\ f[m - 1] \in Seq(Block) /\ Len(f[m]) = Len(f[m - 1]) + d[m].times
        /\ \A i \in 1 .. Len(f[m - 1]) : f[m][i] = f[m - 1][i]
    <3>1. m \in 1 .. Len(d)
      BY <1>1, <2>4
    <3> QED BY <3>1, GrowsBy
  <2>7. PICK a, b \in Nat, t \in {1, 3} : a = Len(f[n]) /\ b = Len(f[m - 1]) /\ t = d[m].times
    BY <1>1, <2>2, <2>4, <2>6, EntryIs, LenProperties
  <2>8. a + ((m - 1) - n) <= b /\ Len(f[m]) = b + t
    BY <2>5, <2>6, <2>7
  <2>9. a + (m - n) <= b + t /\ a <= b
    <3>1. m \in Int /\ n \in Int /\ n <= m - 1
      BY <1>1, <2>4
    <3>2. a \in Int /\ b \in Int /\ t \in Int /\ t >= 1
      BY ONLY <2>7
    <3>3. a + ((m - 1) - n) <= b
      BY ONLY <2>8
    <3> QED BY ONLY <3>1, <3>2, <3>3
  <2>10. \A i \in 1 .. a : i \in 1 .. b
    BY ONLY <2>7, <2>9
  <2>11. \A i \in 1 .. Len(f[n]) : f[m][i] = f[n][i]
    BY <2>5, <2>6, <2>7, <2>10
  <2> QED BY <2>7, <2>8, <2>9, <2>11
<1>4. ASSUME NEW m \in n .. N PROVE f[n] \in Seq(Block) /\ f[m] \in Seq(Block)
  BY <1>1, <1>2
<1> QED BY <1>1, <1>3, <1>4

(* A position of the digest that an entry covers holds its block.          *)
LEMMA BlockAt ==
  ASSUME NEW d \in Seq(Compression), NEW f, Spells(d, f), NEW n \in 1 .. Len(d),
         NEW i \in Len(f[n - 1]) + 1 .. Len(f[n])
  PROVE  Flat(d)[i] = d[n].block
<1>1. PICK N \in Nat : N = Len(d)
  BY LenProperties
<1>2. Grows(d, f, Len(d)) /\ f[N] = Flat(d)
  BY <1>1 DEF Spells
<1>3. f[n - 1] \in Seq(Block) /\ f[n] \in Seq(Block) /\ f[n][i] = d[n].block
  BY <1>2, GrowsBy
<1>4. n \in 0 .. Len(d) /\ N \in n .. Len(d)
  BY <1>1
<1>5. \A j \in 1 .. Len(f[n]) : f[N][j] = f[n][j]
  BY <1>2, <1>4, GrowsOn
<1>6. i \in 1 .. Len(f[n])
  <2>1. Len(f[n - 1]) \in Nat /\ Len(f[n]) \in Nat
    BY <1>3, LenProperties
  <2> QED BY <2>1
<1> QED BY <1>2, <1>3, <1>5, <1>6

(* How often a block goes in is decided by the blocks up to it.            *)
TimesFollow(a, b) ==
  \A n \in 1 .. Len(a) :
    n <= Len(b) /\ (\A k \in 1 .. n - 1 : a[k] = b[k]) /\ a[n].block = b[n].block
      => a[n].times = b[n].times

LEMMA SameAsFar ==
  ASSUME NEW a \in Seq(Compression), NEW b \in Seq(Compression),
         NEW f, Spells(a, f), NEW g, Spells(b, g), Flat(a) = Flat(b), TimesFollow(a, b)
  PROVE  \A n \in 0 .. Len(a) : n <= Len(b) => f[n] = g[n] /\ \A k \in 1 .. n : a[k] = b[k]
<1>1. PICK M \in Nat, N \in Nat : M = Len(a) /\ N = Len(b)
  BY LenProperties
<1>2. Grows(a, f, M) /\ Grows(b, g, N)
  BY <1>1 DEF Spells
<1> DEFINE D == { n \in 0 .. M : n <= N /\ ~ (f[n] = g[n] /\ \A k \in 1 .. n : a[k] = b[k]) }
<1>3. D = {}
  <2> SUFFICES ASSUME D # {} PROVE FALSE
    OBVIOUS
  <2>1. PICK n \in D : \A j \in D : n <= j
    <3>1. D \in SUBSET Nat
      BY <1>1
    <3> QED BY <3>1, LeastElement
  <2>2. n # 0
    <3>1. f[0] = g[0]
      BY <1>2 DEF Grows
    <3> QED BY <2>1, <3>1
  <2>3. /\ n \in 1 .. M /\ n \in 1 .. N /\ n - 1 \in 0 .. M /\ n - 1 <= N /\ n - 1 \notin D
        /\ n <= N /\ n \in Nat
    BY <1>1, <2>1, <2>2
  <2>4. f[n - 1] = g[n - 1] /\ \A k \in 1 .. n - 1 : a[k] = b[k]
    BY <2>3
  <2>5. /\ f[n - 1] \in Seq(Block) /\ f[n] = f[n - 1] \o Entry(a, n)
        /\ g[n - 1] \in Seq(Block) /\ g[n] = g[n - 1] \o Entry(b, n)
    <3>1. f[n - 1] \in Seq(Block) /\ f[n] = f[n - 1] \o Entry(a, n)
      BY ONLY M \in Nat, <1>2, <2>3, GrowsAt
    <3>2. g[n - 1] \in Seq(Block) /\ g[n] = g[n - 1] \o Entry(b, n)
      BY ONLY N \in Nat, <1>2, <2>3, GrowsAt
    <3> QED BY <3>1, <3>2
  <2>6. a[n].block = b[n].block
    <3>1. PICK l \in Nat : l = Len(f[n - 1])
      BY <2>5, LenProperties
    <3>2. Len(f[n]) = l + a[n].times /\ Len(g[n]) = l + b[n].times
      BY <1>1, <1>2, <2>3, <2>4, <3>1, GrowsBy
    <3>3. a[n].times \in {1, 3} /\ b[n].times \in {1, 3}
      BY <1>1, <2>3, EntryIs
    <3>4. PICK s, t \in {1, 3} : s = a[n].times /\ t = b[n].times
      BY <3>3
    <3>5. PICK i \in Nat : i = l + 1
      BY <3>1
    <3>6. i \in l + 1 .. l + s /\ i \in l + 1 .. l + t
      BY ONLY l \in Nat, s \in {1, 3}, t \in {1, 3}, <3>5
    <3>7. i \in Len(f[n - 1]) + 1 .. Len(f[n]) /\ n \in 1 .. Len(a)
      BY <1>1, <2>3, <3>1, <3>2, <3>4, <3>6
    <3>8. Flat(a)[i] = a[n].block
      BY ONLY <3>7, a \in Seq(Compression), Spells(a, f), BlockAt
    <3>9. i \in Len(g[n - 1]) + 1 .. Len(g[n]) /\ n \in 1 .. Len(b)
      BY <1>1, <2>3, <2>4, <3>1, <3>2, <3>4, <3>6
    <3>10. Flat(b)[i] = b[n].block
      BY ONLY <3>9, b \in Seq(Compression), Spells(b, g), BlockAt
    <3> QED BY <3>8, <3>10
  <2>7. a[n].times = b[n].times
    BY <1>1, <2>3, <2>4, <2>6 DEF TimesFollow
  <2>8. a[n] = b[n]
    <3>1. a[n] \in Compression /\ b[n] \in Compression
      BY <1>1, <2>3, ElementOfSeq
    <3> QED BY <2>6, <2>7, <3>1 DEF Compression
  <2>9. f[n] = g[n]
    BY <2>4, <2>5, <2>8 DEF Entry
  <2>10. \A k \in 1 .. n : a[k] = b[k]
    <3>1. \A k \in 1 .. n : k = n \/ k \in 1 .. n - 1
      BY <2>3
    <3> QED BY <2>4, <2>8, <3>1
  <2> QED BY <2>1, <2>9, <2>10
<1> QED BY <1>1, <1>3

(* Then digests that are spelled alike are alike.                          *)
LEMMA SpelledAlike ==
  ASSUME NEW a \in Seq(Compression), NEW b \in Seq(Compression),
         Flat(a) = Flat(b), TimesFollow(a, b)
  PROVE  a = b
<1>1. PICK M \in Nat, N \in Nat : M = Len(a) /\ N = Len(b)
  BY LenProperties
<1>2. PICK f : Spells(a, f)
  BY FlatGrows
<1>3. PICK g : Spells(b, g)
  BY FlatGrows
<1>4. \A n \in 0 .. M : n <= N => f[n] = g[n] /\ \A k \in 1 .. n : a[k] = b[k]
  BY <1>1, <1>2, <1>3, SameAsFar
<1>5. Grows(a, f, M) /\ Grows(b, g, N) /\ f[M] = g[N]
  BY <1>1, <1>2, <1>3 DEF Spells
<1>6. ~ (M < N)
  <2> SUFFICES ASSUME M < N PROVE FALSE
    OBVIOUS
  <2>1. M \in 0 .. N /\ N \in M .. N /\ M \in 0 .. M
    BY <1>1
  <2>2. f[M] = g[M]
    BY <1>4, <2>1
  <2>3. g[M] \in Seq(Block) /\ Len(g[M]) + (N - M) <= Len(g[N])
    BY <1>1, <1>5, <2>1, GrowsOn
  <2>4. Len(g[M]) \in Nat
    BY <2>3, LenProperties
  <2> QED BY <1>1, <1>5, <2>2, <2>3, <2>4
<1>7. ~ (N < M)
  <2> SUFFICES ASSUME N < M PROVE FALSE
    OBVIOUS
  <2>1. N \in 0 .. M /\ M \in N .. M /\ N <= N
    BY <1>1
  <2>2. f[N] = g[N]
    BY <1>4, <2>1
  <2>3. f[N] \in Seq(Block) /\ Len(f[N]) + (M - N) <= Len(f[M])
    BY <1>1, <1>5, <2>1, GrowsOn
  <2>4. Len(f[N]) \in Nat
    BY <2>3, LenProperties
  <2> QED BY <1>1, <1>5, <2>2, <2>3, <2>4
<1>8. M = N /\ \A k \in 1 .. M : a[k] = b[k]
  BY <1>1, <1>4, <1>6, <1>7
<1> QED BY <1>1, <1>8, SeqEqual

(* Its last element is the last block, and it is longer than the blocks    *)
(* there are where a block went in three times.                            *)
LEMMA LastSpelled ==
  ASSUME NEW d \in Seq(Compression), Len(d) # 0
  PROVE  Flat(d)[Len(Flat(d))] = d[Len(d)].block
<1>1. PICK N \in Nat : N = Len(d)
  BY LenProperties
<1>2. PICK f : Spells(d, f)
  BY FlatGrows
<1>3. N \in 1 .. Len(d)
  BY <1>1
<1>4. /\ f[N - 1] \in Seq(Block) /\ f[N] \in Seq(Block)
      /\ Len(f[N]) = Len(f[N - 1]) + d[N].times
  BY <1>2, <1>3, GrowsBy DEF Spells
<1>5. Len(f[N - 1]) \in Nat /\ d[N].times \in {1, 3}
  BY <1>3, <1>4, EntryIs, LenProperties
<1>6. Len(f[N]) \in Len(f[N - 1]) + 1 .. Len(f[N])
  BY <1>4, <1>5
<1>7. Flat(d)[Len(f[N])] = d[N].block
  BY <1>2, <1>3, <1>6, BlockAt
<1> QED BY <1>1, <1>2, <1>7 DEF Spells

LEMMA LongerIfMitigated ==
  ASSUME NEW d \in Seq(Compression), NEW n \in 1 .. Len(d), d[n].times = 3
  PROVE  Len(Flat(d)) > Len(d)
<1>1. PICK N \in Nat : N = Len(d)
  BY LenProperties
<1>2. PICK f : Spells(d, f)
  BY FlatGrows
<1>3. Grows(d, f, Len(d)) /\ f[N] = Flat(d) /\ f[0] = << >>
  BY <1>1, <1>2 DEF Spells, Grows
<1>4. n - 1 \in 0 .. Len(d) /\ n \in 0 .. Len(d) /\ N \in n .. Len(d) /\ 0 \in 0 .. Len(d)
  BY <1>1
<1>5. Len(f[0]) + ((n - 1) - 0) <= Len(f[n - 1])
  BY <1>1, <1>3, <1>4, GrowsOn
<1>6. /\ f[n - 1] \in Seq(Block) /\ f[n] \in Seq(Block)
      /\ Len(f[n]) = Len(f[n - 1]) + 3
  BY <1>3, GrowsBy
<1>7. f[N] \in Seq(Block) /\ Len(f[n]) + (N - n) <= Len(f[N])
  BY <1>3, <1>4, GrowsOn
<1>8. Len(f[0]) = 0
  BY <1>3, EmptySeq
<1>9. PICK x, y, z \in Nat : x = Len(f[n - 1]) /\ y = Len(f[n]) /\ z = Len(f[N])
  BY <1>6, <1>7, LenProperties
<1>10. n - 1 <= x /\ y = x + 3 /\ y + (N - n) <= z
  BY <1>5, <1>6, <1>7, <1>8, <1>9
<1>11. z > N
  BY ONLY <1>1, <1>9, <1>10, n \in 1 .. Len(d)
<1> QED BY <1>1, <1>3, <1>9, <1>11

LEMMA ExactIfPlain ==
  ASSUME NEW d \in Seq(Compression), \A n \in 1 .. Len(d) : d[n].times = 1
  PROVE  Len(Flat(d)) = Len(d)
<1>1. PICK N \in Nat : N = Len(d)
  BY LenProperties
<1>2. PICK f : Spells(d, f)
  BY FlatGrows
<1>3. Grows(d, f, Len(d)) /\ f[N] = Flat(d) /\ f[0] = << >>
  BY <1>1, <1>2 DEF Spells, Grows
<1> DEFINE D == { n \in 0 .. N : Len(f[n]) # n }
<1>4. D = {}
  <2> SUFFICES ASSUME D # {} PROVE FALSE
    OBVIOUS
  <2>1. PICK n \in D : \A j \in D : n <= j
    <3>1. D \in SUBSET Nat
      BY <1>1
    <3> QED BY <3>1, LeastElement
  <2>2. n # 0
    BY <1>3, <2>1, EmptySeq
  <2>3. n \in 1 .. N /\ n - 1 \in 0 .. N /\ n - 1 \notin D
    BY <1>1, <2>1, <2>2
  <2>4. Len(f[n]) = Len(f[n - 1]) + 1
    BY <1>1, <1>3, <2>3, GrowsBy
  <2> QED BY <1>1, <2>1, <2>3, <2>4
<1>5. N \in 0 .. N
  BY <1>1
<1> QED BY <1>1, <1>3, <1>4, <1>5

-----------------------------------------------------------------------------
(* What the last block says of the length, and all blocks of the message.  *)

(* No two messages that may be fed have one length in bits: the counter    *)
(* wraps beyond them.  In the code, those of fewer than 2^61 bytes.        *)
BitLengthsDiffer ==
  \A m, n \in 0 .. MaxFed :
    (m * BitsPerByte) % LenMod = (n * BitsPerByte) % LenMod => m = n

(* All mitigating hashers ask the same question of a block.                *)
OneQuestion ==
  \A s, t \in Settings :
    s.safe_hash /\ t.safe_hash =>
      \A chain \in Seq(Compression), block \in Block :
        Attack(s, chain, block) <=> Attack(t, chain, block)

LEMMA BlocksHold ==
  ASSUME NEW m \in Seq(Byte)
  PROVE  /\ PaddedBlocks(m) \in Nat \ {0}
         /\ Len(m) + LengthSize < PaddedBlocks(m) * BlockSize
<1>1. PICK l, z, b \in Nat : l = Len(m) /\ z = LengthSize /\ b = BlockSize /\ b > 0
  BY LenProperties, SizesAssumption
<1>2. PICK q, r \in Nat : q = (l + z + b) \div b /\ r < b /\ l + z + b = q * b + r
  <2>1. b \in Nat \ {0} /\ l + z + b \in Nat
    BY <1>1
  <2>2. /\ (l + z + b) \div b \in Nat /\ (l + z + b) % b \in 0 .. b - 1
        /\ l + z + b = ((l + z + b) \div b) * b + ((l + z + b) % b)
    BY <2>1, DivMod
  <2>3. PICK q \in Nat, r \in 0 .. b - 1 : q = (l + z + b) \div b /\ r = (l + z + b) % b
    BY ONLY <2>2
  <2>4. l + z + b = q * b + r
    BY ONLY <2>2, <2>3
  <2>5. r \in Nat /\ r < b
    BY ONLY r \in 0 .. b - 1, b \in Nat
  <2> QED BY ONLY <2>3, <2>4, <2>5
<1>3. PICK p \in Nat : p = q * b
  BY <1>1, <1>2, TimesSuccessor
<1>4. l + z < p
  BY <1>1, <1>2, <1>3
<1>5. q # 0
  BY <1>1, <1>3, <1>4
<1> QED BY <1>1, <1>2, <1>3, <1>4, <1>5 DEF PaddedBlocks

LEMMA LengthInLast ==
  ASSUME NEW m \in Seq(Byte), NEW s, NEW d \in Seq(Compression), IsChainOf(s, m, d)
  PROVE  /\ Len(d) \in Nat \ {0}
         /\ \A j \in 0 .. LengthSize - 1 :
              d[Len(d)].block[BlockSize - LengthSize + j]
                = LengthByte((Len(m) * BitsPerByte) % LenMod, j)
<1>1. PICK l, z, b \in Nat : l = Len(m) /\ z = LengthSize /\ b = BlockSize /\ z < b
  BY LenProperties, SizesAssumption
<1>2. PICK N \in Nat \ {0} : N = PaddedBlocks(m) /\ l + z < N * b
  BY <1>1, BlocksHold
<1>3. N = Len(d) /\ N \in 1 .. Len(d)
  BY <1>2 DEF IsChainOf
<1>4. PICK p, e \in Nat : p = N * b /\ e = (N - 1) * b /\ p = e + b
  <2>1. N - 1 \in Nat /\ (N - 1) + 1 = N
    BY <1>2
  <2>2. ((N - 1) + 1) * b = (N - 1) * b + b /\ (N - 1) * b \in Nat /\ N * b \in Nat
    BY <1>1, <1>2, <2>1, TimesSuccessor
  <2> QED BY <2>1, <2>2
<1>5. ASSUME NEW j \in 0 .. LengthSize - 1
      PROVE  d[N].block[BlockSize - LengthSize + j]
               = LengthByte((Len(m) * BitsPerByte) % LenMod, j)
  <2>1. PICK k \in 0 .. BlockSize - 1 : k = BlockSize - LengthSize + j
    BY <1>1
  <2>2. d[N].block[k] = PaddedByte(m, (N - 1) * BlockSize + k)
    BY <1>3 DEF IsChainOf
  <2>3. PICK x \in Nat : x = (N - 1) * BlockSize + k /\ x = e + k
    BY <1>1, <1>4, <2>1
  <2>4. x >= p - z /\ ~ (x < l) /\ x # l /\ x - (p - z) = j
    <3>1. k = b - z + j /\ j >= 0 /\ j \in Int
      BY <1>1, <2>1
    <3>2. l + z < p /\ p = e + b /\ x = e + k
      BY <1>2, <1>4, <2>3
    <3>3. k \in Int
      BY <2>1
    <3> QED BY ONLY <1>1, <1>4, <2>3, <3>1, <3>2, <3>3
  <2>5. PaddedBlocks(m) * BlockSize - LengthSize = p - z
    BY <1>1, <1>2, <1>4
  <2>6. PaddedByte(m, x) = LengthByte((Len(m) * BitsPerByte) % LenMod, x - (p - z))
    BY <1>1, <2>4, <2>5 DEF PaddedByte
  <2> QED BY <2>1, <2>2, <2>3, <2>4, <2>6
<1> QED BY <1>2, <1>3, <1>5

LEMMA SameLengths ==
  ASSUME BitLengthsDiffer,
         NEW m \in Seq(Byte), NEW s, NEW a \in Seq(Compression), IsChainOf(s, m, a),
         NEW n \in Seq(Byte), NEW t, NEW b \in Seq(Compression), IsChainOf(t, n, b),
         Len(m) <= MaxFed, Len(n) <= MaxFed, a[Len(a)].block = b[Len(b)].block
  PROVE  Len(m) = Len(n)
<1>1. PICK x, y \in 0 .. MaxFed : x = Len(m) /\ y = Len(n)
  BY LenProperties, InputAssumption
<1>2. x \in Nat /\ y \in Nat /\ BitsPerByte \in Nat /\ LenMod \in Nat \ {0}
  BY <1>1, InputAssumption, SizesAssumption, LenModAssumption
<1>3. x * BitsPerByte \in Nat /\ y * BitsPerByte \in Nat
  BY <1>2, TimesSuccessor
<1>4. PICK u, v \in 0 .. LenMod - 1 : u = (x * BitsPerByte) % LenMod /\ v = (y * BitsPerByte) % LenMod
  BY <1>2, <1>3, DivMod
<1>5. \A j \in 0 .. LengthSize - 1 : LengthByte(u, j) = LengthByte(v, j)
  <2>1. \A j \in 0 .. LengthSize - 1 : a[Len(a)].block[BlockSize - LengthSize + j] = LengthByte(u, j)
    BY <1>1, <1>4, LengthInLast
  <2>2. \A j \in 0 .. LengthSize - 1 : b[Len(b)].block[BlockSize - LengthSize + j] = LengthByte(v, j)
    BY <1>1, <1>4, LengthInLast
  <2> QED BY <2>1, <2>2
<1>6. u = v
  BY <1>5, LengthBytesAssumption
<1> QED BY <1>1, <1>4, <1>6 DEF BitLengthsDiffer

LEMMA SameBytes ==
  ASSUME NEW m \in Seq(Byte), NEW n \in Seq(Byte), NEW s, NEW t, NEW d \in Seq(Compression),
         IsChainOf(s, m, d), IsChainOf(t, n, d), Len(m) = Len(n)
  PROVE  m = n
<1>1. PICK l, b \in Nat : l = Len(m) /\ l = Len(n) /\ b = BlockSize /\ b > 0
  BY LenProperties, SizesAssumption
<1>2. PICK N \in Nat : N = Len(d) /\ N = PaddedBlocks(m) /\ l < N * b
  <2>1. Len(m) + LengthSize < PaddedBlocks(m) * BlockSize /\ PaddedBlocks(m) \in Nat
    BY BlocksHold
  <2>2. PICK p \in Nat : p = PaddedBlocks(m) * BlockSize
    BY <2>1, SizesAssumption, TimesSuccessor
  <2> QED BY <1>1, <2>1, <2>2, SizesAssumption DEF IsChainOf
<1>3. ASSUME NEW i \in 1 .. l PROVE m[i] = n[i]
  <2>1. PICK x \in Nat : x = i - 1 /\ x < l /\ x + 1 = i
    BY <1>1
  <2>2. PICK q \in Nat, k \in 0 .. b - 1 : x = q * b + k
    <3>1. b \in Nat \ {0}
      BY <1>1
    <3>2. x \div b \in Nat /\ x % b \in 0 .. b - 1 /\ x = (x \div b) * b + (x % b)
      BY ONLY <2>1, <3>1, DivMod
    <3> QED BY <3>2
  <2>3. q < N
    <3> SUFFICES ASSUME N <= q PROVE FALSE
      BY <1>2, <2>2
    <3>1. N * b <= q * b
      BY <1>1, <1>2, <2>2, TimesMonotone
    <3>2. PICK u, v \in Nat : u = N * b /\ v = q * b
      BY <1>1, <1>2, <2>2, TimesSuccessor
    <3> QED BY <1>1, <1>2, <2>1, <2>2, <3>1, <3>2
  <2>4. PICK j \in 1 .. Len(d) : j = q + 1 /\ j - 1 = q
    BY <1>2, <2>2, <2>3
  <2>5. k \in 0 .. BlockSize - 1 /\ (j - 1) * BlockSize + k = x
    BY <1>1, <2>2, <2>4
  <2>6. d[j].block[k] = PaddedByte(m, x) /\ d[j].block[k] = PaddedByte(n, x)
    BY <2>5 DEF IsChainOf
  <2>7. PaddedByte(m, x) = m[i] /\ PaddedByte(n, x) = n[i]
    BY <1>1, <2>1, MessageByte
  <2> QED BY <2>6, <2>7
<1> QED BY <1>1, <1>3, SeqEqual

(* What is fed to a hasher stays within the bound, and so does what was    *)
(* finalized.                                                              *)
FedInv ==
  /\ \A i \in DOMAIN hasher : Len(hasher[i].fed) <= MaxFed
  /\ \A i \in Ids : result[i] # NoResult => Len(result[i].message) <= MaxFed

LEMMA FedChanges ==
  ASSUME IInv, FedInv, NEW i \in DOMAIN hasher, NEW q, Len(q.fed) <= MaxFed, Becomes(i, q),
         \/ result' = result
         \/ \E x : Len(x.message) <= MaxFed /\ result' = [result EXCEPT ![i] = x]
  PROVE  FedInv'
<1>1. i \in Ids /\ DOMAIN hasher' = DOMAIN hasher /\ DOMAIN result = Ids
  BY DEF IInv, Becomes
<1>2. \A j \in DOMAIN hasher' : Len(hasher'[j].fed) <= MaxFed
  BY <1>1 DEF FedInv, Becomes
<1>3. \A j \in Ids : result'[j] # NoResult => Len(result'[j].message) <= MaxFed
  BY <1>1 DEF FedInv
<1> QED BY <1>2, <1>3 DEF FedInv

LEMMA FedMore ==
  ASSUME FedInv, NEW i, NEW q, Len(q.fed) <= MaxFed, UNCHANGED result,
         hasher' = [j \in DOMAIN hasher \cup {i} |-> IF j = i THEN q ELSE hasher[j]]
  PROVE  FedInv'
<1>1. \A j \in DOMAIN hasher' : Len(hasher'[j].fed) <= MaxFed
  BY DEF FedInv
<1> QED BY <1>1 DEF FedInv

LEMMA NextFed == IInv /\ FedInv /\ [Next]_vars => FedInv'
<1> SUFFICES ASSUME IInv, FedInv, [Next]_vars PROVE FedInv'
  OBVIOUS
<1>0. \A i \in DOMAIN hasher : InnerInv(hasher[i]) /\ hasher[i] \in Inner /\ Len(hasher[i].fed) <= MaxFed
  BY DEF IInv, InnerInv, FedInv
<1>a. \A s \in Settings : Len(New(s).fed) <= MaxFed
  BY InputAssumption, EmptySeq DEF New
<1>1. CASE UNCHANGED vars
  BY <1>1 DEF vars, FedInv
<1>2. ASSUME NEW i \in Ids, NEW s \in Settings, Build(i, s) PROVE FedInv'
  BY <1>2, <1>a, FedMore DEF Build
<1>3. ASSUME NEW i \in Ids, NEW j \in Ids, Clone(i, j) PROVE FedInv'
  BY <1>0, <1>3, FedMore DEF Clone, Idle
<1>4. ASSUME NEW i \in Ids, NEW d \in Data, Update(i, d) PROVE FedInv'
  <2>1. /\ i \in DOMAIN hasher /\ hasher[i].call = "none" /\ d \in Seq(Byte)
        /\ Len(hasher[i].fed) + Len(d) <= MaxFed
    BY <1>4, InputAssumption DEF Update, Idle
  <2>2. BeginUpdate(hasher[i], d).fed = hasher[i].fed \o d
    BY <1>0, <2>1, BeginUpdateInv
  <2>3. hasher[i].fed \in Seq(Byte)
    BY <1>0, <2>1, InnerFacts
  <2>4. Len(BeginUpdate(hasher[i], d).fed) <= MaxFed
    BY <2>1, <2>2, <2>3, ConcatProperties
  <2> QED BY <1>4, <2>1, <2>4, FedChanges DEF Update
<1>5. ASSUME NEW i \in Ids, UpdateBuffer(i) PROVE FedInv'
  <2>1. i \in DOMAIN hasher /\ hasher[i].call = "buffer"
    BY <1>5 DEF UpdateBuffer, InCall
  <2>2. FlushBuffer(hasher[i]).fed = hasher[i].fed
    BY <1>0, <2>1, FlushBufferInv
  <2> QED BY <1>0, <1>5, <2>1, <2>2, FedChanges DEF UpdateBuffer
<1>6. ASSUME NEW i \in Ids, UpdateBlock(i) PROVE FedInv'
  <2>1. i \in DOMAIN hasher /\ hasher[i].call = "blocks" /\ Len(hasher[i].data) >= BlockSize
    BY <1>6 DEF UpdateBlock, InCall
  <2>2. TakeBlock(hasher[i]).fed = hasher[i].fed
    BY <1>0, <2>1, TakeBlockInv
  <2> QED BY <1>0, <1>6, <2>1, <2>2, FedChanges DEF UpdateBlock
<1>7. ASSUME NEW i \in Ids, UpdateRest(i) PROVE FedInv'
  <2>1. i \in DOMAIN hasher /\ hasher[i].call = "blocks" /\ Len(hasher[i].data) < BlockSize
    BY <1>7 DEF UpdateRest, InCall
  <2>2. KeepRest(hasher[i]).fed = hasher[i].fed
    BY <1>0, <2>1, KeepRestInv
  <2> QED BY <1>0, <1>7, <2>1, <2>2, FedChanges DEF UpdateRest
<1>8. ASSUME NEW i \in Ids, ResetHasher(i) PROVE FedInv'
  <2>1. i \in DOMAIN hasher /\ hasher[i].settings \in Settings /\ hasher[i].data = << >>
    BY <1>0, <1>8, InnerFacts DEF ResetHasher, Idle, InnerInv, DataInv
  <2>2. Len(Reset(hasher[i]).fed) <= MaxFed
    BY <1>0, <1>a, <2>1, ResetIsNew
  <2> QED BY <1>8, <2>1, <2>2, FedChanges DEF ResetHasher
<1>9. ASSUME NEW i \in Ids, NEW resets \in BOOLEAN, Finalize(i, resets) PROVE FedInv'
  <2>1. i \in DOMAIN hasher /\ hasher[i].call = "none"
    BY <1>9 DEF Finalize, Idle
  <2>2. BeginFinalize(hasher[i], resets).fed = hasher[i].fed
    BY <1>0, <2>1, BeginFinalizeInv
  <2> QED BY <1>0, <1>9, <2>1, <2>2, FedChanges DEF Finalize
<1>10. ASSUME NEW i \in Ids, FinalizeOverflow(i) PROVE FedInv'
  <2>1. i \in DOMAIN hasher /\ hasher[i].call = "overflow"
    BY <1>10 DEF FinalizeOverflow, InCall
  <2>2. FlushMarker(hasher[i]).fed = hasher[i].fed
    BY <1>0, <2>1, FlushMarkerInv
  <2> QED BY <1>0, <1>10, <2>1, <2>2, FedChanges DEF FinalizeOverflow
<1>11. ASSUME NEW i \in Ids, FinalizeReturn(i) PROVE FedInv'
  <2>1. i \in DOMAIN hasher /\ hasher[i].call = "length"
    BY <1>11 DEF FinalizeReturn, InCall
  <2>2. ResultOf(CompressLast(hasher[i])).message = hasher[i].fed
    BY <1>0, <2>1, CompressLastInv
  <2>3. \A j \in DOMAIN hasher' : j \in DOMAIN hasher /\ hasher'[j] = hasher[j]
    BY <1>11 DEF FinalizeReturn
  <2>4. \A j \in Ids : result'[j] # NoResult => Len(result'[j].message) <= MaxFed
    BY <1>0, <1>11, <2>1, <2>2 DEF FinalizeReturn, IInv, FedInv
  <2> QED BY <1>0, <2>3, <2>4 DEF FedInv
<1>12. ASSUME NEW i \in Ids, FinalizeResetReturn(i) PROVE FedInv'
  <2>1. i \in DOMAIN hasher /\ hasher[i].call = "length"
    BY <1>12 DEF FinalizeResetReturn, InCall
  <2>2. /\ ResultOf(CompressLast(hasher[i])).message = hasher[i].fed
        /\ CompressLast(hasher[i]) \in Inner /\ CompressLast(hasher[i]).data = << >>
    BY <1>0, <2>1, CompressLastInv
  <2>3. Len(Reset(CompressLast(hasher[i])).fed) <= MaxFed
    <3>1. CompressLast(hasher[i]).settings \in Settings
      BY <2>2, InnerFacts
    <3> QED BY <1>a, <2>2, <3>1, ResetIsNew
  <2>4. \E x : Len(x.message) <= MaxFed /\ result' = [result EXCEPT ![i] = x]
    BY <1>0, <1>12, <2>1, <2>2 DEF FinalizeResetReturn
  <2> QED BY <1>12, <2>1, <2>3, <2>4, FedChanges DEF FinalizeResetReturn
<1> QED BY <1>1, <1>2, <1>3, <1>4, <1>5, <1>6, <1>7, <1>8, <1>9, <1>10, <1>11, <1>12 DEF Next

LEMMA SpecFedInv == Spec => []FedInv
<1>1. Init => FedInv
  BY DEF Init, FedInv
<1> QED BY <1>1, NextFed, SpecIInv, PTL DEF Spec

(* Who asks decides how often a block goes in; hashers that ask alike, or  *)
(* of which none mitigates, compress a block alike.                        *)
LEMMA TimesAlike ==
  ASSUME OneQuestion, NEW s \in Settings, NEW t \in Settings,
         s.safe_hash <=> t.safe_hash, NEW m, NEW n,
         NEW a \in Seq(Compression), IsChainOf(s, m, a),
         NEW b \in Seq(Compression), IsChainOf(t, n, b)
  PROVE  TimesFollow(a, b)
<1> SUFFICES ASSUME NEW k \in 1 .. Len(a), k <= Len(b), \A j \in 1 .. k - 1 : a[j] = b[j],
                    a[k].block = b[k].block
             PROVE  a[k].times = b[k].times
  BY DEF TimesFollow
<1>1. Len(a) \in Nat /\ Len(b) \in Nat /\ k \in 1 .. Len(b)
  BY LenProperties
<1>2. a[k].times = TimesAt(s, a, k) /\ b[k].times = TimesAt(t, b, k)
  BY <1>1 DEF IsChainOf
<1>3. SubSeq(a, 1, k - 1) = SubSeq(b, 1, k - 1) /\ SubSeq(a, 1, k - 1) \in Seq(Compression)
  <2>1. \A j \in 1 .. k - 1 : a[j] \in Compression /\ b[j] \in Compression /\ a[j] = b[j]
    BY <1>1, ElementOfSeq
  <2>2. k - 1 \in Int /\ 1 \in Int
    BY <1>1
  <2>3. /\ SubSeq(a, 1, k - 1) \in Seq(Compression) /\ SubSeq(b, 1, k - 1) \in Seq(Compression)
        /\ Len(SubSeq(a, 1, k - 1)) = Len(SubSeq(b, 1, k - 1)) /\ Len(SubSeq(a, 1, k - 1)) = k - 1
        /\ \A j \in 1 .. k - 1 : SubSeq(a, 1, k - 1)[j] = a[j]
        /\ \A j \in 1 .. k - 1 : SubSeq(b, 1, k - 1)[j] = b[j]
    BY <2>1, <2>2, SubSeqProperties
  <2> QED BY <2>1, <2>3, SeqEqual
<1>4. a[k].block \in Block
  BY EntryIs
<1>5. CASE ~ s.safe_hash
  BY <1>2, <1>5 DEF TimesAt
<1>6. CASE s.safe_hash
  <2>1. FlaggedAt(s, a, k) <=> FlaggedAt(t, b, k)
    BY <1>3, <1>4, <1>6 DEF FlaggedAt, OneQuestion
  <2> QED BY <1>2, <1>6, <2>1 DEF TimesAt
<1> QED BY <1>5, <1>6

(* A plain and a mitigated digest spelled alike are as long as their       *)
(* blocks, which the length in the last of them counts: none went in more  *)
(* than once.                                                              *)
LEMMA NoneMitigated ==
  ASSUME BitLengthsDiffer, NEW s, NEW t, ~ s.safe_hash,
         NEW m \in Seq(Byte), NEW a \in Seq(Compression), IsChainOf(s, m, a),
         NEW n \in Seq(Byte), NEW b \in Seq(Compression), IsChainOf(t, n, b),
         Len(m) <= MaxFed, Len(n) <= MaxFed, Flat(a) = Flat(b)
  PROVE  TimesFollow(a, b) /\ TimesFollow(b, a)
<1>1. Len(a) \in Nat \ {0} /\ Len(b) \in Nat \ {0}
  BY LengthInLast
<1>2. a[Len(a)].block = b[Len(b)].block
  BY <1>1, LastSpelled
<1>3. Len(m) = Len(n)
  BY <1>2, SameLengths
<1>4. Len(a) = Len(b)
  BY <1>3 DEF IsChainOf, PaddedBlocks
<1>5. \A k \in 1 .. Len(a) : a[k].times = 1
  BY DEF IsChainOf, TimesAt
<1>6. Len(Flat(b)) = Len(b)
  BY <1>4, <1>5, ExactIfPlain
<1>7. \A k \in 1 .. Len(b) : b[k].times = 1
  <2> SUFFICES ASSUME NEW k \in 1 .. Len(b) PROVE b[k].times = 1
    OBVIOUS
  <2>1. b[k].times # 3
    BY <1>1, <1>6, LongerIfMitigated
  <2> QED BY <2>1, EntryIs
<1> QED BY <1>4, <1>5, <1>7 DEF TimesFollow

(* No message has the digest of another, plain or mitigated, spelled out:  *)
(* compressing a block three times gives no digest of a message that       *)
(* repeats the block.  For messages whose lengths the padding can tell     *)
(* apart, and mitigating hashers that ask the same question.               *)
THEOREM SpecEqualDigestsEqualMessages ==
  BitLengthsDiffer /\ OneQuestion => (Spec => []EqualDigestsEqualMessages)
<1> SUFFICES ASSUME BitLengthsDiffer, OneQuestion PROVE Spec => []EqualDigestsEqualMessages
  OBVIOUS
<1>1. IInv /\ FedInv => EqualDigestsEqualMessages
  <2> SUFFICES ASSUME IInv, FedInv, NEW r \in Returned, NEW q \in Returned,
                      Flat(r.digest) = Flat(q.digest)
               PROVE  r.message = q.message
    BY DEF EqualDigestsEqualMessages
  <2>1. ResultInv(r) /\ ResultInv(q) /\ Len(r.message) <= MaxFed /\ Len(q.message) <= MaxFed
    BY DEF IInv, FedInv, Returned
  <2>2. /\ r.settings \in Settings /\ r.message \in Seq(Byte) /\ r.digest \in Seq(Compression)
        /\ q.settings \in Settings /\ q.message \in Seq(Byte) /\ q.digest \in Seq(Compression)
        /\ IsChainOf(r.settings, r.message, r.digest) /\ IsChainOf(q.settings, q.message, q.digest)
    BY <2>1 DEF ResultInv, Result
  <2>3. TimesFollow(r.digest, q.digest)
    <3>1. CASE r.settings.safe_hash <=> q.settings.safe_hash
      BY <2>2, <3>1, TimesAlike
    <3>2. CASE ~ r.settings.safe_hash
      BY <2>1, <2>2, <3>2, NoneMitigated
    <3>3. CASE ~ q.settings.safe_hash
      BY <2>1, <2>2, <3>3, NoneMitigated
    <3>4. r.settings.safe_hash \in BOOLEAN /\ q.settings.safe_hash \in BOOLEAN
      BY <2>2, InputAssumption
    <3> QED BY <3>1, <3>2, <3>3, <3>4
  <2>4. r.digest = q.digest
    BY <2>2, <2>3, SpelledAlike
  <2>5. r.digest[Len(r.digest)].block = q.digest[Len(q.digest)].block
    BY <2>4
  <2>6. Len(r.message) = Len(q.message)
    BY <2>1, <2>2, <2>5, SameLengths
  <2> QED BY <2>2, <2>4, <2>6, SameBytes
<1> QED BY <1>1, SpecIInv, SpecFedInv, PTL
=============================================================================
