------------------------------ MODULE Md5Proofs ------------------------------
(***************************************************************************)
(* Proofs about Md5 for blocks, bytes and words of any size, and for any   *)
(* input, cut in any way.                                                  *)
(***************************************************************************)
EXTENDS Md5, SequenceTheorems, TLAPS

(* What the counters hold after n bytes.                                   *)
CountOf(n) == <<(n * Byte) % Word, ((n * Byte) \div Word) % Word>>

(* The blocks and the buffer of ctx are the sequence t of bytes, cut.      *)
Cut(ctx, t) ==
    /\ Len(ctx.blocks) * Block + Len(ctx.buffer) = Len(t)
    /\ Len(ctx.buffer) < Block
    /\ \A b \in 1..Len(ctx.blocks) : Len(ctx.blocks[b]) = Block
    /\ \A b \in 1..Len(ctx.blocks), k \in 1..Block : ctx.blocks[b][k] = t[(b - 1) * Block + k]
    /\ \A k \in 1..Len(ctx.buffer) : ctx.buffer[k] = t[Len(ctx.blocks) * Block + k]

(* ctx is what the bytes of t leave behind, in however many updates.       *)
Holds(ctx, S, t) ==
    /\ ctx \in [count : (0..(Word - 1)) \X (0..(Word - 1)),
                buffer : Seq(S), blocks : Seq(Seq(S))]
    /\ ctx.count = CountOf(Len(t))
    /\ Cut(ctx, t)

Positions(n) == [k \in 1..n |-> k]

(* All that the digest is made of.                                         *)
Octets == Nat \cup {"80", "00"} \cup ({1, 2} \X Nat \X Nat)

Md5Inv ==
    /\ input \in 0..MaxInput /\ finalized \in BOOLEAN
    /\ ~finalized => Holds(Context, Octets, Positions(input))
    /\ finalized  => Holds(Context, Octets, Padded(input))

-----------------------------------------------------------------------------
(* Quotients and remainders.                                               *)


(* a divided by w is q, and r is left over.                                *)
Division(a, w, q, r) == q \in Nat /\ r \in 0..(w - 1) /\ a = w * q + r

LEMMA DivMod ==
    ASSUME NEW a \in Nat, NEW w \in Nat \ {0}
    PROVE  Division(a, w, a \div w, a % w)
  BY DEF Division

LEMMA Products ==
    ASSUME NEW a \in Nat, NEW b \in Nat, NEW w \in Nat, a <= b
    PROVE  a * w \in Nat /\ b * w \in Nat /\ a * w <= b * w
  OBVIOUS

LEMMA Difference ==
    ASSUME NEW a \in Nat, NEW b \in Nat, b < a
    PROVE  a - b \in Nat /\ a - b >= 1 /\ b + (a - b) = a
  OBVIOUS

LEMMA SumOfThree ==
    ASSUME NEW a \in Nat, NEW b \in Nat, NEW c \in Nat
    PROVE  (a + b) + c = a + (b + c)
  OBVIOUS

(* There is one way to divide with a remainder.                            *)
LEMMA DivModUnique ==
    ASSUME NEW w \in Nat \ {0}, NEW a \in Nat, NEW q, NEW r, Division(a, w, q, r)
    PROVE  a \div w = q /\ a % w = r
  <1> DEFINE p == a \div w
             c == a % w
  <1>1. /\ p \in Nat /\ c \in 0..(w - 1) /\ a = w * p + c
        /\ q \in Nat /\ r \in 0..(w - 1) /\ a = w * q + r
    BY DivMod DEF Division
  <1> SUFFICES p = q
    BY <1>1
  <1> HIDE DEF p, c
  <1>2. CASE p < q
    <2>1. w * (p + 1) <= w * q
      BY <1>1, <1>2, Products
    <2>2. w * (p + 1) = w * p + w
      BY <1>1
    <2> QED
      BY <1>1, <2>1, <2>2
  <1>3. CASE q < p
    <2>1. w * (q + 1) <= w * p
      BY <1>1, <1>3, Products
    <2>2. w * (q + 1) = w * q + w
      BY <1>1
    <2> QED
      BY <1>1, <2>1, <2>2
  <1> QED
    BY <1>1, <1>2, <1>3

(* A sum may be reduced before it is taken.                                *)
SumMod(a, b, w) == (a + b) % w

LEMMA ModSum ==
    ASSUME NEW a \in Nat, NEW b \in Nat, NEW w \in Nat \ {0}
    PROVE  SumMod(a % w, b, w) = SumMod(a, b, w)
  <1> DEFINE c == a % w
  <1>1. PICK p \in Nat : a = w * p + c
    BY DivMod DEF Division
  <1>2. c \in Nat
    BY DivMod DEF Division
  <1> HIDE DEF c
  <1>3. PICK q \in Nat, r \in 0..(w - 1) : c + b = w * q + r /\ (c + b) % w = r
    <2>1. c + b \in Nat
      BY <1>2
    <2>2. Division(c + b, w, (c + b) \div w, (c + b) % w)
      BY <2>1, DivMod
    <2> QED
      BY <2>2, Zenon DEF Division
  <1>4. w * (p + q) = w * p + w * q
    BY <1>1, <1>3
  <1>5. a + b = w * (p + q) + r
    BY <1>1, <1>2, <1>3, <1>4
  <1>6. (a + b) % w = r
    <2>1. a + b \in Nat /\ Division(a + b, w, p + q, r)
      BY <1>1, <1>3, <1>5 DEF Division
    <2> QED
      BY <2>1, DivModUnique
  <1> QED
    BY <1>3, <1>6 DEF c, SumMod

LEMMA Sizes ==
    /\ Block \in Nat \ {0} /\ Byte \in Nat \ {0} /\ Word \in Nat \ {0}
    /\ WordBytes \in Nat \ {0} /\ 2 * WordBytes < Block
  BY Md5Assumption

-----------------------------------------------------------------------------
(* The counters.                                                           *)

(* The carry is where the sum of the low words has wrapped.                *)
LEMMA CountedFacts ==
    ASSUME NEW n \in Nat, NEW m \in Nat
    PROVE  Counted(CountOf(n), m) = CountOf(n + m)
  <1> USE Sizes
  <1> DEFINE x == n * Byte
             y == m * Byte
             x1 == x % Word
             y1 == y % Word
             x2 == x \div Word
             y2 == y \div Word
             carry == IF x1 + y1 < Word THEN 0 ELSE 1
  <1>1. x \in Nat /\ y \in Nat /\ (n + m) * Byte = x + y
    OBVIOUS
  <1>2. /\ CountOf(n) = <<x1, x2 % Word>>
        /\ CountOf(n + m) = <<(x + y) % Word, ((x + y) \div Word) % Word>>
    BY <1>1 DEF CountOf
  <1>3. Counted(CountOf(n), m)
        = <<(x1 + y1) % Word,
            ((x2 % Word) + (IF (x1 + y1) % Word < y1 THEN 1 ELSE 0) + y2) % Word>>
    <2>1. (m * Byte) % Word = y1 /\ (m * Byte) \div Word = y2
      OBVIOUS
    <2>2. CountOf(n)[1] = x1 /\ CountOf(n)[2] = x2 % Word
      BY <1>2
    <2> HIDE DEF x1, x2, y1, y2
    <2> QED
      BY <2>1, <2>2 DEF Counted
  <1> HIDE DEF x, y
  <1>4. /\ x1 \in 0..(Word - 1) /\ x2 \in Nat /\ x = Word * x2 + x1
        /\ y1 \in 0..(Word - 1) /\ y2 \in Nat /\ y = Word * y2 + y1
    BY <1>1, DivMod DEF Division
  <1> HIDE DEF x1, x2, y1, y2
  <1>5. Word * (x2 + y2 + carry) = Word * x2 + Word * y2 + Word * carry
    BY <1>4
  <1>6. /\ x1 + y1 - Word * carry \in 0..(Word - 1)
        /\ x + y = Word * (x2 + y2 + carry) + (x1 + y1 - Word * carry)
    BY <1>4, <1>5
  <1>7. /\ (x + y) \div Word = x2 + y2 + carry
        /\ (x + y) % Word = x1 + y1 - Word * carry
    <2>1. x + y \in Nat /\ Division(x + y, Word, x2 + y2 + carry, x1 + y1 - Word * carry)
      BY <1>1, <1>4, <1>6 DEF Division
    <2> QED
      BY <2>1, DivModUnique
  <1>8. (x1 + y1) % Word = x1 + y1 - Word * carry
    <2>1. x1 + y1 \in Nat /\ Division(x1 + y1, Word, carry, x1 + y1 - Word * carry)
      BY <1>4, <1>6 DEF Division
    <2> QED
      BY <2>1, DivModUnique
  <1>9. (IF (x1 + y1) % Word < y1 THEN 1 ELSE 0) = carry
    BY <1>4, <1>8
  <1>10. ((x2 % Word) + carry + y2) % Word = (x2 + y2 + carry) % Word
    <2>1. carry + y2 \in Nat
      BY <1>4
    <2>2. ((x2 % Word) + (carry + y2)) % Word = (x2 + (carry + y2)) % Word
      <3>1. SumMod(x2 % Word, carry + y2, Word) = SumMod(x2, carry + y2, Word)
        BY <1>4, <2>1, ModSum
      <3> QED
        BY <3>1 DEF SumMod
    <2>3. x2 % Word \in Nat
      BY <1>4, DivMod DEF Division
    <2> QED
      BY <1>4, <2>1, <2>2, <2>3
  <1> QED
    BY <1>2, <1>3, <1>7, <1>8, <1>9, <1>10, Zenon

(* The wrap of the low word does not disturb where the buffer ends, since  *)
(* a word counts whole blocks.                                             *)
LEMMA IndexFacts ==
    ASSUME NEW n \in Nat
    PROVE  BufferIndex(CountOf(n)) = n % Block
  <1> USE Sizes
  <1> DEFINE x == n * Byte
             r == x % Word
  <1>1. x \in Nat /\ Block * Byte \in Nat \ {0} /\ BufferIndex(CountOf(n)) = (r \div Byte) % Block
    BY DEF BufferIndex, CountOf
  <1>2. PICK q \in Nat : x = Word * q + r
    BY <1>1, DivMod DEF Division
  <1>3. r \in Nat
    BY <1>1, DivMod DEF Division
  <1>4. PICK K \in Nat : Word = (Block * Byte) * K
    <2>1. PICK K \in Nat : Word = (Block * Byte) * K + (Word % (Block * Byte))
      BY <1>1, DivMod DEF Division
    <2> QED
      BY <1>1, <2>1, Md5Assumption
  <1> DEFINE g == Block * (K * q)
  <1>5. g \in Nat /\ Word * q = Byte * g
    BY <1>2, <1>4
  <1> HIDE DEF r
  <1>6. n * Byte = Byte * g + r
    BY <1>2, <1>5
  <1> HIDE DEF g
  <1>7. n - g \in Nat /\ r = Byte * (n - g)
    <2>1. r = Byte * (n - g)
      BY <1>3, <1>5, <1>6
    <2>2. n < g => Byte * (n - g) < 0
      BY <1>5
    <2> QED
      BY <1>3, <1>5, <2>1, <2>2
  <1>8. r \div Byte = n - g
    <2>1. Division(r, Byte, n - g, 0)
      BY <1>7 DEF Division
    <2> QED
      BY <1>3, <2>1, DivModUnique
  <1>9. PICK p \in Nat, c \in 0..(Block - 1) : n - g = Block * p + c /\ (n - g) % Block = c
    BY <1>7, DivMod DEF Division
  <1>10. n = Block * (K * q + p) + c /\ K * q + p \in Nat
    <2>1. K * q \in Nat /\ Block * (K * q + p) = Block * (K * q) + Block * p
      BY <1>2, <1>4, <1>9
    <2> QED
      BY <1>2, <1>4, <1>5, <1>9, <2>1 DEF g
  <1>11. n % Block = c
    <2>1. Division(n, Block, K * q + p, c)
      BY <1>9, <1>10 DEF Division
    <2> QED
      BY <2>1, DivModUnique
  <1> QED
    BY <1>1, <1>8, <1>9, <1>11

-----------------------------------------------------------------------------
(* One update.                                                             *)

(* Where the buffer ends is where the blocks end in the input.             *)
LEMMA BufferHeld ==
    ASSUME NEW S, NEW t \in Seq(S), NEW ctx, Holds(ctx, S, t)
    PROVE  BufferIndex(ctx.count) = Len(ctx.buffer)
  <1> USE Sizes
  <1>1. Len(t) \in Nat /\ Len(ctx.buffer) \in Nat /\ Len(ctx.blocks) \in Nat
    BY LenProperties DEF Holds
  <1>2. BufferIndex(ctx.count) = Len(t) % Block
    BY <1>1, IndexFacts DEF Holds
  <1>3. Division(Len(t), Block, Len(ctx.blocks), Len(ctx.buffer))
    BY <1>1 DEF Holds, Cut, Division
  <1> QED
    BY <1>1, <1>2, <1>3, DivModUnique

(* A piece of s.                                                           *)
Sub(s, lo, hi) == SubSeq(s, lo + 1, hi)

Slice(p, s, lo, hi) ==
    Len(p) = hi - lo /\ \A k \in 1..(hi - lo) : lo + k \in 1..Len(s) /\ p[k] = s[lo + k]

LEMMA Piece ==
    ASSUME NEW S, NEW s \in Seq(S), NEW lo \in Nat, NEW hi \in Nat, lo <= hi, hi <= Len(s)
    PROVE  Sub(s, lo, hi) \in Seq(S) /\ Slice(Sub(s, lo, hi), s, lo, hi)
  <1>1. Len(s) \in Nat /\ \A i \in 1..Len(s) : s[i] \in S
    BY LenProperties, ElementOfSeq
  <1>2. \A i \in (lo + 1)..hi : s[i] \in S
    BY <1>1
  <1> DEFINE t == SubSeq(s, lo + 1, hi)
             m == lo + 1
  <1>3. /\ t \in Seq(S) /\ Len(t) = IF m <= hi THEN hi - m + 1 ELSE 0
        /\ \A i \in 1..(hi - m + 1) : t[i] = s[m + i - 1]
    BY <1>2, SubSeqProperties
  <1> HIDE DEF t
  <1>4. \A k \in 1..(hi - lo) : m + k - 1 = lo + k /\ lo + k \in 1..Len(s)
    BY <1>1
  <1>5. hi - m + 1 = hi - lo /\ (m <= hi \/ hi - lo = 0)
    OBVIOUS
  <1> HIDE DEF m
  <1>6. \A k \in 1..(hi - lo) : t[k] = s[lo + k]
    BY <1>3, <1>4, <1>5
  <1>7. Len(t) = hi - lo
    BY <1>3, <1>5
  <1> QED
    BY <1>3, <1>4, <1>6, <1>7 DEF t, m, Sub, Slice

(* The whole blocks of s, and the rest, are s.                             *)
Pieces(W, R, s) ==
    /\ Len(W) * Block + Len(R) = Len(s) /\ Len(R) < Block
    /\ \A b \in 1..Len(W) : Len(W[b]) = Block
    /\ \A b \in 1..Len(W), k \in 1..Block : W[b][k] = s[(b - 1) * Block + k]
    /\ \A k \in 1..Len(R) : R[k] = s[Len(W) * Block + k]

LEMMA WholeFacts ==
    ASSUME NEW S, NEW s \in Seq(S)
    PROVE  /\ Whole(s) \in Seq(Seq(S)) /\ Rest(s) \in Seq(S)
           /\ Pieces(Whole(s), Rest(s), s)
  <1> USE Sizes
  <1> DEFINE q == Len(s) \div Block
             r == Len(s) % Block
  <1>1. Len(s) \in Nat /\ \A i \in 1..Len(s) : s[i] \in S
    BY LenProperties, ElementOfSeq
  <1>2. q \in Nat /\ r \in 0..(Block - 1) /\ Len(s) = Block * q + r
    BY <1>1, DivMod DEF Division
  <1>3. Whole(s) = [b \in 1..q |-> SubSeq(s, (b - 1) * Block + 1, b * Block)]
    BY DEF Whole
  <1>4. Rest(s) = SubSeq(s, q * Block + 1, Len(s))
    BY DEF Rest
  <1> HIDE DEF q, r
  <1>5. q * Block \in Nat /\ Len(s) = q * Block + r
    BY <1>2
  <1>6. ASSUME NEW b \in 1..q
        PROVE  /\ (b - 1) * Block \in Nat /\ b * Block = (b - 1) * Block + Block
               /\ b * Block <= Len(s)
    <2>1. (b - 1) * Block \in Nat /\ b * Block <= q * Block
      BY <1>2, Products
    <2>2. b * Block = (b - 1) * Block + Block
      OBVIOUS
    <2> QED
      BY <1>2, <1>5, <2>1, <2>2
  <1>7. ASSUME NEW b \in 1..q
        PROVE  /\ SubSeq(s, (b - 1) * Block + 1, b * Block) \in Seq(S)
               /\ Len(SubSeq(s, (b - 1) * Block + 1, b * Block)) = Block
               /\ \A k \in 1..Block :
                     /\ (b - 1) * Block + k \in 1..Len(s)
                     /\ SubSeq(s, (b - 1) * Block + 1, b * Block)[k] = s[(b - 1) * Block + k]
    <2> DEFINE lo == (b - 1) * Block
               hi == b * Block
    <2>1. lo \in Nat /\ hi \in Nat /\ lo <= hi /\ hi <= Len(s) /\ hi - lo = Block
      BY <1>6
    <2> HIDE DEF lo, hi
    <2>2. Sub(s, lo, hi) \in Seq(S) /\ Slice(Sub(s, lo, hi), s, lo, hi)
      BY <2>1, Piece
    <2>3. /\ SubSeq(s, lo + 1, hi) \in Seq(S) /\ Len(SubSeq(s, lo + 1, hi)) = Block
          /\ \A k \in 1..Block :
                lo + k \in 1..Len(s) /\ SubSeq(s, lo + 1, hi)[k] = s[lo + k]
      BY <2>1, <2>2, Zenon DEF Sub, Slice
    <2> QED
      BY <2>3, Zenon DEF lo, hi
  <1>8. /\ Whole(s) \in Seq(Seq(S)) /\ Len(Whole(s)) = q
        /\ \A b \in 1..q : Whole(s)[b] = SubSeq(s, (b - 1) * Block + 1, b * Block)
    <2>1. \A b \in 1..q : SubSeq(s, (b - 1) * Block + 1, b * Block) \in Seq(S)
      BY <1>7, Zenon
    <2>2. /\ Whole(s) \in [1..q -> Seq(S)]
          /\ \A b \in 1..q : Whole(s)[b] = SubSeq(s, (b - 1) * Block + 1, b * Block)
      BY <1>3, <2>1, Zenon
    <2> QED
      BY <1>2, <2>2
  <1>9. /\ Rest(s) \in Seq(S) /\ Len(Rest(s)) = r
        /\ \A k \in 1..r : /\ q * Block + k \in 1..Len(s)
                           /\ Rest(s)[k] = s[q * Block + k]
    <2> DEFINE lo == q * Block
    <2>1. lo \in Nat /\ lo <= Len(s) /\ Len(s) - lo = r
      BY <1>2, <1>5
    <2>2. Rest(s) = Sub(s, lo, Len(s))
      BY <1>4, Zenon DEF Sub
    <2> HIDE DEF lo
    <2>3. Rest(s) \in Seq(S) /\ Slice(Rest(s), s, lo, Len(s))
      BY <1>1, <2>1, <2>2, Piece
    <2> QED
      BY <2>1, <2>3, Zenon DEF lo, Slice
  <1>10. \A b \in 1..Len(Whole(s)) :
            /\ Len(Whole(s)[b]) = Block
            /\ \A k \in 1..Block : /\ (b - 1) * Block + k \in 1..Len(s)
                                   /\ Whole(s)[b][k] = s[(b - 1) * Block + k]
    <2> SUFFICES ASSUME NEW b \in 1..q
                 PROVE  /\ Len(Whole(s)[b]) = Block
                        /\ \A k \in 1..Block : /\ (b - 1) * Block + k \in 1..Len(s)
                                               /\ Whole(s)[b][k] = s[(b - 1) * Block + k]
      BY <1>8, Zenon
    <2>1. Whole(s)[b] = SubSeq(s, (b - 1) * Block + 1, b * Block)
      BY <1>8, Zenon
    <2>2. /\ Len(SubSeq(s, (b - 1) * Block + 1, b * Block)) = Block
          /\ \A k \in 1..Block :
                /\ (b - 1) * Block + k \in 1..Len(s)
                /\ SubSeq(s, (b - 1) * Block + 1, b * Block)[k] = s[(b - 1) * Block + k]
      BY <1>7, Zenon
    <2> QED
      BY <2>1, <2>2, Zenon
  <1>11. Len(Whole(s)) * Block + Len(Rest(s)) = Len(s) /\ Len(Rest(s)) < Block
    BY <1>2, <1>5, <1>8, <1>9
  <1> QED
    BY <1>8, <1>9, <1>10, <1>11, Zenon DEF Pieces

LEMMA CountTypes ==
    ASSUME NEW n \in Nat
    PROVE  CountOf(n) \in (0..(Word - 1)) \X (0..(Word - 1))
  <1> USE Sizes
  <1> DEFINE x == n * Byte
  <1>1. x \in Nat
    OBVIOUS
  <1>2. CountOf(n) = <<x % Word, (x \div Word) % Word>>
    BY DEF CountOf
  <1> HIDE DEF x
  <1>3. x \div Word \in Nat /\ x % Word \in 0..(Word - 1)
    BY <1>1, DivMod DEF Division
  <1>4. (x \div Word) % Word \in 0..(Word - 1)
    BY <1>3, DivMod DEF Division
  <1> QED
    BY <1>2, <1>3, <1>4

(* The place of the k-th byte of block b of m.                             *)
LEMMA Place ==
    ASSUME NEW m \in Nat, NEW b \in 1..m, NEW k \in 1..Block
    PROVE  (b - 1) * Block + k \in 1..(m * Block)
  <1> USE Sizes
  <1> DEFINE lo == (b - 1) * Block
             hi == b * Block
             all == m * Block
  <1>1. hi \in Nat /\ all \in Nat /\ hi <= all
    BY Products
  <1>2. lo \in Nat
    BY Products
  <1>3. hi = lo + Block
    OBVIOUS
  <1> HIDE DEF lo, hi, all
  <1>4. lo + k \in 1..all
    BY <1>1, <1>2, <1>3
  <1> QED
    BY <1>4 DEF lo, all

(* Where the buffer begins.                                                *)
HasBase(ctx, t) ==
    \E base \in Nat :
        /\ base = Len(ctx.blocks) * Block
        /\ base + Len(ctx.buffer) = Len(t)
        /\ \A k \in 1..Len(ctx.buffer) : ctx.buffer[k] = t[base + k]

LEMMA Base ==
    ASSUME NEW S, NEW t \in Seq(S), NEW ctx, Holds(ctx, S, t)
    PROVE  HasBase(ctx, t)
  <1> DEFINE base == Len(ctx.blocks) * Block
  <1>1. Len(ctx.blocks) \in Nat
    BY LenProperties DEF Holds
  <1>2. base \in Nat
    BY <1>1, Sizes
  <1>3. /\ base + Len(ctx.buffer) = Len(t)
        /\ \A k \in 1..Len(ctx.buffer) : ctx.buffer[k] = t[base + k]
    BY Zenon DEF Holds, Cut
  <1> QED
    BY <1>2, <1>3, Zenon DEF HasBase

InPlace(ctx, t) ==
    \A b \in 1..Len(ctx.blocks), k \in 1..Block : ctx.blocks[b][k] = t[(b - 1) * Block + k]

(* What is in the blocks stays where it is when bytes follow.              *)
LEMMA KeptBlocks ==
    ASSUME NEW S, NEW t \in Seq(S), NEW s \in Seq(S), NEW ctx, Holds(ctx, S, t)
    PROVE  InPlace(ctx, t \o s)
  <1> SUFFICES ASSUME NEW b \in 1..Len(ctx.blocks), NEW k \in 1..Block
               PROVE  ctx.blocks[b][k] = (t \o s)[(b - 1) * Block + k]
    BY Zenon DEF InPlace
  <1> DEFINE i == (b - 1) * Block + k
  <1>1. /\ Len(ctx.blocks) \in Nat /\ Len(ctx.buffer) \in Nat
        /\ Len(t) \in Nat /\ Len(s) \in Nat
    BY LenProperties DEF Holds
  <1>2. ctx.blocks[b][k] = t[i]
    BY Zenon DEF Holds, Cut
  <1>3. PICK base \in Nat : base = Len(ctx.blocks) * Block /\ base + Len(ctx.buffer) = Len(t)
    BY Base DEF HasBase
  <1>4. i \in 1..base
    BY <1>1, <1>3, Place
  <1> HIDE DEF i
  <1>5. i \in 1..Len(t) /\ i \in 1..(Len(t) + Len(s))
    BY <1>1, <1>3, <1>4
  <1>6. (t \o s)[i] = t[i]
    BY <1>1, <1>5, ConcatProperties
  <1> QED
    BY <1>2, <1>6 DEF i

FrontOf(p, s) == Len(p) <= Len(s) /\ \A k \in 1..Len(p) : p[k] = s[k]

(* p is in t behind its first n bytes.                                     *)
PieceOf(p, t, n) == \A k \in 1..Len(p) : p[k] = t[n + k]

(* The buffer is filled up from the front of s.                            *)
LEMMA Filled ==
    ASSUME NEW S, NEW t \in Seq(S), NEW s \in Seq(S), NEW ctx, Holds(ctx, S, t),
           NEW p \in Seq(S), FrontOf(p, s)
    PROVE  /\ ctx.buffer \o p \in Seq(S) /\ Len(ctx.buffer \o p) = Len(ctx.buffer) + Len(p)
           /\ PieceOf(ctx.buffer \o p, t \o s, Len(ctx.blocks) * Block)
  <1> DEFINE u    == t \o s
             both == ctx.buffer \o p
  <1>1. ctx.buffer \in Seq(S)
    BY DEF Holds
  <1>2. /\ Len(t) \in Nat /\ Len(s) \in Nat /\ Len(ctx.buffer) \in Nat /\ Len(p) \in Nat
    BY <1>1, LenProperties
  <1>3. PICK base \in Nat : /\ base = Len(ctx.blocks) * Block
                            /\ base + Len(ctx.buffer) = Len(t)
                            /\ \A k \in 1..Len(ctx.buffer) : ctx.buffer[k] = t[base + k]
    BY Base DEF HasBase
  <1>4. /\ Len(u) = Len(t) + Len(s)
        /\ \A i \in 1..(Len(t) + Len(s)) : u[i] = IF i <= Len(t) THEN t[i] ELSE s[i - Len(t)]
    BY ConcatProperties
  <1>5. /\ both \in Seq(S) /\ Len(both) = Len(ctx.buffer) + Len(p)
        /\ \A i \in 1..(Len(ctx.buffer) + Len(p)) :
              both[i] = IF i <= Len(ctx.buffer) THEN ctx.buffer[i]
                                     ELSE p[i - Len(ctx.buffer)]
    BY <1>1, ConcatProperties
  <1> HIDE DEF u, both
  <1>6. ASSUME NEW k \in 1..Len(both)
        PROVE  both[k] = u[base + k]
    <2> DEFINE top == Len(t)
               len == Len(ctx.buffer)
               new == Len(p)
    <2>1. /\ top \in Nat /\ len \in Nat /\ new \in Nat /\ base + len = top
          /\ Len(s) \in Nat /\ new <= Len(s) /\ k \in 1..(len + new)
      BY <1>2, <1>3, <1>5, Zenon DEF FrontOf
    <2> HIDE DEF top, len, new
    <2>2. base + k \in 1..(top + Len(s))
      BY <2>1
    <2>3. CASE k <= len
      <3>1. base + k <= top /\ k \in 1..len
        BY <2>1, <2>3
      <3>2. both[k] = ctx.buffer[k]
        BY <1>5, <2>1, <2>3 DEF len, new
      <3>3. u[base + k] = t[base + k]
        BY <1>4, <2>2, <3>1 DEF top
      <3> QED
        BY <1>3, <3>1, <3>2, <3>3, Zenon DEF len
    <2>4. CASE k > len
      <3>1. ~(base + k <= top) /\ (base + k) - top = k - len /\ k - len \in 1..new
        <4>1. base + k > top /\ k - len \in 1..new
          BY <2>1, <2>4
        <4>2. (base + k) - top = k - len
          BY <2>1
        <4>3. ~(base + k <= top)
          BY <2>1, <4>1
        <4> QED
          BY <4>1, <4>2, <4>3, Zenon
      <3>2. both[k] = p[k - len]
        BY <1>5, <2>1, <2>4 DEF len, new
      <3>3. u[base + k] = s[(base + k) - top]
        BY <1>4, <2>2, <3>1 DEF top
      <3>4. p[k - len] = s[k - len]
        BY <3>1 DEF new, FrontOf
      <3> QED
        BY <3>1, <3>2, <3>3, <3>4, Zenon
    <2> QED
      BY <2>1, <2>3, <2>4
  <1>7. PieceOf(both, u, Len(ctx.blocks) * Block)
    BY <1>3, <1>6, Zenon DEF PieceOf
  <1> QED
    BY <1>5, <1>7, Zenon DEF both, u

(* Bytes that do not fill the buffer are added to it.                      *)
LEMMA UpdatedBuffer ==
    ASSUME NEW S, NEW t \in Seq(S), NEW s \in Seq(S), NEW ctx, Holds(ctx, S, t),
           Len(s) < Block - Len(ctx.buffer)
    PROVE  Holds([ctx EXCEPT !.count = Counted(@, Len(s)), !.buffer = ctx.buffer \o s], S, t \o s)
  <1> USE Sizes
  <1> DEFINE new  == [ctx EXCEPT !.count = Counted(@, Len(s)), !.buffer = ctx.buffer \o s]
             u    == t \o s
             both == ctx.buffer \o s
  <1>1. /\ ctx.buffer \in Seq(S) /\ ctx.blocks \in Seq(Seq(S))
        /\ ctx.count = CountOf(Len(t))
        /\ ctx \in [count : (0..(Word - 1)) \X (0..(Word - 1)),
                    buffer : Seq(S), blocks : Seq(Seq(S))]
    BY DEF Holds
  <1>2. /\ Len(t) \in Nat /\ Len(s) \in Nat /\ Len(ctx.buffer) \in Nat
    BY <1>1, LenProperties
  <1>3. PICK base \in Nat : base = Len(ctx.blocks) * Block /\ base + Len(ctx.buffer) = Len(t)
    BY Base DEF HasBase
  <1>4. /\ u \in Seq(S) /\ Len(u) = Len(t) + Len(s)
    BY ConcatProperties
  <1>5. /\ both \in Seq(S) /\ Len(both) = Len(ctx.buffer) + Len(s)
        /\ PieceOf(both, u, Len(ctx.blocks) * Block)
    <2>1. FrontOf(s, s)
      BY <1>2 DEF FrontOf
    <2> QED
      BY <2>1, Filled
  <1>6. /\ Counted(ctx.count, Len(s)) = CountOf(Len(u))
        /\ CountOf(Len(u)) \in (0..(Word - 1)) \X (0..(Word - 1))
    <2>1. Counted(ctx.count, Len(s)) = CountOf(Len(t) + Len(s))
      BY <1>1, <1>2, CountedFacts
    <2>2. Len(t) + Len(s) \in Nat
      BY <1>2
    <2>3. CountOf(Len(t) + Len(s)) \in (0..(Word - 1)) \X (0..(Word - 1))
      BY <2>2, CountTypes
    <2> QED
      BY <1>4, <2>1, <2>3, Zenon
  <1>7. /\ new.count = CountOf(Len(u)) /\ new.buffer = both
        /\ new.blocks = ctx.blocks
        /\ new \in [count : (0..(Word - 1)) \X (0..(Word - 1)),
                    buffer : Seq(S), blocks : Seq(Seq(S))]
    BY <1>1, <1>5, <1>6
  <1>8. InPlace(ctx, u)
    BY KeptBlocks
  <1> HIDE DEF new, u, both
  <1>9. /\ base \in Nat /\ base + Len(ctx.buffer) = Len(t)
        /\ Len(u) = Len(t) + Len(s) /\ Len(both) = Len(ctx.buffer) + Len(s)
    BY <1>3, <1>4, <1>5, Zenon
  <1>10. Cut(new, u)
    <2>1. base + Len(both) = Len(u) /\ Len(both) < Block
      <3>1. base + (Len(ctx.buffer) + Len(s)) = (base + Len(ctx.buffer)) + Len(s)
        BY <1>2, <1>9, SumOfThree, Zenon
      <3>2. base + Len(both) = Len(u)
        BY <1>9, <3>1, Zenon
      <3>3. Len(both) < Block
        BY <1>2, <1>9
      <3> QED
        BY <3>2, <3>3
    <2>2. \A b \in 1..Len(ctx.blocks) : Len(ctx.blocks[b]) = Block
      BY Zenon DEF Holds, Cut
    <2>3. \A k \in 1..Len(both) : both[k] = u[Len(ctx.blocks) * Block + k]
      BY <1>5, Zenon DEF PieceOf
    <2>4. Len(ctx.blocks) * Block + Len(both) = Len(u)
      BY <1>3, <2>1, Zenon
    <2> QED
      BY <1>7, <1>8, <2>1, <2>2, <2>3, <2>4, Zenon DEF Cut, InPlace
  <1> QED
    BY <1>7, <1>10, Zenon DEF Holds, new, u, both

(* What follows the bytes that fill the buffer up.                         *)
LEMMA Behind ==
    ASSUME NEW S, NEW t \in Seq(S), NEW s \in Seq(S), NEW n \in Nat, n <= Len(s)
    PROVE  /\ Sub(s, n, Len(s)) \in Seq(S) /\ Len(Sub(s, n, Len(s))) = Len(s) - n
           /\ PieceOf(Sub(s, n, Len(s)), t \o s, Len(t) + n)
  <1> DEFINE later == Sub(s, n, Len(s))
             u     == t \o s
             top   == Len(t)
             all   == Len(s)
  <1>1. Len(s) \in Nat /\ Len(t) \in Nat
    BY LenProperties
  <1>2. later \in Seq(S) /\ Slice(later, s, n, Len(s))
    BY <1>1, Piece
  <1>3. \A i \in 1..(top + all) : u[i] = IF i <= top THEN t[i] ELSE s[i - top]
    BY ConcatProperties
  <1> HIDE DEF later, u, top
  <1>4. ASSUME NEW k \in 1..Len(later)
        PROVE  later[k] = u[(top + n) + k]
    <2>1. k \in 1..(all - n) /\ n + k \in 1..all /\ later[k] = s[n + k]
      BY <1>2, Zenon DEF Slice
    <2>2. all \in Nat /\ top \in Nat
      BY <1>1 DEF top
    <2> HIDE DEF all
    <2>3. (top + n) + k \in 1..(top + all) /\ ~((top + n) + k <= top)
      BY <2>1, <2>2
    <2>4. ((top + n) + k) - top = n + k
      BY <2>1, <2>2
    <2>5. u[(top + n) + k] = s[((top + n) + k) - top]
      BY <1>3, <2>3, Zenon
    <2> QED
      BY <2>1, <2>4, <2>5, Zenon
  <1>5. PieceOf(later, u, top + n)
    BY <1>4, Zenon DEF PieceOf
  <1> QED
    BY <1>2, <1>5, Zenon DEF later, u, top, Slice

(* p is a block of q, the one after b others.                              *)
BlockAt(p, q, b) == Len(p) = Block /\ \A k \in 1..Block : p[k] = q[b * Block + k]

(* A block of q, which begins in t behind its first n bytes.               *)
LEMMA BlockOfPiece ==
    ASSUME NEW q, NEW u, NEW n \in Nat, PieceOf(q, u, n),
           NEW b \in Nat, b * Block + Block <= Len(q), Len(q) \in Nat,
           NEW p, BlockAt(p, q, b)
    PROVE  PieceOf(p, u, n + b * Block)
  <1> DEFINE lo == b * Block
  <1>1. lo \in Nat
    BY Sizes
  <1>2. /\ lo + Block <= Len(q) /\ Block \in Nat /\ Len(p) = Block
        /\ \A k \in 1..Block : p[k] = q[lo + k]
    BY Sizes, Zenon DEF BlockAt
  <1> HIDE DEF lo
  <1>3. ASSUME NEW k \in 1..Len(p) PROVE p[k] = u[(n + lo) + k]
    <2>1. k \in 1..Block /\ lo + k \in 1..Len(q) /\ n + (lo + k) = (n + lo) + k
      BY <1>1, <1>2
    <2>2. q[lo + k] = u[n + (lo + k)]
      BY <2>1, Zenon DEF PieceOf
    <2> QED
      BY <1>2, <2>1, <2>2, Zenon
  <1> QED
    BY <1>3, Zenon DEF PieceOf, lo

(* Bytes that fill the buffer up, and those behind them.                   *)
LEMMA UpdatedBlocks ==
    ASSUME NEW S, NEW t \in Seq(S), NEW s \in Seq(S), NEW ctx, Holds(ctx, S, t),
           NEW space, space = Block - Len(ctx.buffer), Len(s) >= space
    PROVE  Holds([count  |-> Counted(ctx.count, Len(s)),
                  blocks |-> Append(ctx.blocks, ctx.buffer \o SubSeq(s, 1, space))
                             \o Whole(SubSeq(s, space + 1, Len(s))),
                  buffer |-> Rest(SubSeq(s, space + 1, Len(s)))], S, t \o s)
  <1> DEFINE full == ctx.buffer \o SubSeq(s, 1, space)
             later == SubSeq(s, space + 1, Len(s))
             B == Len(ctx.blocks)
             L == Len(ctx.buffer)
             T == Len(t)
             N == Len(s)
             u == t \o s
             W == Whole(later)
             R == Rest(later)
             w == Len(W)
             r == Len(R)
             one == Append(ctx.blocks, full)
             new == one \o W
             base == B * Block
             rows == w * Block
  <1>1. /\ ctx.buffer \in Seq(S) /\ ctx.blocks \in Seq(Seq(S))
        /\ ctx.count = CountOf(T)
    BY DEF Holds
  <1>2. B \in Nat /\ L \in Nat /\ T \in Nat /\ N \in Nat /\ L < Block /\ Block \in Nat \ {0}
    BY <1>1, LenProperties, Sizes DEF Holds, Cut
  <1>3. base \in Nat /\ base + L = T
    BY Base DEF HasBase
  <1>4. space \in Nat /\ space >= 1 /\ space <= N /\ L + space = Block /\ T + space = base + Block
    <2> HIDE DEF full, later, base, L, T, N
    <2>1. space = Block - L /\ N >= space
      BY DEF L, N
    <2>2. space \in Nat /\ space >= 1 /\ space <= N /\ L + space = Block
      <3>2. Block \in Nat
        BY <1>2, Zenon
      <3>3. space \in Nat /\ space >= 1 /\ L + space = Block
        BY <1>2, <2>1, <3>2, Difference, Zenon
      <3> QED
        BY <1>2, <2>1, <3>3
    <2>3. T + space = base + Block
      <3>1. T = base + L /\ Block = L + space
        BY <1>3, <2>2
      <3>3. (base + L) + space = base + (L + space)
        BY <1>2, <1>3, <2>2, SumOfThree, Zenon
      <3> QED
        BY <3>1, <3>3, Zenon
    <2> QED
      BY <2>2, <2>3, Zenon
  <1>5. /\ full \in Seq(S) /\ Len(full) = Block
        /\ PieceOf(full, u, base)
    <2> DEFINE p == SubSeq(s, 1, space)
    <2>1. 0 \in Nat /\ 0 <= space /\ N = Len(s)
      BY <1>4
    <2>2. Sub(s, 0, space) \in Seq(S) /\ Slice(Sub(s, 0, space), s, 0, space)
      BY <1>4, <2>1, Piece
    <2>3. p \in Seq(S) /\ Len(p) = space /\ \A k \in 1..space : p[k] = s[k]
      <3>1. Sub(s, 0, space) = p /\ space - 0 = space /\ \A k \in 1..space : 0 + k = k
        BY <1>4 DEF Sub
      <3> HIDE DEF p
      <3> QED
        BY <2>2, <3>1, Zenon DEF Slice
    <2> HIDE DEF p
    <2>4. FrontOf(p, s)
      BY <1>4, <2>3, Zenon DEF FrontOf
    <2>5. /\ ctx.buffer \o p \in Seq(S) /\ Len(ctx.buffer \o p) = L + Len(p)
          /\ PieceOf(ctx.buffer \o p, u, base)
      BY <2>3, <2>4, Filled
    <2>6. full = ctx.buffer \o p
      BY DEF p
    <2> QED
      BY <1>4, <2>3, <2>5, <2>6, Zenon
  <1>6. later \in Seq(S) /\ Len(later) = N - space /\ PieceOf(later, u, base + Block)
    <2>1. /\ Sub(s, space, Len(s)) \in Seq(S) /\ Len(Sub(s, space, Len(s))) = Len(s) - space
          /\ PieceOf(Sub(s, space, Len(s)), t \o s, Len(t) + space)
      <3>1. space \in Nat /\ space <= Len(s)
        BY <1>4, Zenon
      <3> HIDE DEF full, later, B, L, T, N, base, W, R, w, r, rows, one, new
      <3> QED
        BY <3>1, Behind
    <2>2. later = Sub(s, space, Len(s))
      BY Zenon DEF Sub
    <2> HIDE DEF later
    <2> QED
      BY <1>4, <2>1, <2>2, Zenon
  <1> HIDE DEF full, later
  <1>7. /\ W \in Seq(Seq(S)) /\ R \in Seq(S)
        /\ w * Block + r = Len(later) /\ r < Block
        /\ \A b \in 1..w : Len(W[b]) = Block
        /\ \A b \in 1..w, k \in 1..Block : W[b][k] = later[(b - 1) * Block + k]
        /\ \A k \in 1..r : R[k] = later[w * Block + k]
    <2>1. W \in Seq(Seq(S)) /\ R \in Seq(S) /\ Pieces(W, R, later)
      BY <1>6, WholeFacts
    <2> QED
      BY <2>1, Zenon DEF Pieces
  <1>8. rows \in Nat /\ rows + r = N - space /\ w \in Nat /\ r \in Nat
    <2>1. w \in Nat /\ r \in Nat
      BY <1>7, LenProperties
    <2> HIDE DEF w, r, N, L, T, B, base
    <2>2. rows \in Nat
      BY <2>1, <1>2
    <2>3. rows + r = N - space
      BY <1>6, <1>7, Zenon
    <2> QED
      BY <2>1, <2>2, <2>3, Zenon
  <1> HIDE DEF B, L, T, N, u, W, R, w, r, base, rows
  <1>9. /\ one \in Seq(Seq(S)) /\ Len(one) = B + 1
        /\ one[B + 1] = full /\ \A b \in 1..B : one[b] = ctx.blocks[b]
    <2>1. full \in Seq(S) /\ ctx.blocks \in Seq(Seq(S))
      BY <1>1, <1>5, Zenon
    <2> QED
      BY <2>1, AppendProperties DEF B
  <1> HIDE DEF one
  <1>10. /\ new \in Seq(Seq(S)) /\ Len(new) = B + 1 + w
         /\ \A b \in 1..(B + 1 + w) : new[b] = IF b <= B + 1 THEN one[b] ELSE W[b - (B + 1)]
    <2>1. /\ new \in Seq(Seq(S)) /\ Len(new) = Len(one) + Len(W)
          /\ \A b \in 1..(Len(one) + Len(W)) :
                new[b] = IF b <= Len(one) THEN one[b] ELSE W[b - Len(one)]
      <3>1. one \in Seq(Seq(S)) /\ W \in Seq(Seq(S))
        BY <1>7, <1>9, Zenon
      <3> QED
        BY <3>1, ConcatProperties
    <2> QED
      BY <1>9, <2>1, Zenon DEF w
  <1> HIDE DEF new
  <1>11. ASSUME NEW b \in 1..(B + 1 + w)
         PROVE  Len(new[b]) = Block /\ PieceOf(new[b], u, (b - 1) * Block)
    <2>1. CASE b <= B
      <3>1. b \in 1..B /\ b <= B + 1
        BY <1>2, <2>1
      <3>2. new[b] = ctx.blocks[b]
        BY <1>9, <1>10, <3>1
      <3>3. Len(ctx.blocks[b]) = Block /\ InPlace(ctx, u)
        BY <3>1, KeptBlocks DEF Holds, Cut, B, u
      <3> QED
        BY <3>1, <3>2, <3>3, Zenon DEF PieceOf, InPlace, B
    <2>2. CASE b = B + 1
      <3>1. new[b] = full
        <4>1. b \in 1..(B + 1 + w) /\ b <= B + 1
          BY <1>2, <1>8, <2>2
        <4>2. new[b] = one[b]
          BY <1>10, <4>1
        <4> QED
          BY <1>9, <2>2, <4>2, Zenon
      <3>2. (b - 1) * Block = base
        BY <1>2, <2>2 DEF base
      <3> QED
        BY <1>5, <3>1, <3>2, Zenon
    <2>3. CASE b > B + 1
      <3> DEFINE c == b - (B + 1)
                 d == c - 1
      <3>1. c \in 1..w /\ d \in Nat /\ c = d + 1 /\ b - 1 = B + 1 + d /\ ~(b <= B + 1)
        BY <1>2, <1>8, <2>3
      <3>2. new[b] = W[c]
        BY <1>10, <3>1, Zenon
      <3> HIDE DEF c, d
      <3>3. (b - 1) * Block = (base + Block) + d * Block
        BY <1>2, <3>1 DEF base
      <3>4. BlockAt(W[c], later, d)
        <4>1. d = c - 1
          BY <3>1
        <4> QED
          BY <1>7, <3>1, <4>1, Zenon DEF BlockAt
      <3>6. base + Block \in Nat /\ Len(later) \in Nat
        BY <1>2, <1>3, <1>6, LenProperties
      <3>5. d * Block + Block <= Len(later)
        <4>1. c * Block <= w * Block /\ c * Block = d * Block + Block
          BY <1>2, <1>8, <3>1, Products
        <4>2. rows <= Len(later)
          BY <1>6, <1>8
        <4>3. c * Block \in Nat /\ d * Block \in Nat
          BY <1>2, <3>1
        <4> DEFINE x == c * Block
                   y == d * Block
        <4>4. x <= rows /\ x = y + Block /\ x \in Nat /\ y \in Nat
          BY <4>1, <4>3, Zenon DEF rows
        <4> HIDE DEF x, y
        <4>5. y + Block <= Len(later)
          BY <1>2, <1>8, <3>6, <4>2, <4>4
        <4> QED
          BY <4>5 DEF y
      <3>7. PieceOf(W[c], u, (base + Block) + d * Block)
        BY <1>6, <3>1, <3>4, <3>5, <3>6, BlockOfPiece
      <3> QED
        BY <3>2, <3>3, <3>4, <3>7, Zenon DEF BlockAt
    <2> QED
      BY <1>2, <2>1, <2>2, <2>3
  <1>12. (B + 1 + w) * Block = (base + Block) + rows
    BY <1>2, <1>8 DEF base, rows
  <1>13. PieceOf(R, u, (base + Block) + rows)
    <2> SUFFICES ASSUME NEW k \in 1..r PROVE R[k] = u[((base + Block) + rows) + k]
      BY Zenon DEF PieceOf, r
    <2>1. R[k] = later[rows + k]
      BY <1>7, Zenon DEF rows
    <2>2. /\ rows + k \in 1..(N - space)
          /\ (base + Block) + (rows + k) = ((base + Block) + rows) + k
      BY <1>2, <1>3, <1>8
    <2>3. later[rows + k] = u[(base + Block) + (rows + k)]
      BY <1>6, <2>2, Zenon DEF PieceOf
    <2> QED
      BY <2>1, <2>2, <2>3, Zenon
  <1>14. Len(u) = T + N /\ u \in Seq(S)
    BY ConcatProperties DEF u, T, N
  <1>15. ((base + Block) + rows) + r = Len(u)
    BY <1>2, <1>3, <1>4, <1>8, <1>14
  <1>16. /\ Counted(ctx.count, N) = CountOf(Len(u))
         /\ CountOf(Len(u)) \in (0..(Word - 1)) \X (0..(Word - 1))
    <2>1. Counted(ctx.count, N) = CountOf(T + N) /\ T + N \in Nat
      BY <1>1, <1>2, CountedFacts
    <2>2. CountOf(T + N) \in (0..(Word - 1)) \X (0..(Word - 1))
      BY <2>1, CountTypes
    <2> QED
      BY <1>14, <2>1, <2>2, Zenon
  <1> DEFINE result == [count |-> Counted(ctx.count, N), blocks |-> new, buffer |-> R]
  <1>17. /\ result.count = CountOf(Len(u)) /\ result.blocks = new /\ result.buffer = R
         /\ result \in [count : (0..(Word - 1)) \X (0..(Word - 1)),
                        buffer : Seq(S), blocks : Seq(Seq(S))]
    BY <1>7, <1>10, <1>16
  <1> HIDE DEF result
  <1>18. Cut(result, u)
    <2>1. Len(new) * Block = (base + Block) + rows
      BY <1>10, <1>12, Zenon
    <2>2. Len(new) * Block + Len(R) = Len(u) /\ Len(R) < Block
      BY <1>7, <1>15, <2>1, Zenon DEF r
    <2>3. \A b \in 1..Len(new) : Len(new[b]) = Block
      BY <1>10, <1>11, Zenon
    <2>4. \A b \in 1..Len(new), k \in 1..Block : new[b][k] = u[(b - 1) * Block + k]
      BY <1>10, <1>11, Zenon DEF PieceOf
    <2>5. \A k \in 1..Len(R) : R[k] = u[Len(new) * Block + k]
      BY <1>13, <2>1, Zenon DEF PieceOf
    <2> QED
      BY <1>17, <2>2, <2>3, <2>4, <2>5, Zenon DEF Cut
  <1>19. Holds(result, S, u)
    BY <1>17, <1>18, Zenon DEF Holds
  <1> QED
    BY <1>19, Zenon DEF result, u, new, one, W, R, N, full, later

(* update() adds what it is given, whatever the buffer holds.              *)
LEMMA UpdatedHolds ==
    ASSUME NEW S, NEW t \in Seq(S), NEW s \in Seq(S), NEW ctx, Holds(ctx, S, t)
    PROVE  Holds(Updated(ctx, s), S, t \o s)
  <1> DEFINE space == Block - Len(ctx.buffer)
  <1>1. ctx.buffer \in Seq(S) /\ Len(ctx.buffer) \in Nat /\ Len(s) \in Nat /\ Block \in Nat
    BY LenProperties, Sizes DEF Holds
  <1>2. BufferIndex(ctx.count) = Len(ctx.buffer) /\ BufferSpace(ctx.count) = space
    BY BufferHeld DEF BufferSpace
  <1>3. SubSeq(ctx.buffer, 1, BufferIndex(ctx.count)) = ctx.buffer
    BY <1>1, <1>2, SubSeqFull
  <1>4. CASE Len(s) >= space
    <2>1. Updated(ctx, s)
          = [count  |-> Counted(ctx.count, Len(s)),
             blocks |-> Append(ctx.blocks, ctx.buffer \o SubSeq(s, 1, space))
                        \o Whole(SubSeq(s, space + 1, Len(s))),
             buffer |-> Rest(SubSeq(s, space + 1, Len(s)))]
      BY <1>2, <1>3, <1>4, Zenon DEF Updated
    <2> QED
      BY <1>4, <2>1, UpdatedBlocks
  <1>5. CASE ~(Len(s) >= space)
    <2>1. Updated(ctx, s)
          = [ctx EXCEPT !.count = Counted(@, Len(s)), !.buffer = ctx.buffer \o s]
      BY <1>2, <1>3, <1>5, Zenon DEF Updated
    <2>2. Len(s) < Block - Len(ctx.buffer)
      BY <1>1, <1>5
    <2>3. Holds([ctx EXCEPT !.count = Counted(@, Len(s)), !.buffer = ctx.buffer \o s], S, t \o s)
      BY <2>2, UpdatedBuffer
    <2> QED
      BY <2>1, <2>3, Zenon
  <1> QED
    BY <1>4, <1>5

-----------------------------------------------------------------------------
(* The padding.                                                            *)

Zeros(n) == CHOOSE z \in 0..(Block - 1) : (n + 1 + z + 2 * WordBytes) % Block = 0

(* finalize() appends as many bytes as RFC 1321 wants.                     *)
LEMMA PadFacts ==
    ASSUME NEW n \in Nat
    PROVE  /\ PadLen(n % Block) \in 1..Block
           /\ (n + PadLen(n % Block) + 2 * WordBytes) % Block = 0
           /\ Zeros(n) = PadLen(n % Block) - 1
  <1> DEFINE c == n % Block
             p == PadLen(c)
             q == n \div Block
             tail == 2 * WordBytes
  <1>1. q \in Nat /\ c \in 0..(Block - 1) /\ n = Block * q + c
    BY Sizes, DivMod DEF Division
  <1>2. Block \in Nat \ {0} /\ tail \in Nat /\ tail < Block /\ tail > 0
    BY Sizes
  <1>3. p = IF c < Block - tail THEN Block - tail - c ELSE 2 * Block - tail - c
    BY DEF PadLen
  <1> HIDE DEF c, p, q, tail
  <1>4. p \in 1..Block /\ (c + p + tail = Block \/ c + p + tail = Block + Block)
    BY <1>1, <1>2, <1>3
  <1>5. PICK m \in Nat : n + p + tail = Block * m
    <2>1. Block * (q + 1) = Block * q + Block /\ Block * (q + 2) = Block * q + (Block + Block)
      BY <1>1, <1>2
    <2> DEFINE z == Block * q
               y1 == Block * (q + 1)
               y2 == Block * (q + 2)
    <2>2. z \in Nat /\ n = z + c /\ y1 = z + Block /\ y2 = z + (Block + Block)
      BY <1>1, <1>2, <2>1
    <2> HIDE DEF z, y1, y2
    <2>3. n + p + tail = y1 \/ n + p + tail = y2
      BY <1>1, <1>2, <1>4, <2>2
    <2>4. q + 1 \in Nat /\ q + 2 \in Nat
      BY <1>1
    <2> QED
      BY <2>3, <2>4, Zenon DEF y1, y2
  <1>6. (n + p + tail) % Block = 0
    <2>1. Division(n + p + tail, Block, m, 0) /\ n + p + tail \in Nat
      BY <1>1, <1>2, <1>4, <1>5 DEF Division
    <2> QED
      BY <1>2, <2>1, DivModUnique
  <1>7. p - 1 \in 0..(Block - 1) /\ n + 1 + (p - 1) + tail = n + p + tail
    BY <1>1, <1>2, <1>4
  <1>8. ASSUME NEW z \in 0..(Block - 1), (n + 1 + z + tail) % Block = 0
        PROVE  z = p - 1
    <2> DEFINE a == n + 1 + z + tail
    <2>1. a \in Nat
      BY <1>2
    <2>2. PICK j \in Nat : a = Block * j
      <3>1. Division(a, Block, a \div Block, a % Block)
        BY <1>2, <2>1, DivMod
      <3>2. a % Block = 0 /\ a \div Block \in Nat /\ a = Block * (a \div Block) + (a % Block)
        BY <1>8, <3>1 DEF Division
      <3> HIDE DEF a
      <3>3. a = Block * (a \div Block)
        BY <1>2, <3>2
      <3> QED
        BY <3>2, <3>3, Zenon
    <2> DEFINE x == Block * j
               y == Block * m
    <2>3. /\ x = n + 1 + z + tail /\ y = n + p + tail /\ x \in Nat /\ y \in Nat
          /\ x % Block = 0 /\ y % Block = 0
      BY <1>5, <1>6, <1>8, <1>2, <2>2
    <2> HIDE DEF x, y, a
    <2>4. CASE z <= p - 1
      <3>1. y = x + ((p - 1) - z) /\ (p - 1) - z \in 0..(Block - 1)
        BY <1>1, <1>2, <1>4, <2>3, <2>4
      <3>2. Division(y, Block, j, (p - 1) - z)
        BY <3>1 DEF Division, x
      <3>3. (p - 1) - z = 0
        BY <1>2, <2>3, <3>2, DivModUnique
      <3> QED
        BY <1>4, <3>3
    <2>5. CASE p - 1 <= z
      <3>1. x = y + (z - (p - 1)) /\ z - (p - 1) \in 0..(Block - 1)
        BY <1>1, <1>2, <1>4, <2>3, <2>5
      <3>2. Division(x, Block, m, z - (p - 1))
        BY <3>1 DEF Division, y
      <3>3. z - (p - 1) = 0
        BY <1>2, <2>3, <3>2, DivModUnique
      <3> QED
        BY <1>4, <3>3
    <2> QED
      BY <1>4, <2>4, <2>5
  <1>9. Zeros(n) = p - 1
    <2>1. (n + 1 + (p - 1) + tail) % Block = 0
      BY <1>6, <1>7, Zenon
    <2>2. \E z \in 0..(Block - 1) : (n + 1 + z + tail) % Block = 0
      BY <1>7, <2>1, Zenon
    <2>3. /\ Zeros(n) \in 0..(Block - 1)
          /\ (n + 1 + Zeros(n) + tail) % Block = 0
      BY <2>2, Zenon DEF Zeros, tail
    <2> QED
      BY <1>8, <2>3, Zenon
  <1> QED
    BY <1>4, <1>6, <1>9 DEF p, c, tail

(* A number of bits of up to two words.                                    *)
LEMMA CountOfBits ==
    ASSUME NEW n \in Nat, NEW bits, bits = (n * Byte) % (Word * Word)
    PROVE  <<bits % Word, bits \div Word>> = CountOf(n)
  <1> DEFINE x == n * Byte
             x1 == x % Word
             x2 == x \div Word
             y == x2 % Word
             z == x2 \div Word
             sq == Word * Word
  <1>1. x \in Nat /\ Word \in Nat \ {0} /\ sq \in Nat \ {0} /\ bits = x % sq
    BY Sizes
  <1>2. CountOf(n) = <<x1, y>>
    BY DEF CountOf
  <1> HIDE DEF x
  <1>3. x1 \in 0..(Word - 1) /\ x2 \in Nat /\ x = Word * x2 + x1
    BY <1>1, DivMod DEF Division
  <1> HIDE DEF x1, x2
  <1>4. y \in 0..(Word - 1) /\ z \in Nat /\ x2 = Word * z + y
    BY <1>1, <1>3, DivMod DEF Division
  <1> HIDE DEF y, z
  <1> DEFINE low == Word * y + x1
  <1>5. low \in 0..(sq - 1)
    <2>1. Word * (y + 1) <= sq /\ Word * (y + 1) = Word * y + Word /\ Word * y \in Nat
      BY <1>1, <1>4, Products
    <2> DEFINE a == Word * y
               b == Word * (y + 1)
    <2>2. a \in Nat /\ b = a + Word /\ b <= sq /\ low = a + x1
      BY <2>1
    <2> HIDE DEF a, b, low, sq
    <2> QED
      BY <1>1, <1>3, <2>2
  <1>6. x = sq * z + low
    <2>1. Word * x2 = sq * z + Word * y
      BY <1>1, <1>4
    <2> QED
      BY <1>1, <1>3, <1>4, <2>1
  <1> HIDE DEF sq
  <1>7. bits = low
    <2>1. Division(x, sq, z, low)
      BY <1>4, <1>5, <1>6, Zenon DEF Division
    <2> QED
      BY <1>1, <2>1, DivModUnique
  <1>8. Division(bits, Word, y, x1) /\ bits \in Nat
    <2>1. low \in Nat
      BY <1>1, <1>5
    <2>2. bits = Word * y + x1 /\ y \in Nat
      BY <1>4, <1>7
    <2> HIDE DEF low
    <2> QED
      BY <1>3, <1>7, <2>1, <2>2, Zenon DEF Division
  <1>9. bits \div Word = y /\ bits % Word = x1
    BY <1>1, <1>8, DivModUnique
  <1> QED
    BY <1>2, <1>9, Zenon

LEMMA EncodedFacts ==
    ASSUME NEW n \in Nat
    PROVE  Encoded(CountOf(n)) \in Seq(Octets) /\ Len(Encoded(CountOf(n))) = 2 * WordBytes
  <1>1. PICK x \in Nat, y \in Nat : CountOf(n) = <<x, y>>
    <2>1. /\ CountOf(n)[1] \in Nat /\ CountOf(n)[2] \in Nat
          /\ CountOf(n) = <<CountOf(n)[1], CountOf(n)[2]>>
      BY CountTypes, Sizes
    <2> QED
      BY <2>1, Zenon
  <1>2. 2 * WordBytes \in Nat /\ WordBytes \in Nat
    BY Sizes
  <1>3. \A k \in 1..(2 * WordBytes) :
            (IF k <= WordBytes THEN <<1, x, k>> ELSE <<2, y, k - WordBytes>>) \in Octets
    BY <1>2 DEF Octets
  <1>4. Encoded(CountOf(n)) = [k \in 1..(2 * WordBytes) |->
                  IF k <= WordBytes THEN <<1, x, k>> ELSE <<2, y, k - WordBytes>>]
    BY <1>1 DEF Encoded
  <1> QED
    BY <1>2, <1>3, <1>4

(* The bytes of PADDING that finalize() takes.                             *)
LEMMA PaddingFacts ==
    ASSUME NEW p \in 1..Block
    PROVE  /\ SubSeq(PADDING, 1, p) \in Seq(Octets) /\ Len(SubSeq(PADDING, 1, p)) = p
           /\ SubSeq(PADDING, 1, p) = <<"80">> \o [k \in 1..(p - 1) |-> "00"]
  <1> DEFINE q == SubSeq(PADDING, 1, p)
             zs == [k \in 1..(p - 1) |-> "00"]
             e == <<"80">> \o zs
  <1>1. Block \in Nat /\ p \in Nat /\ p - 1 \in Nat
    BY Sizes
  <1>2. \A i \in 1..p : PADDING[i] = IF i = 1 THEN "80" ELSE "00"
    BY <1>1 DEF PADDING
  <1>3. \A i \in 1..p : PADDING[i] \in Octets
    BY <1>2 DEF Octets
  <1>4. /\ q \in Seq(Octets) /\ Len(q) = p
        /\ \A i \in 1..p : q[i] = PADDING[i]
    <2>1. /\ q \in Seq(Octets) /\ Len(q) = IF 1 <= p THEN p - 1 + 1 ELSE 0
          /\ \A i \in 1..(p - 1 + 1) : q[i] = PADDING[1 + i - 1]
      BY <1>1, <1>3, SubSeqProperties
    <2> HIDE DEF q
    <2>2. 1 <= p /\ p - 1 + 1 = p /\ \A i \in 1..p : 1 + i - 1 = i
      BY <1>1
    <2> QED
      BY <2>1, <2>2
  <1>5. zs \in Seq(Octets) /\ Len(zs) = p - 1 /\ \A i \in 1..(p - 1) : zs[i] = "00"
    BY <1>1 DEF Octets
  <1>6. <<"80">> \in Seq(Octets) /\ Len(<<"80">>) = 1 /\ <<"80">>[1] = "80"
    BY DEF Octets
  <1> HIDE DEF zs
  <1>7. /\ e \in Seq(Octets) /\ Len(e) = p
        /\ \A i \in 1..p : e[i] = IF i = 1 THEN "80" ELSE "00"
    <2>1. /\ e \in Seq(Octets) /\ Len(e) = Len(<<"80">>) + Len(zs)
          /\ \A i \in 1..(Len(<<"80">>) + Len(zs)) :
                e[i] = IF i <= Len(<<"80">>) THEN <<"80">>[i] ELSE zs[i - Len(<<"80">>)]
      BY <1>5, <1>6, ConcatProperties
    <2> HIDE DEF e
    <2>2. Len(<<"80">>) + Len(zs) = p
      BY <1>1, <1>5, <1>6
    <2>3. ASSUME NEW i \in 1..p PROVE e[i] = IF i = 1 THEN "80" ELSE "00"
      <3>1. CASE i = 1
        BY <1>1, <1>6, <2>1, <2>2, <3>1
      <3>2. CASE i # 1
        <4>1. i - 1 \in 1..(p - 1) /\ ~(i <= 1)
          BY <1>1, <3>2
        <4>2. e[i] = zs[i - 1]
          BY <1>6, <2>1, <2>2, <4>1
        <4> QED
          BY <1>5, <3>2, <4>1, <4>2
      <3> QED
        BY <3>1, <3>2
    <2> QED
      BY <2>1, <2>2, <2>3
  <1> HIDE DEF q, e
  <1>8. q = e
    <2>1. \A i \in 1..Len(q) : q[i] = e[i]
      BY <1>2, <1>4, <1>7
    <2> QED
      BY <1>4, <1>7, <2>1, SeqEqual
  <1> QED
    BY <1>4, <1>8, Zenon DEF q, e, zs

LEMMA PositionsFacts ==
    ASSUME NEW n \in Nat
    PROVE  /\ Positions(n) \in Seq(Octets) /\ Len(Positions(n)) = n
           /\ \A k \in 1..n : Positions(n)[k] = k
  BY DEF Positions, Octets

(* What finalize() adds to the input makes it the padded input, which is   *)
(* whole blocks.                                                           *)
LEMMA PaddedFacts ==
    ASSUME NEW n \in Nat, NEW pad, pad = SubSeq(PADDING, 1, PadLen(n % Block))
    PROVE  /\ pad \in Seq(Octets)
           /\ Padded(n) = (Positions(n) \o pad) \o Encoded(CountOf(n))
           /\ Padded(n) \in Seq(Octets)
           /\ Len(Padded(n)) % Block = 0
  <1> DEFINE p == PadLen(n % Block)
             zs == [k \in 1..Zeros(n) |-> "00"]
             P == Positions(n)
             E == Encoded(CountOf(n))
             one == <<"80">>
  <1>1. /\ p \in 1..Block /\ (n + p + 2 * WordBytes) % Block = 0
        /\ Zeros(n) = p - 1 /\ Block \in Nat /\ WordBytes \in Nat
    BY PadFacts, Sizes
  <1>2. pad = SubSeq(PADDING, 1, p)
    OBVIOUS
  <1> HIDE DEF p
  <1>3. pad \in Seq(Octets) /\ Len(pad) = p /\ pad = one \o zs
    BY <1>1, <1>2, PaddingFacts, Zenon
  <1>4. P \in Seq(Octets) /\ Len(P) = n
    BY PositionsFacts
  <1>5. E \in Seq(Octets) /\ Len(E) = 2 * WordBytes
    BY EncodedFacts
  <1>6. one \in Seq(Octets) /\ zs \in Seq(Octets)
    <2>1. Zeros(n) \in Nat
      BY <1>1
    <2> QED
      BY <2>1 DEF Octets
  <1>7. Padded(n) = ((P \o one) \o zs) \o E
    <2> DEFINE bits == (n * Byte) % (Word * Word)
    <2>1. <<bits % Word, bits \div Word>> = CountOf(n)
      BY CountOfBits
    <2>2. Padded(n) = ((P \o one) \o zs) \o Encoded(<<bits % Word, bits \div Word>>)
      BY Zenon DEF Padded, Zeros, Positions
    <2> QED
      BY <2>1, <2>2, Zenon
  <1> HIDE DEF P, E, one, zs
  <1>8. (P \o one) \o zs = P \o pad
    <2>1. P \in Seq(Octets) /\ one \in Seq(Octets) /\ zs \in Seq(Octets)
      BY <1>4, <1>6, Zenon
    <2>2. (P \o one) \o zs = P \o (one \o zs)
      BY <2>1, ConcatAssociative
    <2> QED
      BY <1>3, <2>2, Zenon
  <1>9. Padded(n) = (P \o pad) \o E
    BY <1>7, <1>8, Zenon
  <1>10. P \o pad \in Seq(Octets) /\ Len(P \o pad) = n + p
    BY <1>3, <1>4, ConcatProperties
  <1>11. (P \o pad) \o E \in Seq(Octets) /\ Len((P \o pad) \o E) = n + p + 2 * WordBytes
    BY <1>5, <1>10, ConcatProperties
  <1> QED
    BY <1>1, <1>3, <1>9, <1>11, Zenon DEF P, E

-----------------------------------------------------------------------------
(* The invariant.                                                          *)

LEMMA Md5Init == Init => Md5Inv
  <1> SUFFICES ASSUME Init PROVE Md5Inv
    OBVIOUS
  <1>1. /\ input = 0 /\ finalized = FALSE /\ input \in 0..MaxInput
        /\ Context = [count |-> <<0, 0>>, buffer |-> <<>>, blocks |-> <<>>]
    BY Md5Assumption DEF Init, Context
  <1>2. Len(Positions(0)) = 0
    BY PositionsFacts
  <1>3. CountOf(0) = <<0, 0>>
    <2>1. 0 * Byte = 0
      BY Sizes
    <2>2. Division(0, Word, 0, 0)
      BY Sizes DEF Division
    <2>3. 0 \div Word = 0 /\ 0 % Word = 0
      BY Sizes, <2>2, DivModUnique
    <2> QED
      BY <2>1, <2>3, Zenon DEF CountOf
  <1>4. <<0, 0>> \in (0..(Word - 1)) \X (0..(Word - 1))
    BY Sizes
  <1>5. Context \in [count : (0..(Word - 1)) \X (0..(Word - 1)),
                     buffer : Seq(Octets), blocks : Seq(Seq(Octets))]
    BY <1>1, <1>4
  <1>6. Cut(Context, Positions(0))
    BY <1>1, <1>2, Sizes DEF Cut
  <1>7. Holds(Context, Octets, Positions(0))
    BY <1>1, <1>2, <1>3, <1>5, <1>6 DEF Holds
  <1> QED
    BY <1>1, <1>7 DEF Md5Inv

(* The fields that a step assigns are all there are.                       *)
LEMMA BecomesContext ==
    ASSUME NEW S, NEW t, NEW ctx, Holds(ctx, S, t), Becomes(ctx)
    PROVE  Context' = ctx
  BY DEF Holds, Becomes, Context

LEMMA UpdateStep ==
    ASSUME Md5Inv, NEW n \in 0..MaxUpdate, update(n)
    PROVE  Md5Inv'
  <1> DEFINE s == [k \in 1..n |-> input + k]
  <1>1. /\ ~finalized /\ Becomes(Updated(Context, s)) /\ input' = input + n
        /\ finalized' = finalized /\ input + n <= MaxInput
    BY DEF update
  <1>2. input \in Nat /\ n \in Nat /\ finalized \in BOOLEAN /\ MaxInput \in Nat
    BY Md5Assumption DEF Md5Inv
  <1>3. Holds(Context, Octets, Positions(input))
    BY <1>1 DEF Md5Inv
  <1>4. s \in Seq(Octets) /\ Len(s) = n /\ \A k \in 1..n : s[k] = input + k
    BY <1>2 DEF Octets
  <1> HIDE DEF s
  <1>5. Positions(input) \o s = Positions(input + n)
    <2> DEFINE P == Positions(input)
               Q == Positions(input + n)
               R == P \o s
    <2>1. P \in Seq(Octets) /\ Len(P) = input /\ \A k \in 1..input : P[k] = k
      BY <1>2, PositionsFacts
    <2>2. Q \in Seq(Octets) /\ Len(Q) = input + n /\ \A k \in 1..(input + n) : Q[k] = k
      BY <1>2, PositionsFacts
    <2> HIDE DEF P, Q
    <2>3. /\ R \in Seq(Octets) /\ Len(R) = input + n
          /\ \A k \in 1..(input + n) : R[k] = IF k <= input THEN P[k] ELSE s[k - input]
      BY <1>4, <2>1, ConcatProperties
    <2> HIDE DEF R
    <2>4. ASSUME NEW k \in 1..(input + n) PROVE R[k] = Q[k]
      <3>1. CASE k <= input
        BY <1>2, <2>1, <2>2, <2>3, <3>1
      <3>2. CASE ~(k <= input)
        <4>1. k - input \in 1..n /\ input + (k - input) = k
          BY <1>2, <3>2
        <4>2. R[k] = s[k - input]
          BY <2>3, <3>2
        <4> QED
          BY <1>4, <2>2, <4>1, <4>2
      <3> QED
        BY <3>1, <3>2
    <2>5. R = Q
      BY <2>2, <2>3, <2>4, SeqEqual
    <2> QED
      BY <2>5 DEF R, P, Q
  <1>6. Holds(Updated(Context, s), Octets, Positions(input + n))
    <2>1. Positions(input) \in Seq(Octets)
      BY <1>2, PositionsFacts
    <2>2. Holds(Updated(Context, s), Octets, Positions(input) \o s)
      BY <1>3, <1>4, <2>1, UpdatedHolds
    <2> QED
      BY <1>5, <2>2, Zenon
  <1>7. Context' = Updated(Context, s)
    BY <1>1, <1>6, BecomesContext
  <1>8. Holds(Context, Octets, Positions(input))'
    <2>1. Holds(Context', Octets, Positions(input'))
      BY <1>1, <1>6, <1>7, Zenon
    <2> QED
      BY <2>1
  <1>9. input' \in 0..MaxInput
    BY <1>1, <1>2
  <1> QED
    BY <1>1, <1>2, <1>8, <1>9 DEF Md5Inv

LEMMA FinalizeStep ==
    ASSUME Md5Inv, finalize
    PROVE  Md5Inv'
  <1> DEFINE pad == SubSeq(PADDING, 1, PadLen(input % Block))
             E == Encoded(CountOf(input))
             P == Positions(input)
             first == Updated(Context, pad)
  <1>1. /\ ~finalized /\ Becomes(Finalized(Context)) /\ input' = input
        /\ finalized' = TRUE
    BY DEF finalize
  <1>2. input \in Nat /\ input \in 0..MaxInput
    BY Md5Assumption DEF Md5Inv
  <1>3. Holds(Context, Octets, P)
    BY <1>1 DEF Md5Inv
  <1>4. P \in Seq(Octets) /\ Len(P) = input
    BY <1>2, PositionsFacts
  <1>5. Context.count = CountOf(input) /\ BufferIndex(Context.count) = input % Block
    <2>1. Context.count = CountOf(input)
      BY <1>3, <1>4, Zenon DEF Holds
    <2> QED
      BY <1>2, <2>1, IndexFacts
  <1>6. /\ pad \in Seq(Octets) /\ Padded(input) = (P \o pad) \o E
    BY <1>2, PaddedFacts
  <1>7. E \in Seq(Octets)
    BY <1>2, EncodedFacts
  <1>8. Finalized(Context) = Updated(first, E)
    BY <1>5, Zenon DEF Finalized
  <1> HIDE DEF pad, E, P
  <1>9. Holds(first, Octets, P \o pad)
    BY <1>3, <1>4, <1>6, UpdatedHolds
  <1>10. P \o pad \in Seq(Octets)
    BY <1>4, <1>6, ConcatProperties
  <1>11. Holds(Updated(first, E), Octets, (P \o pad) \o E)
    BY <1>7, <1>9, <1>10, UpdatedHolds
  <1>12. Holds(Finalized(Context), Octets, Padded(input))
    BY <1>6, <1>8, <1>11, Zenon
  <1>13. Context' = Finalized(Context)
    BY <1>1, <1>12, BecomesContext
  <1>14. Holds(Context, Octets, Padded(input))'
    <2>1. Holds(Context', Octets, Padded(input'))
      BY <1>1, <1>12, <1>13, Zenon
    <2> QED
      BY <2>1
  <1> QED
    BY <1>1, <1>2, <1>14 DEF Md5Inv

LEMMA Md5Invariant == Spec => []Md5Inv
  <1>1. Md5Inv /\ [Next]_vars => Md5Inv'
    <2> SUFFICES ASSUME Md5Inv, [Next]_vars PROVE Md5Inv'
      OBVIOUS
    <2>1. ASSUME NEW n \in 0..MaxUpdate, update(n) PROVE Md5Inv'
      BY <2>1, UpdateStep
    <2>2. CASE finalize
      BY <2>2, FinalizeStep
    <2>3. CASE UNCHANGED vars
      BY <2>3 DEF vars, Md5Inv, Context
    <2> QED
      BY <2>1, <2>2, <2>3 DEF Next
  <1> QED
    BY <1>1, Md5Init, PTL DEF Spec

-----------------------------------------------------------------------------
(* The theorems.                                                           *)

(* The counters stay words, the buffer less than a block, and only whole   *)
(* blocks are transformed.                                                 *)
THEOREM Md5Types == Spec => []TypeOK
  <1>1. Md5Inv => TypeOK
    <2> SUFFICES ASSUME Md5Inv PROVE TypeOK
      OBVIOUS
    <2>1. PICK t : Holds(Context, Octets, t)
      BY Zenon DEF Md5Inv
    <2>2. /\ Context.count = count /\ Context.buffer = buffer /\ Context.blocks = blocks
      BY DEF Context
    <2>3. Context.count \in (0..(Word - 1)) \X (0..(Word - 1)) /\ Cut(Context, t)
      BY <2>1 DEF Holds
    <2> QED
      BY <2>2, <2>3, Zenon DEF Cut, Md5Inv, TypeOK
  <1> QED
    BY <1>1, Md5Invariant, PTL

(* However the input is cut into updates, the blocks and the buffer hold   *)
(* all of it in its order until finalize() is called.                      *)
THEOREM InputIsKept == Spec => []NothingLost
  <1>1. Md5Inv => NothingLost
    <2> SUFFICES ASSUME Md5Inv, ~finalized
                 PROVE  /\ Len(blocks) * Block + Len(buffer) = input
                        /\ \A b \in 1..Len(blocks), k \in 1..Block :
                              blocks[b][k] = (b - 1) * Block + k
                        /\ \A k \in 1..Len(buffer) : buffer[k] = Len(blocks) * Block + k
      BY Zenon DEF NothingLost
    <2>1. Holds(Context, Octets, Positions(input)) /\ input \in Nat
      BY Md5Assumption DEF Md5Inv
    <2>2. /\ Context.buffer = buffer /\ Context.blocks = blocks
      BY DEF Context
    <2>3. /\ Positions(input) \in Seq(Octets) /\ Len(Positions(input)) = input
          /\ \A k \in 1..input : Positions(input)[k] = k
      BY <2>1, PositionsFacts
    <2>4. PICK base \in Nat : /\ base = Len(blocks) * Block
                              /\ base + Len(buffer) = Len(Positions(input))
                              /\ \A k \in 1..Len(buffer) : buffer[k] = Positions(input)[base + k]
      <3>1. \E base \in Nat :
                /\ base = Len(Context.blocks) * Block
                /\ base + Len(Context.buffer) = Len(Positions(input))
                /\ \A k \in 1..Len(Context.buffer) :
                      Context.buffer[k] = Positions(input)[base + k]
        <4>1. HasBase(Context, Positions(input))
          BY <2>1, <2>3, Base
        <4> QED
          BY <4>1, Zenon DEF HasBase
      <3> QED
        BY <2>2, <3>1, Zenon
    <2>5. buffer \in Seq(Octets) /\ Len(buffer) \in Nat /\ Len(blocks) \in Nat
      BY <2>1, <2>2, LenProperties DEF Holds
    <2>6. base + Len(buffer) = input
      BY <2>3, <2>4, Zenon
    <2>7. ASSUME NEW b \in 1..Len(blocks), NEW k \in 1..Block
          PROVE  blocks[b][k] = (b - 1) * Block + k
      <3> DEFINE i == (b - 1) * Block + k
      <3>1. blocks[b][k] = Positions(input)[i]
        BY <2>1, <2>2, Zenon DEF Holds, Cut
      <3>2. i \in 1..base
        BY <2>4, <2>5, Place
      <3> HIDE DEF i
      <3>3. i \in 1..input
        BY <2>1, <2>5, <2>6, <3>2
      <3> QED
        BY <2>3, <3>1, <3>3, Zenon DEF i
    <2>8. ASSUME NEW k \in 1..Len(buffer) PROVE buffer[k] = base + k
      <3>1. base + k \in 1..input
        BY <2>1, <2>5, <2>6
      <3> QED
        BY <2>3, <2>4, <3>1
    <2> QED
      BY <2>4, <2>6, <2>7, <2>8, Zenon
  <1> QED
    BY <1>1, Md5Invariant, PTL

(* A final digest is that of the padded input of RFC 1321, in whole blocks *)
(* and with its length modulo two words.                                   *)
THEOREM DigestIsOfInput == Spec => []DigestOfInput
  <1>1. Md5Inv => DigestOfInput
    <2> SUFFICES ASSUME Md5Inv, finalized
                 PROVE  /\ Len(Padded(input)) = Len(blocks) * Block /\ buffer = <<>>
                        /\ \A b \in 1..Len(blocks), k \in 1..Block :
                              blocks[b][k] = Padded(input)[(b - 1) * Block + k]
      BY Zenon DEF DigestOfInput
    <2> DEFINE t == Padded(input)
    <2>1. Holds(Context, Octets, t) /\ input \in Nat
      BY Md5Assumption DEF Md5Inv
    <2>2. /\ Context.buffer = buffer /\ Context.blocks = blocks
      BY DEF Context
    <2>3. t \in Seq(Octets) /\ Len(t) % Block = 0
      BY <2>1, PaddedFacts
    <2> HIDE DEF t
    <2>4. /\ Len(blocks) * Block + Len(buffer) = Len(t) /\ Len(buffer) < Block
          /\ \A b \in 1..Len(blocks), k \in 1..Block : blocks[b][k] = t[(b - 1) * Block + k]
      BY <2>1, <2>2, Zenon DEF Holds, Cut
    <2>5. /\ buffer \in Seq(Octets) /\ Len(buffer) \in Nat /\ Len(blocks) \in Nat
          /\ Len(t) \in Nat
      BY <2>1, <2>2, <2>3, LenProperties DEF Holds
    <2>6. Len(t) % Block = Len(buffer)
      <3>1. Division(Len(t), Block, Len(blocks), Len(buffer))
        BY <2>4, <2>5, Sizes DEF Division
      <3> QED
        BY <2>5, <3>1, Sizes, DivModUnique
    <2>7. Len(buffer) = 0 /\ buffer = <<>>
      BY <2>3, <2>5, <2>6, EmptySeq
    <2>8. Len(t) = Len(blocks) * Block
      BY <2>4, <2>5, <2>7, Sizes
    <2> QED
      BY <2>4, <2>7, <2>8, Zenon DEF t
  <1> QED
    BY <1>1, Md5Invariant, PTL
=============================================================================
