-------------------------------- MODULE Md5 ---------------------------------
(***************************************************************************)
(* md5.cc: how an MD5 object cuts what it is given into blocks.  The       *)
(* compression of a block (transform) is abstracted to the block: what     *)
(* reaches it, in which order, is the whole of what the digest depends on. *)
(*                                                                         *)
(* The sizes are parameters, so that the wrap of the bit counters, which   *)
(* are two words of 32 bits, is reached by short inputs.  A byte of the    *)
(* input is its position; "80" and "00" are bytes of PADDING; a byte of    *)
(* the encoded counter is <<counter, its value, which byte of it>>.        *)
(***************************************************************************)
EXTENDS Integers, Sequences

CONSTANTS Block,      \* bytes in a block: 64
          Byte,       \* bits in a byte: 8
          Word,       \* values of a word, a uint4: 2^32
          WordBytes,  \* bytes in a word: 4
          MaxInput,   \* bound on the length of the input
          MaxUpdate   \* bound on the length of one update

ASSUME Md5Assumption ==
    /\ Block \in Nat \ {0} /\ Byte \in Nat \ {0}
    /\ WordBytes \in Nat \ {0} /\ 2 * WordBytes < Block
    /\ Word \in Nat \ {0} /\ Word % (Block * Byte) = 0
    /\ MaxInput \in Nat /\ MaxUpdate \in Nat

VARIABLES count,      \* the number of bits, low word and high word
          buffer,     \* the part of a block that is still to be transformed
          blocks,     \* the blocks transformed so far: what state[] is made of
          finalized,  \* finalized
          input       \* bytes that the callers have passed in

vars == <<count, buffer, blocks, finalized, input>>

(* init().                                                                 *)
Init == /\ count = <<0, 0>> /\ buffer = <<>> /\ blocks = <<>>
        /\ finalized = FALSE /\ input = 0

(* Mutant of Counted: the carry is lost.                                   *)
CountedNoCarry(c, n) == <<(c[1] + n * Byte) % Word, (c[2] + (n * Byte) \div Word) % Word>>

(* The counters after n more bytes: a carry if the low word has wrapped.   *)
Counted(c, n) ==
    LET bits == (n * Byte) % Word
        low  == (c[1] + bits) % Word
    IN  <<low, (c[2] + (IF low < bits THEN 1 ELSE 0) + (n * Byte) \div Word) % Word>>

(* The bytes in the buffer are found from the counter.                     *)
BufferIndex(c) == (c[1] \div Byte) % Block

(* Mutant of BufferSpace: one byte more.                                   *)
BufferSpaceOneMore(c) == Block - BufferIndex(c) + 1

(* How much space is left in the buffer.                                   *)
BufferSpace(c) == Block - BufferIndex(c)

(* Mutant of Whole: a block that ends with the input is not seen.          *)
WholeButLast(s) == [b \in 1..((Len(s) - 1) \div Block) |-> SubSeq(s, (b - 1) * Block + 1, b * Block)]

(* The whole blocks of s, and what is left of it.                          *)
Whole(s) == [b \in 1..(Len(s) \div Block) |-> SubSeq(s, (b - 1) * Block + 1, b * Block)]

Rest(s) == SubSeq(s, (Len(s) \div Block) * Block + 1, Len(s))

(* The context as a record, and update(): the buffer is filled up and      *)
(* transformed, then each whole block of the input, and the rest is        *)
(* buffered.  The buffer is used only as far as the counter says.          *)
Context == [count |-> count, buffer |-> buffer, blocks |-> blocks]

Updated(ctx, s) ==
    LET space == BufferSpace(ctx.count)
        held  == SubSeq(ctx.buffer, 1, BufferIndex(ctx.count))
        later == SubSeq(s, space + 1, Len(s)) IN
    IF Len(s) >= space
    THEN [count  |-> Counted(ctx.count, Len(s)),
          blocks |-> Append(ctx.blocks, held \o SubSeq(s, 1, space)) \o Whole(later),
          buffer |-> Rest(later)]
    ELSE [ctx EXCEPT !.count = Counted(@, Len(s)), !.buffer = held \o s]

(* Padding goes to 56 mod 64.                                              *)
PadLen(index) == IF index < Block - 2 * WordBytes
                 THEN Block - 2 * WordBytes - index ELSE 2 * Block - 2 * WordBytes - index

PADDING == [k \in 1..Block |-> IF k = 1 THEN "80" ELSE "00"]

(* encode(bits, count, 8).                                                 *)
Encoded(c) == [k \in 1..(2 * WordBytes) |->
                  IF k <= WordBytes THEN <<1, c[1], k>> ELSE <<2, c[2], k - WordBytes>>]

(* finalize() up to the digest.                                            *)
Finalized(ctx) ==
    Updated(Updated(ctx, SubSeq(PADDING, 1, PadLen(BufferIndex(ctx.count)))),
            Encoded(ctx.count))

Becomes(ctx) == count' = ctx.count /\ buffer' = ctx.buffer /\ blocks' = ctx.blocks

(* A caller passes the next n bytes in, unless the digest is final.        *)
update(n) ==
    /\ input + n <= MaxInput
    /\ ~finalized
    /\ Becomes(Updated(Context, [k \in 1..n |-> input + k]))
    /\ input' = input + n
    /\ UNCHANGED finalized

(* Both return at once when the digest is final.                           *)
finalize ==
    /\ ~finalized
    /\ Becomes(Finalized(Context))
    /\ finalized' = TRUE
    /\ UNCHANGED input

Next == (\E n \in 0..MaxUpdate : update(n)) \/ finalize

Spec == Init /\ [][Next]_vars

-----------------------------------------------------------------------------
TypeOK == /\ count \in (0..(Word - 1)) \X (0..(Word - 1))
          /\ Len(buffer) < Block
          /\ \A b \in 1..Len(blocks) : Len(blocks[b]) = Block
          /\ finalized \in BOOLEAN
          /\ input \in 0..MaxInput

(* RFC 1321, 3.1 and 3.2: the input, a byte 80, as few bytes 00 as make    *)
(* the rest of the last block the length, and the length in bits modulo    *)
(* the square of the size of a word, low word first.                       *)
Padded(n) ==
    LET zeros == CHOOSE z \in 0..(Block - 1) : (n + 1 + z + 2 * WordBytes) % Block = 0
        bits  == (n * Byte) % (Word * Word) IN
    [k \in 1..n |-> k] \o <<"80">> \o [k \in 1..zeros |-> "00"]
        \o Encoded(<<bits % Word, bits \div Word>>)

(* However the input is cut into calls of update, the blocks of a final    *)
(* digest are those of the padded input, and nothing is left over.         *)
DigestOfInput ==
    finalized =>
        LET padded == Padded(input) IN
        /\ Len(padded) = Len(blocks) * Block /\ buffer = <<>>
        /\ \A b \in 1..Len(blocks), k \in 1..Block :
              blocks[b][k] = padded[(b - 1) * Block + k]

(* Before that, the blocks and the buffer hold the input, all of it and    *)
(* every byte in its place.                                                *)
NothingLost ==
    ~finalized =>
        /\ Len(blocks) * Block + Len(buffer) = input
        /\ \A b \in 1..Len(blocks), k \in 1..Block : blocks[b][k] = (b - 1) * Block + k
        /\ \A k \in 1..Len(buffer) : buffer[k] = Len(blocks) * Block + k
=============================================================================
