------------------------------- MODULE Bitmap -------------------------------
(***************************************************************************)
(* The bitmaps of the server: Bitmap<default_width>, a buffer of words     *)
(* under the functions of my_bitmap, its specialization Bitmap<64>, one    *)
(* ulonglong, and Table_map_iterator, which walks over a ulonglong.        *)
(*                                                                         *)
(* A map is the number its bytes are, the first byte lowest.  A buffer is  *)
(* of whole words, so that a width that is no multiple of WordBits leaves  *)
(* padding at the top.  my_bitmap.c is not in the repository: what its     *)
(* functions answer and leave in the width is modelled by what the class   *)
(* uses them for, and the padding they leave may be anything.              *)
(*                                                                         *)
(* An edit is the set of the maps it can leave.                            *)
(***************************************************************************)
EXTENDS Integers, Bitwise, FiniteSetsExt, SequencesExt

CONSTANTS LongBits,     \* 64, the bits of a ulonglong and the width specialized
          WordBits,     \* 32
          ByteBits,     \* 8
          NibbleBits,   \* 4
          Widths,       \* the default_width of the maps looked at
          Operand(_)    \* per width: the maps used as second operand

ASSUME BitmapAssumption ==
    /\ LongBits = 2 * WordBits /\ WordBits % ByteBits = 0 /\ NibbleBits = 4
    /\ LongBits % NibbleBits = 0 /\ Widths \subseteq Nat \ {0}

VARIABLES width,  \* default_width, fixed
          map

vars == <<width, map>>

Bit(x, n) == (x \div 2^n) % 2 = 1
Positions(w, x) == {n \in 0 .. w - 1 : Bit(x, n)}

special(w) == w = LongBits
no_words_in_map(w) == (w + WordBits - 1) \div WordBits
SizeofBuffer(w) == IF special(w) THEN LongBits ELSE ((w + WordBits - 1) \div WordBits) * WordBits
Maps(w) == 0 .. 2^SizeofBuffer(w) - 1
Longs == 0 .. 2^LongBits - 1

Complement(w, x) == 2^SizeofBuffer(w) - 1 - x

\* What a function of my_bitmap.c may leave for the positions s.
Holding(w, s) ==
    LET low == MapThenSumSet(LAMBDA n : 2^n, s)
    IN  {low + pad * 2^w : pad \in 0 .. 2^(SizeofBuffer(w) - w) - 1}

-----------------------------------------------------------------------------
(* Edits                                                                   *)

\* bitmap_set_bit: bit n & 7 of byte n / 8.
Place(w, n) == IF special(w) THEN 2^n
               ELSE (2^ByteBits)^(n \div ByteBits) * 2^(n % ByteBits)

set_bit(w, x, n) == {x | Place(w, n)}
clear_bit(w, x, n) == {x & Complement(w, Place(w, n))}

set_all(w) == {IF special(w) THEN Complement(w, 0) ELSE 2^(no_words_in_map(w) * WordBits) - 1}
clear_all(w) == {0}

set_prefix(w, n) ==
    IF ~special(w) THEN Holding(w, 0 .. n - 1)
    ELSE IF n >= w THEN set_all(w) ELSE {2^n - 1}

intersect(w, x, y) ==
    IF special(w) THEN {x & y} ELSE Holding(w, Positions(w, x) \cap Positions(w, y))

intersect_long(w, x, u) ==
    IF special(w) THEN {x & u} ELSE Holding(w, Positions(w, x) \cap Positions(LongBits, u))

\* The third argument is a number of bytes.
bitmap_set_above(w, x, from_byte, use_bit) ==
    LET from == from_byte * ByteBits
    IN  Holding(w, {n \in 0 .. w - 1 : IF n < from THEN Bit(x, n) ELSE use_bit})

SizeofLong == LongBits \div ByteBits

intersect_extended_Below(w, x, u) ==  \* mutant: the bit above the highest
    IF special(w) \/ w <= LongBits THEN intersect_long(w, x, u)
    ELSE UNION {bitmap_set_above(w, y, SizeofLong, Bit(u, LongBits - 2)) : y \in intersect_long(w, x, u)}
intersect_extended(w, x, u) ==
    IF special(w) \/ w <= LongBits THEN intersect_long(w, x, u)
    ELSE UNION {bitmap_set_above(w, y, SizeofLong, Bit(u, LongBits - 1)) : y \in intersect_long(w, x, u)}

subtract(w, x, y) ==
    IF special(w) THEN {x & Complement(w, y)} ELSE Holding(w, Positions(w, x) \ Positions(w, y))

merge(w, x, y) ==
    IF special(w) THEN {x | y} ELSE Holding(w, Positions(w, x) \cup Positions(w, y))

\* operator=: init() clears the buffer before the bytes of the other are copied.
assign(y) == {y}
assign_self(w, x) == IF special(w) THEN {x} ELSE {0}

-----------------------------------------------------------------------------
(* Queries                                                                 *)

is_set(w, x, n) == (x & Place(w, n)) # 0

is_prefix(w, x, n) ==
    IF ~special(w) THEN Positions(w, x) = 0 .. n - 1
    ELSE IF n < LongBits THEN x = 2^n - 1 ELSE x = Complement(w, 1)

is_clear_all(w, x) == IF special(w) THEN x = 0 ELSE Positions(w, x) = {}
is_set_all(w, x) == IF special(w) THEN x = Complement(w, 0) ELSE Positions(w, x) = 0 .. w - 1

is_subset(w, x, y) ==
    IF special(w) THEN (x & Complement(w, y)) = 0 ELSE Positions(w, x) \subseteq Positions(w, y)

is_overlapping(w, x, y) ==
    IF special(w) THEN (x & y) # 0 ELSE Positions(w, x) \cap Positions(w, y) # {}

equal_Unmasked(w, x, y) == x = y  \* mutant: memcmp over all words

\* bitmap_cmp: the last words are compared with their padding set.
equal(w, x, y) ==
    LET before == (no_words_in_map(w) - 1) * WordBits
        last(z) == z \div 2^before
        last_word_mask == 2^WordBits - 2^(w - before)
    IN  IF special(w) THEN x = y
        ELSE /\ x % 2^before = y % 2^before
             /\ (last(x) | last_word_mask) = (last(y) | last_word_mask)

to_ulonglong(w, x) ==
    IF SizeofBuffer(w) >= LongBits THEN x % 2^LongBits ELSE x % 2^WordBits

bits_set(w, x) == Cardinality(Positions(w, x))

MY_BIT_NONE == -1
get_first_set(w, x) == IF Positions(w, x) = {} THEN MY_BIT_NONE ELSE Min(Positions(w, x))

-----------------------------------------------------------------------------
(* Table_map_iterator                                                      *)

BITMAP_END == LongBits

last_bit_Highest == <<32, 0, 1, 0, 2, 0, 1, 0, 3, 0, 1, 0, 3, 0, 1, 0>>  \* mutant: of 12
last_bit == <<32, 0, 1, 0, 2, 0, 1, 0, 3, 0, 1, 0, 2, 0, 1, 0>>

\* next_bit: what it returns, and what it leaves of the iterator.
next_bit[bmp \in Longs, no \in 0 .. LongBits] ==
    LET bit == last_bit[(bmp % 2^NibbleBits) + 1]
        rest == bmp \div 2^NibbleBits
    IN  IF bit # 32
        THEN [returns |-> no + bit,
              bmp |-> bmp - (IF Bit(bmp, bit) THEN 2^bit ELSE 0), no |-> no]
        ELSE IF rest = 0 THEN [returns |-> BITMAP_END, bmp |-> 0, no |-> no + NibbleBits]
        ELSE next_bit[rest, no + NibbleBits]

\* What a loop over next_bit has until BITMAP_END.
Walk[bmp \in Longs, no \in 0 .. LongBits] ==
    LET next == next_bit[bmp, no]
    IN  IF next.returns = BITMAP_END THEN <<>> ELSE <<next.returns>> \o Walk[next.bmp, next.no]

-----------------------------------------------------------------------------
Becomes(results) == map' \in results /\ UNCHANGED width

Init == width \in Widths /\ map \in {0} \cup UNION {set_prefix(width, n) : n \in 0 .. width}

EditOne == \E n \in 0 .. width - 1 : Becomes(set_bit(width, map, n) \cup clear_bit(width, map, n))
EditAll == Becomes(set_all(width) \cup clear_all(width))
EditPrefix == \E n \in 0 .. width : Becomes(set_prefix(width, n))
EditWith ==
    \E y \in Operand(width) :
        Becomes(intersect(width, map, y) \cup subtract(width, map, y) \cup merge(width, map, y)
                \cup assign(y))
AssignSelf == Becomes(assign_self(width, map))
EditWithLong ==
    \E u \in Operand(LongBits) :
        Becomes(intersect_long(width, map, u) \cup intersect_extended(width, map, u))

Next == EditOne \/ EditAll \/ EditPrefix \/ EditWith \/ AssignSelf \/ EditWithLong

Spec == Init /\ [][Next]_vars

-----------------------------------------------------------------------------
\* No edit writes beyond the buffer; set_all writes whole words.
TypeOK == width \in Widths /\ map \in Maps(width)

\* Whatever edits came before, and whatever they left in the padding, an edit
\* changes the set of positions as its name says; intersect_extended takes the
\* highest bit for all positions that a ulonglong has not, even for those that
\* the map did not have.
EditsExact ==
    LET w == width
        s == Positions(w, map)
        leaves(results, t) == results # {} /\ \A x \in results : Positions(w, x) = t
    IN  /\ TypeOK
        /\ \A n \in 0 .. w - 1 : /\ leaves(set_bit(w, map, n), s \cup {n})
                                 /\ leaves(clear_bit(w, map, n), s \ {n})
        /\ leaves(set_all(w), 0 .. w - 1) /\ leaves(clear_all(w), {})
        /\ \A n \in 0 .. w : leaves(set_prefix(w, n), 0 .. n - 1)
        /\ \A y \in Operand(w) : LET t == Positions(w, y)
                                 IN  /\ leaves(intersect(w, map, y), s \cap t)
                                     /\ leaves(subtract(w, map, y), s \ t)
                                     /\ leaves(merge(w, map, y), s \cup t)
        /\ \A u \in Operand(LongBits) :
              LET t == Positions(LongBits, u)
                  above == {n \in LongBits .. w - 1 : LongBits - 1 \in t}
              IN  /\ leaves(intersect_long(w, map, u), s \cap t)
                  /\ leaves(intersect_extended(w, map, u), (s \cap t) \cup above)

\* The questions agree with the set of positions and never see the padding, but
\* for to_ulonglong, which is right in the width only.  Left out is is_prefix(64) of
\* the specialization, which compares with all bits but the first.
AnswersExact ==
    LET w == width
        s == Positions(w, map)
    IN  /\ \A n \in 0 .. w - 1 : /\ is_set(w, map, n) <=> n \in s
                                 /\ n < LongBits => (Bit(to_ulonglong(w, map), n) <=> n \in s)
        /\ \A n \in 0 .. w : ~(special(w) /\ n = w) => (is_prefix(w, map, n) <=> s = 0 .. n - 1)
        /\ is_clear_all(w, map) <=> s = {}
        /\ is_set_all(w, map) <=> s = 0 .. w - 1
        /\ bits_set(w, map) = 0 <=> get_first_set(w, map) = MY_BIT_NONE
        /\ \A y \in Operand(w) : LET t == Positions(w, y)
                                 IN  /\ is_subset(w, map, y) <=> s \subseteq t
                                     /\ is_overlapping(w, map, y) <=> s \cap t # {}
                                     /\ equal(w, map, y) <=> s = t

\* A walk over the ulonglong of a map has each of its bits once, in order, and ends.
WalkExact ==
    LET t == to_ulonglong(width, map)
        walk == Walk[t, 0]
    IN  /\ Range(walk) = Positions(LongBits, t)
        /\ \A i, j \in DOMAIN walk : i < j => walk[i] < walk[j]
=============================================================================
