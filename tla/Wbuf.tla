-------------------------------- MODULE Wbuf --------------------------------
(***************************************************************************)
(* The write buffer of the TokuDB serializers.  Values are appended to a   *)
(* buffer the caller gives, with or without adding their bytes to a        *)
(* running checksum; an assertion in each function, "the buffer must be    *)
(* big enough to hold whatever you put into it", stops the program.  A     *)
(* caller may reserve bytes and fill them later.                           *)
(*                                                                         *)
(* x1764 is not in the repository: the checksum is the bytes it was given, *)
(* in order.  Integers have IntBytes bytes of Base values, four of 256.    *)
(***************************************************************************)
EXTENDS Integers, SequencesExt

CONSTANTS Base, IntBytes,
          Modulus,               \* of an unsigned int
          Sizes,                 \* of the buffers given
          Chars, Ints, Longs, Literal,  \* the values appended
          MaxItems               \* bound: calls between two inits

Byte == 0 .. Base - 1
Unwritten == -1  \* a byte nobody has written

\* The powers of Base that tell the bytes of an integer apart.
Power[n \in 0 .. 2 * IntBytes] == IF n = 0 THEN 1 ELSE Base * Power[n - 1]

\* A buffer and a string in it do not wrap around an unsigned int together.
ASSUME WbufAssumption ==
    /\ Base \in Nat \ {0, 1} /\ IntBytes \in Nat \ {0} /\ Modulus \in Nat
    /\ Chars \subseteq Byte /\ Literal \subseteq Seq(Byte) /\ MaxItems \in Nat
    /\ Ints \subseteq 0 .. Power[IntBytes] - 1 /\ Longs \subseteq 0 .. Power[2 * IntBytes] - 1
    /\ \A size \in Sizes : /\ size \in Nat /\ size + IntBytes < Modulus
                           /\ \A s \in Literal : size + Len(s) < Modulus

VARIABLES
    w,      \* the wbuf; its buf has what was written, inside the buffer or not
    alive,  \* FALSE once an assertion has failed
    items   \* history: the bytes each call since the last init should have appended,
            \* and whether the checksum covers them
vars == <<w, alive, items>>

wbuf(size) == [buf |-> [o \in 0 .. size - 1 |-> Unwritten], size |-> size, ndone |-> 0, checksum |-> <<>>]

Init == \E size \in Sizes : w = wbuf(size) /\ alive = TRUE /\ items = <<>>

-----------------------------------------------------------------------------
(* The functions, from a wbuf to a wbuf; Failed where the assertion fails. *)

Failed == [buf |-> <<>>, size |-> 0, ndone |-> -1, checksum |-> <<>>]
OrFailed(holds, v) == IF holds THEN v ELSE Failed
Then(v, next) == IF v = Failed THEN Failed ELSE next

fits(v, n) == (v.ndone + n) % Modulus <= v.size

Put(buf, at, bytes) ==
    [o \in DOMAIN buf \cup (at .. at + Len(bytes) - 1) |->
        IF o >= at /\ o < at + Len(bytes) THEN bytes[o - at + 1] ELSE buf[o]]

toku_x1764_add(v, at, n) ==
    [v EXCEPT !.checksum = @ \o [k \in 1 .. n |-> v.buf[at + k - 1]]]

HighFirst(i) == [k \in 1 .. IntBytes |-> (i \div Power[IntBytes - k]) % Base]
toku_htonl(i) == HighFirst(i)
toku_htod32(i) == Reverse(HighFirst(i))

nocrc_char(v, ch) ==
    OrFailed(v.ndone < v.size, [v EXCEPT !.buf = Put(@, v.ndone, <<ch>>), !.ndone = @ + 1])

char(v, ch) == LET u == nocrc_char(v, ch) IN Then(u, toku_x1764_add(u, u.ndone - 1, 1))

network_int(v, i) ==
    LET u == [v EXCEPT !.buf = Put(@, v.ndone, toku_htonl(i))]
    IN  OrFailed(fits(v, IntBytes),
                 [toku_x1764_add(u, u.ndone, IntBytes) EXCEPT !.ndone = @ + IntBytes])

nocrc_int(v, i) ==
    OrFailed(fits(v, IntBytes),
             [v EXCEPT !.buf = Put(@, v.ndone, toku_htod32(i)), !.ndone = @ + IntBytes])

int_Before(v, i) ==  \* mutant: added before it is written
    LET u == nocrc_int(v, i)
    IN  Then(u, [u EXCEPT !.checksum = toku_x1764_add(v, v.ndone, IntBytes).checksum])
int(v, i) ==
    LET u == nocrc_int(v, i) IN Then(u, toku_x1764_add(u, u.ndone - IntBytes, IntBytes))

nocrc_reserve_literal_bytes(v, n) == OrFailed(fits(v, n), [v EXCEPT !.ndone = @ + n])

nocrc_literal_bytes(v, s) ==
    OrFailed(fits(v, Len(s)), [v EXCEPT !.buf = Put(@, v.ndone, s), !.ndone = @ + Len(s)])

literal_bytes(v, s) ==
    LET u == nocrc_literal_bytes(v, s) IN Then(u, toku_x1764_add(u, u.ndone - Len(s), Len(s)))

nocrc_bytes(v, s) ==
    LET u == nocrc_int(v, Len(s)) IN Then(u, nocrc_literal_bytes(u, s))
bytes(v, s) ==
    LET u == int(v, Len(s)) IN Then(u, literal_bytes(u, s))

High(ull) == ull \div Power[IntBytes]
Low(ull) == ull % Power[IntBytes]

nocrc_ulonglong(v, ull) ==
    LET u == nocrc_int(v, High(ull)) IN Then(u, nocrc_int(u, Low(ull)))

ulonglong_Low(v, ull) ==  \* mutant
    LET u == int(v, Low(ull)) IN Then(u, int(u, High(ull)))
ulonglong(v, ull) ==
    LET u == int(v, High(ull)) IN Then(u, int(u, Low(ull)))

-----------------------------------------------------------------------------
(* What the callers do                                                     *)

Becomes(v, should, crc) ==
    /\ alive /\ Len(items) < MaxItems
    /\ alive' = (v # Failed)
    /\ w' = IF v = Failed THEN w ELSE v
    /\ items' = IF v = Failed THEN items ELSE Append(items, [bytes |-> should, crc |-> crc])

\* The integer i as its reader takes it, lowest byte first.
LowFirst(i) == [k \in 1 .. IntBytes |-> (i \div Power[k - 1]) % Base]

AppendByte == \E ch \in Chars : \/ Becomes(nocrc_char(w, ch), <<ch>>, FALSE)
                               \/ Becomes(char(w, ch), <<ch>>, TRUE)

AppendInt ==
    \E i \in Ints : \/ Becomes(network_int(w, i), Reverse(LowFirst(i)), TRUE)
                   \/ Becomes(nocrc_int(w, i), LowFirst(i), FALSE)
                   \/ Becomes(int(w, i), LowFirst(i), TRUE)

AppendLong ==
    \E ull \in Longs :
        LET should == LowFirst(ull \div Power[IntBytes]) \o LowFirst(ull)
        IN  \/ Becomes(nocrc_ulonglong(w, ull), should, FALSE)
            \/ Becomes(ulonglong(w, ull), should, TRUE)

AppendBytes ==
    \E s \in Literal :
        \/ Becomes(nocrc_literal_bytes(w, s), s, FALSE)
        \/ Becomes(literal_bytes(w, s), s, TRUE)
        \/ Becomes(nocrc_bytes(w, s), LowFirst(Len(s)) \o s, FALSE)
        \/ Becomes(bytes(w, s), LowFirst(Len(s)) \o s, TRUE)

Reserve ==
    \E s \in Literal :
        Becomes(nocrc_reserve_literal_bytes(w, Len(s)), [k \in 1 .. Len(s) |-> Unwritten], FALSE)

Begin(k) == Len(FlattenSeq([j \in 1 .. k - 1 |-> items[j].bytes]))

\* The caller fills bytes it reserved, through the pointer it was given.
Fill ==
    /\ alive
    /\ \E k \in DOMAIN items, s \in Literal :
          /\ Len(s) > 0 /\ items[k].bytes = [j \in 1 .. Len(s) |-> Unwritten]
          /\ w' = [w EXCEPT !.buf = Put(@, Begin(k), s)]
          /\ items' = [items EXCEPT ![k].bytes = s]
    /\ UNCHANGED alive

\* wbuf_init over the same buffer, whose bytes stay.
Restart ==
    /\ alive /\ items # <<>>
    /\ w' = [w EXCEPT !.ndone = 0, !.checksum = <<>>]
    /\ items' = <<>>
    /\ UNCHANGED alive

Next == AppendByte \/ AppendInt \/ AppendLong \/ AppendBytes \/ Reserve \/ Fill \/ Restart

Spec == Init /\ [][Next]_vars

-----------------------------------------------------------------------------
\* No byte is written outside the buffer, and what is done lies inside it.
TypeOK ==
    /\ w.size \in Sizes /\ w.ndone \in 0 .. w.size
    /\ w.buf \in [0 .. w.size - 1 -> Byte \cup {Unwritten}]
    /\ w.checksum \in Seq(Byte) /\ alive \in BOOLEAN

Should(covered(_)) ==
    FlattenSeq([k \in DOMAIN items |-> IF covered(items[k]) THEN items[k].bytes ELSE <<>>])

\* The buffer has the bytes of all calls since it was initialized, one after the
\* other and never outside, also where reserved bytes were filled after later ones.
LayoutExact ==
    LET should == Should(LAMBDA item : TRUE)
    IN  /\ TypeOK
        /\ w.ndone = Len(should)
        /\ \A k \in DOMAIN should : should[k] # Unwritten => w.buf[k - 1] = should[k]

\* The checksum has had the bytes of exactly the calls that ask for it, as they
\* still are in the buffer.
ChecksumExact == w.checksum = Should(LAMBDA item : item.crc)
=============================================================================
