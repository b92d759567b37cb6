------------------------------ MODULE PbStream ------------------------------
(***************************************************************************)
(* The streams of nanopb and what is read from and written to them without *)
(* knowing a message type: variable-length integers, tags, strings, fixed  *)
(* words, fields to skip (pb_decode.c, pb_encode.c).                       *)
(*                                                                         *)
(* The widths are parameters: the program has bytes of 8 bits, 7 of which  *)
(* carry a group of a varint, and words of 32 and 64 bits.  What matters   *)
(* is kept: 32 and 64 bits are no multiples of 7 but fill whole bytes.     *)
(*                                                                         *)
(* An input stream is the memory that is left from stream->state on, and   *)
(* bytes_left; over tells that bytes after the end of the memory have been *)
(* read.  An operation returns [ok, s, v]: success, the stream, the value. *)
(***************************************************************************)
EXTENDS Integers, Sequences, TLC

CONSTANTS
  GroupBits,   \* 7
  Half,        \* 32
  Word,        \* 64
  BitposWrap,  \* 256: uint_fast8_t
  Huge         \* SIZE_MAX

ASSUME WidthAssumption ==
  /\ GroupBits \in Nat \ {0} /\ Half \in Nat \ {0}
  /\ Word = 2 * Half /\ Half % (GroupBits + 1) = 0
  /\ Half % GroupBits # 0 /\ Word % GroupBits = 1
  /\ BitposWrap > Word
  /\ Huge > 2 ^ Half

Bytes == 0 .. 2 ^ (GroupBits + 1) - 1
Group(b) == b % 2 ^ GroupBits
Continues(b) == b >= 2 ^ GroupBits

(* The two's complement number whose low bits are n.                       *)
Signed(n, bits) ==
  LET m == n % 2 ^ bits IN IF m >= 2 ^ (bits - 1) THEN m - 2 ^ bits ELSE m

Smaller(a, b) == IF a < b THEN a ELSE b

Done(s, v) == [ok |-> TRUE, s |-> s, v |-> v]
Failed(s) == [ok |-> FALSE, s |-> s, v |-> 0]

(* if (!r) return false; and then Next, with the stream and the value.     *)
Then(r, Next(_, _)) == IF r.ok THEN Next(r.s, r.v) ELSE r

(***************************************************************************)
(* Input.                                                                  *)
(***************************************************************************)
pb_istream_from_buffer(memory, size) == [memory |-> memory, left |-> size, over |-> FALSE]

(* pb_read, with the buffer callback.  What lies after the memory is read  *)
(* as zeros.                                                               *)
pb_read(s, count) ==
  LET n == Smaller(count, Len(s.memory))
  IN IF s.left < count THEN Failed(s)
     ELSE Done([memory |-> SubSeq(s.memory, n + 1, Len(s.memory)),
                left |-> s.left - count,
                over |-> s.over \/ count > Len(s.memory)],
               SubSeq(s.memory, 1, n))

pb_readbyte(s) ==
  Then(pb_read(s, 1), LAMBDA t, bytes : Done(t, IF bytes = << >> THEN 0 ELSE bytes[1]))

(* The bits of a group, added to the number read so far.                   *)
Sum(result, b, bitpos, width) == (result + Group(b) * 2 ^ bitpos) % 2 ^ width

(* pb_decode_varint: a number of Word bits, from bit bitpos on.            *)
RECURSIVE VarintFrom(_, _, _)
VarintFrom(s, bitpos, result) ==
  IF bitpos >= Word THEN Failed(s)
  ELSE Then(pb_readbyte(s), LAMBDA t, b :
         IF Continues(b) THEN VarintFrom(t, bitpos + GroupBits, Sum(result, b, bitpos, Word))
         ELSE Done(t, Sum(result, b, bitpos, Word)))

pb_decode_varint(s) == VarintFrom(s, 0, 0)

(* pb_decode_varint32_eof, the bytes after the first.  Beyond the bits of  *)
(* the result there may be the sign of a negative number, or nothing       *)
(* (SignUnchecked: anything).                                              *)
SignUnchecked(b, bitpos, result) == TRUE

SignExtension(b, bitpos, result) ==
  \/ Group(b) = 0
  \/ /\ result >= 2 ^ (Half - 1)
     /\ b = IF bitpos < Word - 1 THEN 2 ^ (GroupBits + 1) - 1 ELSE 1

Sum32(result, b, bitpos) == IF bitpos >= Half THEN result ELSE Sum(result, b, bitpos, Half)

TooBig(b, bitpos) ==
  bitpos < Half /\ bitpos + GroupBits > Half /\ Group(b) >= 2 ^ (Half % GroupBits)

RECURSIVE Varint32From(_, _, _)
Varint32From(s, bitpos, result) ==
  Then(pb_readbyte(s), LAMBDA t, b :
    IF bitpos >= Half /\ ~SignExtension(b, bitpos, result) THEN Failed(t)
    ELSE IF Continues(b)
      THEN Varint32From(t, (bitpos + GroupBits) % BitposWrap, Sum32(result, b, bitpos))
    ELSE IF TooBig(b, bitpos) THEN Failed(t)
    ELSE Done(t, Sum32(result, b, bitpos)))

pb_decode_varint32(s) ==
  Then(pb_readbyte(s), LAMBDA t, b :
    IF Continues(b) THEN Varint32From(t, GroupBits, Group(b)) ELSE Done(t, b))

RECURSIVE pb_skip_varint(_)
pb_skip_varint(s) ==
  Then(pb_readbyte(s), LAMBDA t, b : IF Continues(b) THEN pb_skip_varint(t) ELSE Done(t, b))

(* (LengthOnly: the characters are forgotten).                             *)
LengthOnly(s) == pb_decode_varint32(s)

pb_skip_string(s) == Then(pb_decode_varint32(s), pb_read)

(* pb_decode_tag, from the number r: [tag, type], or the end of the        *)
(* message: nothing is left to read, or a zero.                            *)
TagOf(s, r) ==
  IF ~r.ok THEN r @@ [eof |-> s.left = 0]
  ELSE IF r.v = 0 THEN Failed(r.s) @@ [eof |-> TRUE]
  ELSE Done(r.s, [tag |-> r.v \div 8, type |-> r.v % 8]) @@ [eof |-> FALSE]

pb_decode_tag(s) == TagOf(s, pb_decode_varint32(s))

WT_VARINT == 0
WT_64BIT == 1
WT_STRING == 2
WT_32BIT == 5

FixedBytes(bits) == bits \div (GroupBits + 1)

pb_skip_field(s, type) ==
  CASE type = WT_VARINT -> pb_skip_varint(s)
    [] type = WT_64BIT -> pb_read(s, FixedBytes(Word))
    [] type = WT_STRING -> pb_skip_string(s)
    [] type = WT_32BIT -> pb_read(s, FixedBytes(Half))
    [] OTHER -> Failed(s)

(* read_raw_value: the bytes of a value that is not a string.              *)
read_raw_value(s, type) ==
  IF type = WT_STRING THEN Failed(s)
  ELSE Then(pb_skip_field(s, type), LAMBDA t, v :
         IF s.left - t.left > (Word \div GroupBits) + 1 THEN Failed(t)
         ELSE Done(t, SubSeq(s.memory, 1, Smaller(s.left - t.left, Len(s.memory)))))

(* pb_make_string_substream and pb_close_string_substream around the       *)
(* stream sub that a reader of the substream has left.                     *)
Split(s, n) == Done([s EXCEPT !.left = @ - n], [s EXCEPT !.left = n])
pb_make_string_substream(s) ==
  Then(pb_decode_varint32(s), LAMBDA t, n : IF t.left < n THEN Failed(t) ELSE Split(t, n))

pb_close_string_substream(s, sub) ==
  Then(pb_read(sub, sub.left), LAMBDA t, v :
    Done([memory |-> t.memory, left |-> s.left, over |-> t.over], 0))

(* Read, in the substream of the string that comes next.                   *)
InSubstream(s, Read(_)) ==
  Then(pb_make_string_substream(s), LAMBDA t, sub :
    Then(Read(sub), LAMBDA rest, v :
      Then(pb_close_string_substream(t, rest), LAMBDA u, w : Done(u, v))))

RECURSIVE LittleEndian(_)
LittleEndian(bytes) ==
  IF bytes = << >> THEN 0 ELSE Head(bytes) + 2 ^ (GroupBits + 1) * LittleEndian(Tail(bytes))

(* pb_decode_fixed32 and pb_decode_fixed64.                                *)
pb_decode_fixed(s, bits) ==
  Then(pb_read(s, FixedBytes(bits)), LAMBDA t, bytes : Done(t, LittleEndian(bytes)))

pb_decode_svarint(s) ==
  Then(pb_decode_varint(s), LAMBDA t, n :
    Done(t, IF n % 2 = 1 THEN -(n \div 2) - 1 ELSE n \div 2))

(***************************************************************************)
(* Output.  A stream for sizing has no callback: it only counts.           *)
(***************************************************************************)
pb_ostream_from_buffer(size) == [memory |-> << >>, written |-> 0, max |-> size, sizing |-> FALSE]
PB_OSTREAM_SIZING == [memory |-> << >>, written |-> 0, max |-> 0, sizing |-> TRUE]

pb_write(o, bytes) ==
  IF ~o.sizing /\ o.written + Len(bytes) > o.max THEN Failed(o)
  ELSE Done([o EXCEPT !.written = @ + Len(bytes),
                      !.memory = IF o.sizing THEN @ ELSE @ \o bytes], 0)

(* A sizing stream is told the size of what would be written.              *)
Count(o, n) == Done([o EXCEPT !.written = @ + n], 0)

RECURSIVE Groups(_)
Groups(value) ==
  IF value < 2 ^ GroupBits THEN <<value>>
  ELSE <<Group(value) + 2 ^ GroupBits>> \o Groups(value \div 2 ^ GroupBits)

(* pb_encode_varint; numbers are of Word bits.                             *)
pb_encode_varint(o, value) == pb_write(o, Groups(value % 2 ^ Word))

pb_encode_svarint(o, value) ==
  pb_encode_varint(o, IF value < 0 THEN -2 * value - 1 ELSE 2 * value)

RECURSIVE Fixed(_, _)
Fixed(value, n) ==
  IF n = 0 THEN << >>
  ELSE <<value % 2 ^ (GroupBits + 1)>> \o Fixed(value \div 2 ^ (GroupBits + 1), n - 1)

(* pb_encode_fixed32 and pb_encode_fixed64.                                *)
pb_encode_fixed(o, value, bits) == pb_write(o, Fixed(value, FixedBytes(bits)))

pb_encode_tag(o, type, tag) == pb_encode_varint(o, tag * 8 + type)

pb_encode_string(o, bytes) ==
  Then(pb_encode_varint(o, Len(bytes)), LAMBDA p, v : pb_write(p, bytes))
=============================================================================
