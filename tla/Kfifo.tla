-------------------------------- MODULE Kfifo --------------------------------
(***************************************************************************)
(* The ring buffer of mblue_fifo.c between one writer and one reader that  *)
(* share it without a lock.  The indices in and out run freely and wrap at *)
(* the width of an unsigned int; a byte's place is its index masked with   *)
(* size - 1, which is the remainder for a power of two.                    *)
(*                                                                         *)
(* A copy is one step per byte.  MIN is a macro that evaluates the smaller *)
(* argument again after the comparison, so that each side loads the index  *)
(* of the other twice; a build that folds the loads is the case in which   *)
(* the other side does not move in between.  The steps of each side take   *)
(* effect in the order of the program, as the comments of __kfifo_put and  *)
(* __kfifo_get ask for.                                                    *)
(***************************************************************************)
EXTENDS Integers, Sequences, FiniteSets

CONSTANTS
  Data,    \* values of a byte
  Size,    \* fifo->size
  Word,    \* values of an unsigned int: 2^32
  MaxLen   \* bound: the longest put or get asked for

ASSUME SizeAssumption ==
  /\ Size \in Nat \ {0}
  /\ Word \in Nat
  /\ \E k \in 2 .. Word : Word = k * Size
  /\ MaxLen \in Nat
ASSUME DataAssumption == Data # {}

VARIABLES
  buffer,  \* fifo->buffer
  in, out, \* fifo->in and fifo->out
  wpc,     \* the writer: "idle", in MIN ("again") or "copy"
  ask,     \* the bytes the writer was asked to put
  src,     \* the bytes it takes
  done,    \* how many of them are copied
  rpc,     \* the reader: "idle", in MIN ("again") or "copy"
  want,    \* how many bytes the reader was asked to get
  len,     \* the reader's len
  got,     \* bytes copied to the reader so far
  dest     \* what the reader's last complete get returned

wvars == <<wpc, ask, src, done>>
rvars == <<rpc, want, len, got, dest>>
vars == <<buffer, in, out, wvars, rvars>>

(* Unsigned arithmetic wraps around (Unwrapped: it does not).              *)
Unwrapped(n) == n

Unsigned(n) == n % Word

(* in & (size - 1).                                                        *)
Masked(index) == index % Size

(* The place of byte i of a copy that starts at the given index: memcpy    *)
(* runs to the end of the buffer, a second one from its beginning.         *)
Place(index, i) ==
  LET first == Size - Masked(index)
  IN IF i < first THEN Masked(index) + i ELSE i - first

Init ==
  /\ buffer = [p \in 0 .. Size - 1 |-> CHOOSE d \in Data : TRUE]
  /\ in = 0
  /\ out = 0
  /\ wpc = "idle"
  /\ ask = << >>
  /\ src = << >>
  /\ done = 0
  /\ rpc = "idle"
  /\ want = 0
  /\ len = 0
  /\ got = << >>
  /\ dest = << >>

(***************************************************************************)
(* __kfifo_put.                                                            *)
(***************************************************************************)
(* Room for new bytes (RoomPlusOne: a full buffer is written over).        *)
RoomPlusOne == Unsigned(Size - in + out) + 1

Room == Unsigned(Size - in + out)

(* MIN(len, room) compares...                                              *)
PutTest(s) ==
  /\ wpc = "idle"
  /\ ask' = s
  /\ IF Len(s) < Room
       THEN wpc' = "copy" /\ src' = s
       ELSE wpc' = "again" /\ src' = << >>
  /\ done' = 0
  /\ UNCHANGED <<buffer, in, out, rvars>>

(* ...and if room was not larger takes it, which may have grown: what lies *)
(* behind the caller's bytes may be anything.                              *)
PutAgain ==
  /\ wpc = "again"
  /\ wpc' = "copy"
  /\ \E t \in [1 .. Room -> Data] :
       /\ \A i \in 1 .. Len(ask) : i <= Room => t[i] = ask[i]
       /\ src' = t
  /\ UNCHANGED <<buffer, in, out, ask, done, rvars>>

(* PutByteRestarts: the second memcpy takes buffer instead of buffer + l.  *)
PutByteRestarts ==
  /\ wpc = "copy"
  /\ done < Len(src)
  /\ LET l == Size - Masked(in)
     IN buffer' = [buffer EXCEPT ![Place(in, done)] =
                     src[IF done < l THEN done + 1 ELSE done - l + 1]]
  /\ done' = done + 1
  /\ UNCHANGED <<in, out, wpc, ask, src, rvars>>

PutByte ==
  /\ wpc = "copy"
  /\ done < Len(src)
  /\ buffer' = [buffer EXCEPT ![Place(in, done)] = src[done + 1]]
  /\ done' = done + 1
  /\ UNCHANGED <<in, out, wpc, ask, src, rvars>>

PutEnd ==
  /\ wpc = "copy"
  /\ done = Len(src)
  /\ in' = Unsigned(in + Len(src))
  /\ wpc' = "idle"
  /\ ask' = << >>
  /\ src' = << >>
  /\ done' = 0
  /\ UNCHANGED <<buffer, out, rvars>>

(***************************************************************************)
(* __kfifo_get.                                                            *)
(***************************************************************************)
(* __kfifo_len: bytes in the buffer.                                       *)
kfifo_len == Unsigned(in - out)

(* MIN(len, fifo->in - fifo->out), as above.                               *)
GetTest(n) ==
  /\ rpc = "idle"
  /\ want' = n
  /\ IF n < kfifo_len
       THEN rpc' = "copy" /\ len' = n
       ELSE rpc' = "again" /\ len' = 0
  /\ UNCHANGED <<buffer, in, out, wvars, got, dest>>

GetAgain ==
  /\ rpc = "again"
  /\ rpc' = "copy"
  /\ len' = kfifo_len
  /\ UNCHANGED <<buffer, in, out, wvars, want, got, dest>>

GetByte ==
  /\ rpc = "copy"
  /\ Len(got) < len
  /\ got' = Append(got, buffer[Place(out, Len(got))])
  /\ UNCHANGED <<buffer, in, out, wvars, rpc, want, len, dest>>

(* GetEndEarly: the bytes are given back to the writer before the last one *)
(* is copied.                                                              *)
GetEndEarly ==
  /\ rpc = "copy"
  /\ Len(got) + 1 = len
  /\ out' = Unsigned(out + len)
  /\ rpc' = "idle"
  /\ want' = 0
  /\ len' = 0
  /\ got' = << >>
  /\ dest' = got
  /\ UNCHANGED <<buffer, in, wvars>>

GetEnd ==
  /\ rpc = "copy"
  /\ Len(got) = len
  /\ out' = Unsigned(out + len)
  /\ rpc' = "idle"
  /\ want' = 0
  /\ len' = 0
  /\ got' = << >>
  /\ dest' = got
  /\ UNCHANGED <<buffer, in, wvars>>

(* __kfifo_reset, which has to be kept apart from put and get.             *)
kfifo_reset ==
  /\ wpc = "idle"
  /\ rpc = "idle"
  /\ in' = 0
  /\ out' = 0
  /\ UNCHANGED <<buffer, wvars, rvars>>

Strings == UNION {[1 .. n -> Data] : n \in 0 .. MaxLen}

Next ==
  \/ \E s \in Strings : PutTest(s)
  \/ PutAgain
  \/ PutByte
  \/ PutEnd
  \/ \E n \in 0 .. MaxLen : GetTest(n)
  \/ GetAgain
  \/ GetByte
  \/ GetEnd
  \/ kfifo_reset

Spec == Init /\ [][Next]_vars

(***************************************************************************)
(* Properties.                                                             *)
(***************************************************************************)
(* Types: in and out stay within the width of unsigned int.                *)
TypeOK ==
  /\ buffer \in [0 .. Size - 1 -> Data]
  /\ in \in 0 .. Word - 1
  /\ out \in 0 .. Word - 1
  /\ wpc \in {"idle", "again", "copy"}
  /\ ask \in Seq(Data)
  /\ src \in Seq(Data)
  /\ done \in 0 .. Len(src)
  /\ rpc \in {"idle", "again", "copy"}
  /\ want \in 0 .. MaxLen
  /\ len \in 0 .. Size
  /\ got \in Seq(Data)
  /\ Len(got) <= len
  /\ dest \in Seq(Data)

(* What each side sampled of the other's index stays a safe claim however  *)
(* far the other side moves: the bytes being copied in never reach those   *)
(* being copied out, and neither side passes the other, although in and    *)
(* out wrap at different moments.                                          *)
NeverOverrun ==
  /\ kfifo_len <= Size
  /\ kfifo_len + Len(src) <= Size
  /\ len <= kfifo_len
  /\ \A i \in 0 .. Len(src) - 1, j \in 0 .. len - 1 : Place(in, i) # Place(out, j)

(* Until it moves its index, what a side has copied so far is exactly what *)
(* stands in the buffer at the places it covers: the other side, although  *)
(* it may be copying at the same time, has not written or released them.   *)
CopiesAgree ==
  /\ \A i \in 0 .. done - 1 : buffer[Place(in, i)] = src[i + 1]
  /\ \A i \in 1 .. Len(got) : got[i] = buffer[Place(out, i - 1)]
  /\ wpc # "copy" => src = << >>
  /\ rpc # "copy" => len = 0

KfifoInv == TypeOK /\ NeverOverrun /\ CopiesAgree

(* The bytes put and not yet got.                                          *)
content == [i \in 1 .. kfifo_len |-> buffer[Place(out, i - 1)]]

Bytes == INSTANCE ByteFifo

(* The ring is a queue of bytes: a put appends what fits and a get returns *)
(* the oldest bytes, at the moment the index is advanced, with no lock     *)
(* between one writer and one reader, as the comments of __kfifo_put and   *)
(* __kfifo_get promise.                                                    *)
ImplementsBytes == Bytes!Spec
==============================================================================
