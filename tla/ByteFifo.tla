------------------------------ MODULE ByteFifo ------------------------------
(***************************************************************************)
(* What a ring buffer promises its writer and its reader: bytes come out   *)
(* in the order they went in, a put takes no more than there is room for.  *)
(***************************************************************************)
EXTENDS Integers, Sequences

CONSTANTS Data, Size

VARIABLES
  content,  \* bytes put and not yet got, oldest first
  dest      \* bytes the reader's last get has returned

Init ==
  /\ content = << >>
  /\ dest = << >>

Put(s) ==
  /\ Len(content) + Len(s) <= Size
  /\ content' = content \o s
  /\ UNCHANGED dest

Get(n) ==
  /\ dest' = SubSeq(content, 1, n)
  /\ content' = SubSeq(content, n + 1, Len(content))

Clear ==
  /\ content' = << >>
  /\ UNCHANGED dest

Next ==
  \/ \E n \in 0 .. Size : \E s \in [1 .. n -> Data] : Put(s)
  \/ \E n \in 0 .. Len(content) : Get(n)
  \/ Clear

Spec == Init /\ [][Next]_<<content, dest>>
=============================================================================
