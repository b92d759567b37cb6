----------------------------- MODULE PbMessage ------------------------------
(***************************************************************************)
(* Messages of nanopb (pb_decode.c, pb_encode.c, pb_common.c), as built    *)
(* here: without PB_ENABLE_MALLOC.                                         *)
(*                                                                         *)
(* A message type is the sequence of its fields,                           *)
(*   [tag, l, h, a, size, arr, sub, init]                                  *)
(* l, h and a are LTYPE, HTYPE and ATYPE, size stands for data_size (the   *)
(* bits of a number, the bytes of a string), arr is array_size, sub the    *)
(* type of a submessage and init the default value.  HTYPE_OPTIONAL        *)
(* without has_ field (proto3) is "singular", a callback field without     *)
(* function has ATYPE "no callback".                                       *)
(*                                                                         *)
(* A message maps every field to the sequence of its items: one item for a *)
(* required or singular field, at most one for an optional field or a      *)
(* member of a oneof, up to array_size for a repeated one.  The place of   *)
(* the extensions (LTYPE "extension", tag the first they may have) holds   *)
(* the registered ones in sub, and the items of each in the message; an    *)
(* extension without item is one that is not found.                        *)
(***************************************************************************)
EXTENDS PbStream, SequencesExt

Packable == {"varint", "uvarint", "svarint", "fixed32", "fixed64"}

(* pb_field_set_to_default, pb_message_set_to_defaults.                    *)
RECURSIVE SetToDefaults(_)
SetToDefaults(fields) ==
  [i \in DOMAIN fields |->
     IF fields[i].l = "extension" THEN [k \in DOMAIN fields[i].sub |-> << >>]
     ELSE IF fields[i].h \in {"required", "singular"} /\ fields[i].a = "static"
       THEN <<IF fields[i].l = "submessage" THEN SetToDefaults(fields[i].sub)
              ELSE fields[i].init>>
       ELSE << >>]

(***************************************************************************)
(* Encoding.                                                               *)
(***************************************************************************)
(* Items one after the other, until one fails.                             *)
Sequentially(Write(_, _), o, items) ==
  FoldLeft(LAMBDA r, v : IF r.ok THEN Write(r.s, v) ELSE r, Done(o, 0), items)

pb_encode_tag_for_field(o, f) ==
  pb_encode_tag(o,
    CASE f.l \in {"varint", "uvarint", "svarint"} -> WT_VARINT
      [] f.l = "fixed32" -> WT_32BIT
      [] f.l = "fixed64" -> WT_64BIT
      [] OTHER -> WT_STRING, f.tag)

(* pb_check_proto3_default_value.                                          *)
RECURSIVE IsDefault(_, _)
IsDefault(f, items) ==
  CASE f.h = "required" -> FALSE
    [] f.h # "required" /\ f.a # "static" ->
         f.a = "no callback" \/ (f.l = "extension" /\ f.sub = << >>)
    [] f.a = "static" /\ f.h \in {"optional", "repeated", "oneof"} -> items = << >>
    [] f.a = "static" /\ f.h = "singular" ->
         CASE f.l = "submessage" -> \A i \in DOMAIN f.sub : IsDefault(f.sub[i], items[1][i])
           [] f.l \in {"bytes", "string"} -> items[1] = << >>
           [] f.l = "fixed bytes" -> f.size = 0
           [] OTHER -> items[1] = 0

RECURSIVE pb_encode(_, _, _)

(* pb_encode_submessage: the size comes first, found by encoding twice.    *)
WriteSubmessage(o, fields, m, size) ==
  Then(pb_encode_varint(o, size), LAMBDA p, v :
    IF p.sizing THEN Count(p, size)
    ELSE IF p.written + size > p.max THEN Failed(p)
    ELSE Then(pb_encode([p EXCEPT !.written = 0, !.max = size], fields, m), LAMBDA q, w :
           IF q.written # size THEN Failed(q)
           ELSE Done([p EXCEPT !.memory = q.memory, !.written = @ + size], 0)))

pb_encode_submessage(o, fields, m) ==
  Then(pb_encode(PB_OSTREAM_SIZING, fields, m), LAMBDA p, v :
    WriteSubmessage(o, fields, m, p.written))

(* The encoders: pb_enc_varint to pb_enc_fixed_length_bytes.               *)
EncodeItem(o, f, v) ==
  CASE f.l \in {"varint", "uvarint"} -> pb_encode_varint(o, v)
    [] f.l = "svarint" -> pb_encode_svarint(o, v)
    [] f.l = "fixed32" -> pb_encode_fixed(o, v, Half)
    [] f.l = "fixed64" -> pb_encode_fixed(o, v, Word)
    [] f.l = "bytes" -> IF Len(v) > f.size THEN Failed(o) ELSE pb_encode_string(o, v)
    [] f.l = "string" -> pb_encode_string(o, SubSeq(v, 1, Smaller(Len(v), f.size)))
    [] f.l = "submessage" -> pb_encode_submessage(o, f.sub, v)
    [] f.l = "fixed bytes" -> pb_encode_string(o, v)

(* A tag and its item.                                                     *)
Tagged(o, f, v) ==
  Then(pb_encode_tag_for_field(o, f), LAMBDA p, w : EncodeItem(p, f, v))

(* encode_array: numbers are packed into one string.                       *)
PackedSize(f, items) ==
  CASE f.l = "fixed32" -> FixedBytes(Half) * Len(items)
    [] f.l = "fixed64" -> FixedBytes(Word) * Len(items)
    [] OTHER -> Sequentially(LAMBDA p, v : EncodeItem(p, f, v), PB_OSTREAM_SIZING, items).s.written

EncodePacked(o, f, items, size) ==
  Then(pb_encode_tag(o, WT_STRING, f.tag), LAMBDA p, v :
    Then(pb_encode_varint(p, size), LAMBDA q, w :
      IF q.sizing THEN Count(q, size)
      ELSE Sequentially(LAMBDA r, i : EncodeItem(r, f, i), q, items)))

encode_array(o, f, items) ==
  CASE items = << >> -> Done(o, 0)
    [] Len(items) > f.arr -> Failed(o)
    [] Len(items) \in 1 .. f.arr /\ f.l \in Packable ->
         EncodePacked(o, f, items, PackedSize(f, items))
    [] Len(items) \in 1 .. f.arr /\ f.l \notin Packable ->
         Sequentially(LAMBDA p, v : Tagged(p, f, v), o, items)

(* encode_basic_field, encode_callback_field (with the callback            *)
(* __mblue_pb_write_bytes) and encode_field.                               *)
encode_field(o, f, items) ==
  CASE f.a = "callback" ->
         IF items = << >> THEN Done(o, 0)
         ELSE Then(pb_encode_tag_for_field(o, f), LAMBDA p, v : pb_encode_string(p, items[1]))
    [] f.a = "no callback" -> Done(o, 0)
    [] f.a = "static" /\ f.h = "repeated" -> encode_array(o, f, items)
    [] f.a = "static" /\ f.h = "singular" ->
         IF IsDefault(f, items) THEN Done(o, 0) ELSE Tagged(o, f, items[1])
    [] OTHER -> IF items # << >> THEN Tagged(o, f, items[1])
                ELSE IF f.h = "required" THEN Failed(o) ELSE Done(o, 0)

(* encode_extension_field, default_extension_encoder: all that are         *)
(* registered, one after the other.                                        *)
encode_extension_field(o, f, items) ==
  Sequentially(LAMBDA p, k : encode_field(p, f.sub[k], items[k]), o, [k \in DOMAIN f.sub |-> k])

EncodeOne(o, f, items) ==
  IF f.l = "extension" THEN encode_extension_field(o, f, items) ELSE encode_field(o, f, items)

pb_encode(o, fields, m) ==
  Sequentially(LAMBDA p, i : EncodeOne(p, fields[i], m[i]), o, [i \in DOMAIN fields |-> i])

SizeOf(r) == [ok |-> r.ok, size |-> r.s.written]
pb_get_encoded_size(fields, m) == SizeOf(pb_encode(PB_OSTREAM_SIZING, fields, m))

pb_encode_delimited(o, fields, m) == pb_encode_submessage(o, fields, m)

(***************************************************************************)
(* Decoding.                                                               *)
(***************************************************************************)
(* A number has to be in the range of its field.                           *)
Clamp(s, n, clamped) == IF n = clamped THEN Done(s, n) ELSE Failed(s)
ClampSigned(s, n, f) == Clamp(s, n, Signed(n, f.size))

(* pb_dec_varint: fields of up to 32 bits take the low 32 bits first       *)
(* (SignLost: and keep them as they are).                                  *)
SignLost(s, f) == Then(pb_decode_varint(s), LAMBDA t, n : Done(t, n % 2 ^ f.size))

pb_dec_varint(s, f) ==
  Then(pb_decode_varint(s), LAMBDA t, n :
    ClampSigned(t, Signed(n, IF f.size = Word THEN Word ELSE Half), f))

pb_dec_uvarint(s, f) ==
  Then(pb_decode_varint(s), LAMBDA t, n : Clamp(t, n, n % 2 ^ f.size))

pb_dec_svarint(s, f) ==
  Then(pb_decode_svarint(s), LAMBDA t, n : ClampSigned(t, n, f))

(* pb_dec_bytes, pb_dec_string and pb_dec_fixed_length_bytes: a string of  *)
(* a length for which there is Room.                                       *)
DecodeString(s, Room(_)) ==
  Then(pb_decode_varint32(s), LAMBDA t, n : IF Room(n) THEN pb_read(t, n) ELSE Failed(t))

pb_dec_bytes(s, f) == DecodeString(s, LAMBDA n : n <= f.size)
pb_dec_string(s, f) == DecodeString(s, LAMBDA n : n + 1 <= f.size)

pb_dec_fixed_length_bytes(s, f) ==
  Then(DecodeString(s, LAMBDA n : n \in {0, f.size}), LAMBDA t, bytes :
    Done(t, IF bytes = << >> THEN [i \in 1 .. f.size |-> 0] ELSE bytes))

RECURSIVE pb_decode_noinit(_, _, _)

pb_decode(s, fields) == pb_decode_noinit(s, fields, SetToDefaults(fields))

(* pb_dec_submessage: into the message old, or a new entry of an array.    *)
pb_dec_submessage(s, f, old) ==
  InSubstream(s, LAMBDA sub :
    IF f.h = "repeated" THEN pb_decode(sub, f.sub) ELSE pb_decode_noinit(sub, f.sub, old))

DecodeItem(s, f, old) ==
  CASE f.l = "varint" -> pb_dec_varint(s, f)
    [] f.l = "uvarint" -> pb_dec_uvarint(s, f)
    [] f.l = "svarint" -> pb_dec_svarint(s, f)
    [] f.l = "fixed32" -> pb_decode_fixed(s, Half)
    [] f.l = "fixed64" -> pb_decode_fixed(s, Word)
    [] f.l = "bytes" -> pb_dec_bytes(s, f)
    [] f.l = "string" -> pb_dec_string(s, f)
    [] f.l = "submessage" -> pb_dec_submessage(s, f, old)
    [] f.l = "fixed bytes" -> pb_dec_fixed_length_bytes(s, f)

(* One more item of an array that has room for it.                         *)
Appended(s, f, items) ==
  IF Len(items) >= f.arr THEN Failed(s)
  ELSE Then(DecodeItem(s, f, << >>), LAMBDA t, v : Done(t, Append(items, v)))

(* The loop over a packed array.                                           *)
RECURSIVE Unpack(_, _, _)
Unpack(sub, f, items) ==
  IF sub.left = 0 THEN Done(sub, items)
  ELSE Then(Appended(sub, f, items), LAMBDA t, more : Unpack(t, f, more))

DecodePacked(s, f, items) == InSubstream(s, LAMBDA sub : Unpack(sub, f, items))

(* The message a submessage is read into.                                  *)
OldItem(f, items) ==
  IF f.l # "submessage" THEN 0
  ELSE IF items = << >> \/ f.h = "oneof" THEN SetToDefaults(f.sub) ELSE items[1]

Single(s, v) == Done(s, <<v>>)

decode_static_field(s, type, f, items) ==
  CASE f.h = "repeated" /\ type = WT_STRING /\ f.l \in Packable -> DecodePacked(s, f, items)
    [] f.h = "repeated" /\ ~(type = WT_STRING /\ f.l \in Packable) -> Appended(s, f, items)
    [] OTHER -> Then(DecodeItem(s, f, OldItem(f, items)), Single)

(* decode_callback_field, with the callbacks __mblue_pb_get_bytes_pointer  *)
(* or __mblue_pb_read_bytes, which take all there is.                      *)
decode_callback_field(s, type) ==
  Then(IF type = WT_STRING THEN InSubstream(s, LAMBDA sub : pb_read(sub, sub.left))
       ELSE read_raw_value(s, type), Single)

decode_field(s, type, f, items) ==
  CASE f.a = "static" -> decode_static_field(s, type, f, items)
    [] f.a = "callback" -> decode_callback_field(s, type)
    [] f.a = "no callback" -> Then(pb_skip_field(s, type), LAMBDA t, v : Done(t, items))
    [] OTHER -> Failed(s)  \* decode_pointer_field: no malloc support

(* pb_field_iter_find.                                                     *)
FieldOf(fields, tag) == {i \in DOMAIN fields : fields[i].tag = tag /\ fields[i].l # "extension"}

(* decode_extension with default_extension_decoder: the extensions are     *)
(* tried in turn until one takes bytes from the stream.                    *)
ExtensionAt(s, type, f, items, k) ==
  Then(decode_field(s, type, f.sub[k], items[k]), LAMBDA t, v : Done(t, [items EXCEPT ![k] = v]))

decode_extension(s, tag, type, f, items) ==
  LET taken == {k \in DOMAIN f.sub : f.sub[k].tag = tag}
  IN IF taken = {} THEN Done(s, items) ELSE ExtensionAt(s, type, f, items, Min(taken))

(* find_extension_field and the test against the start of the range.       *)
ExtensionsFor(fields, tag) == {i \in DOMAIN fields : fields[i].l = "extension" /\ tag >= fields[i].tag}

(* The loop of pb_decode_noinit.  seen: the required fields met so far     *)
(* (at most PB_MAX_REQUIRED_FIELDS, 64, are watched).                      *)
RECURSIVE DecodeFields(_, _, _, _)

(* Storing the items of field i; the members of a oneof share their place. *)
Stored(fields, m, i, items) ==
  [j \in DOMAIN m |->
     IF j = i THEN items
     ELSE IF fields[i].h = "oneof" /\ fields[j].h = "oneof" THEN << >> ELSE m[j]]

Known(s, type, i, fields, m, seen) ==
  Then(decode_field(s, type, fields[i], m[i]), LAMBDA t, items :
    DecodeFields(t, fields, Stored(fields, m, i, items), seen \cup {i}))

(* An unknown field is an extension, or skipped if that takes nothing.     *)
AsExtension(s, tag, type, fields, m) ==
  LET places == ExtensionsFor(fields, tag)
      e == CHOOSE e \in places : TRUE
  IN IF places = {} THEN Done(s, m)
     ELSE Then(decode_extension(s, tag, type, fields[e], m[e]), LAMBDA t, items :
            Done(t, [m EXCEPT ![e] = items]))

Unknown(s, tag, type, fields, m, seen) ==
  Then(AsExtension(s, tag, type, fields, m), LAMBDA t, n :
    IF t.left # s.left THEN DecodeFields(t, fields, n, seen)
    ELSE Then(pb_skip_field(t, type), LAMBDA u, v : DecodeFields(u, fields, n, seen)))

(* The end of the message.                                                 *)
Complete(s, fields, m, seen) ==
  IF \A j \in DOMAIN fields : fields[j].h = "required" => j \in seen THEN Done(s, m) ELSE Failed(s)

AfterTag(t, fields, m, seen) ==
  LET found == FieldOf(fields, t.v.tag)
  IN IF ~t.ok THEN IF t.eof THEN Complete(t.s, fields, m, seen) ELSE Failed(t.s)
     ELSE IF found = {} THEN Unknown(t.s, t.v.tag, t.v.type, fields, m, seen)
     ELSE Known(t.s, t.v.type, CHOOSE i \in found : TRUE, fields, m, seen)

DecodeFields(s, fields, m, seen) ==
  IF s.left = 0 THEN Complete(s, fields, m, seen) ELSE AfterTag(pb_decode_tag(s), fields, m, seen)

pb_decode_noinit(s, fields, m) == DecodeFields(s, fields, m, {})

pb_decode_delimited(s, fields) == InSubstream(s, LAMBDA sub : pb_decode(sub, fields))
=============================================================================
