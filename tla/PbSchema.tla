------------------------------ MODULE PbSchema ------------------------------
(***************************************************************************)
(* The payloads of remote calls: pb_schema.c over nanopb, with the message *)
(* types of mblue.pb.c and the part of default_ipc_handler that decodes.   *)
(*                                                                         *)
(* A job is the transfer of one thing: a remote call with its arguments, a *)
(* structure with a layout, or a single number.  The sender serializes it  *)
(* into a buffer from the heap; the receiver is given a pointer and no     *)
(* size, and finds the end by the lengths that are written in the buffer.  *)
(***************************************************************************)
EXTENDS PbMessage

CONSTANTS
  NULL,
  MethodMax,     \* MAX_IPC_METHOD_NAME_LENGTH, 31
  LenSpace,      \* 4, the room left for a length
  SizesFit,      \* is size_t as wide as uint32_t?
  Methods,       \* names of methods, sequences of characters
  Numbers,       \* values of an int32 field
  Texts,         \* values of a bytes field
  Structs,       \* structures to transfer: [fields, m]
  Words          \* numbers to transfer

ASSUME SchemaAssumption ==
  /\ \A name \in Methods : Len(name) <= MethodMax
  /\ SizesFit \in BOOLEAN

VARIABLES job, buffer, result
vars == <<job, buffer, result>>

(***************************************************************************)
(* Layouts.                                                                *)
(***************************************************************************)
Field(tag, l, h, a, size) ==
  [tag |-> tag, l |-> l, h |-> h, a |-> a, size |-> size, arr |-> 0, sub |-> << >>,
   init |-> IF l \in {"bytes", "string", "submessage"} THEN << >> ELSE 0]

INT32(tag) == Field(tag, "varint", "required", "static", Half)
BYTES(tag) == Field(tag, "bytes", "required", "callback", 0)
STRING_(tag) == Field(tag, "string", "required", "callback", 0)

dl_rpc_header_fields == <<Field(1, "string", "required", "static", MethodMax + 1), INT32(2)>>
dl_array_fields == <<BYTES(1)>>
dl_1_fields == <<INT32(1)>>
dl_12_fields == <<INT32(1), BYTES(2)>>
dl_111_fields == <<INT32(1), INT32(2), INT32(3)>>
dl_112_fields == <<INT32(1), INT32(2), BYTES(3)>>
dl_113_fields == <<INT32(1), INT32(2), STRING_(3)>>
dl_1111_fields == <<INT32(1), INT32(2), INT32(3), INT32(4)>>
dl_1112_fields == <<INT32(1), INT32(2), INT32(3), BYTES(4)>>

(* Layouts of the schema that no remote call uses.                         *)
UINT32(tag) == Field(tag, "uvarint", "required", "static", Half)
CHARS(tag, size) == Field(tag, "string", "required", "static", size)
Optional(f) == [f EXCEPT !.h = "optional"]

dl_at_request_fields == <<INT32(1), INT32(2), BYTES(3)>>
dl_uart_request_fields == <<INT32(1), BYTES(2)>>
dl_uart_response_fields == <<INT32(1)>>
dl_mblue_message_fields == <<Optional(UINT32(1)), UINT32(2), UINT32(3),
                             Optional(BYTES(4)), Optional(BYTES(5)), BYTES(6)>>
dl_11_fields == <<INT32(1), INT32(2)>>
dl_server_init_fields == <<CHARS(1, 16), CHARS(2, 16), INT32(3), CHARS(4, 28), CHARS(5, 16),
                           CHARS(6, 24), CHARS(7, 16)>>
dl_server_touch_fields == [i \in 1 .. 8 |-> INT32(i)]
dl_server_event_fields == <<INT32(1), Optional(INT32(2))>>
dl_server_setup_fields == <<INT32(1), Optional(INT32(2))>>
dl_ack_fields == <<INT32(1), INT32(2)>>

(* mblue_pb_data_layout_array, at the index PB_TYPE_INDEX.  PB_0 has no    *)
(* layout.                                                                 *)
mblue_pb_data_layout_array ==
  [i \in 0 .. 8 |->
     <<<< >>, dl_1_fields, dl_array_fields, dl_12_fields, dl_112_fields, dl_113_fields,
       dl_111_fields, dl_1111_fields, dl_1112_fields>>[i + 1]]

Indices == DOMAIN mblue_pb_data_layout_array

(* The arguments a layout can carry: numbers, then perhaps a text.         *)
Arguments(index) ==
  LET fields == mblue_pb_data_layout_array[index]
      texts == {i \in DOMAIN fields : fields[i].a = "callback"}
      n == Len(fields) - Cardinality(texts)
  IN {[i \in 1 .. n |-> <<nums[i]>>] \o rest :
        nums \in [1 .. n -> Numbers],
        rest \in IF texts = {} THEN {<< >>} ELSE {<< <<t>> >> : t \in Texts}}

(***************************************************************************)
(* Senders.                                                                *)
(***************************************************************************)
Init == job = NULL /\ buffer = NULL /\ result = NULL

Allocated(o, freed) == [memory |-> o.memory, written |-> o.written, freed |-> freed]

(* header.method_name after strncpy: the byte after a name of the greatest *)
(* length is not set (tail).                                               *)
MethodName(method, tail) ==
  IF Len(method) = MethodMax /\ tail # 0 THEN Append(method, tail) ELSE method

(* buffer_size (NoLenSpace: without room for the lengths; NoDataLenSpace:  *)
(* without room for the one of the data).                                  *)
NoLenSpace(header_size, data_size) == header_size + data_size
NoDataLenSpace(header_size, data_size) == header_size + 2 + data_size

BufferSize(header_size, data_size) ==
  header_size + LenSpace + IF data_size > 0 THEN data_size + LenSpace ELSE 0

(* What mblue_serialize_ipc makes of its arguments: nothing, or a buffer.  *)
(* zeroed: pb_get_encoded_size stores data_size as a size_t and clears     *)
(* header_size, its neighbour, with it.  A failure after the header frees  *)
(* the buffer here and again at exited.                                    *)
WithData(r) == Allocated(r.s, IF r.ok THEN 0 ELSE 2)

WithHeader(r, index, m) ==
  IF ~r.ok THEN Allocated(r.s, 1)
  ELSE IF index = 0 THEN Allocated(r.s, 0)
  ELSE WithData(pb_encode_submessage(r.s, mblue_pb_data_layout_array[index], m))

Encoded(header, index, m, hsize, dsize, zeroed) ==
  IF ~hsize.ok \/ ~dsize.ok THEN NULL
  ELSE WithHeader(
         pb_encode_delimited(
           pb_ostream_from_buffer(BufferSize(IF zeroed THEN 0 ELSE hsize.size,
                                             IF index = 0 THEN 0 ELSE dsize.size)),
           dl_rpc_header_fields, header),
         index, m)

Serialized(header, index, m, zeroed) ==
  Encoded(header, index, m,
          pb_get_encoded_size(dl_rpc_header_fields, header),
          pb_get_encoded_size(mblue_pb_data_layout_array[index], m), zeroed)

mblue_serialize_ipc(method, index, m) ==
  /\ job' = [kind |-> "ipc", method |-> method, index |-> index, m |-> m]
  /\ \E tail \in IF Len(method) = MethodMax THEN {0, 1} ELSE {0},
        zeroed \in IF SizesFit \/ index = 0 THEN {FALSE} ELSE BOOLEAN :
       buffer' = Serialized(<<<<MethodName(method, tail)>>, <<index>>>>, index, m, zeroed)
  /\ UNCHANGED result

(* mblue_malloc fails and the caller gets no payload.                      *)
NoMemory ==
  /\ job' = [kind |-> "none"]
  /\ UNCHANGED <<buffer, result>>

WithStruct(r) == Allocated(r.s, IF r.ok THEN 0 ELSE 1)

StructBuffer(s, size) ==
  IF ~size.ok THEN NULL
  ELSE WithStruct(pb_encode_delimited(pb_ostream_from_buffer(size.size + LenSpace), s.fields, s.m))

mblue_serialize_struct_with_layout(s) ==
  /\ job' = [kind |-> "struct", s |-> s]
  /\ buffer' = StructBuffer(s, pb_get_encoded_size(s.fields, s.m))
  /\ UNCHANGED result

mblue_serialize_mono_buffer(text) ==
  mblue_serialize_struct_with_layout([fields |-> dl_array_fields, m |-> <<<<text>>>>])

(* A number as in a tag or a length: pb_encode_varint.                     *)
WriteNumber(n) ==
  /\ job' = [kind |-> "number", n |-> n]
  /\ buffer' = Allocated(pb_encode_varint(pb_ostream_from_buffer(Word), n).s, 0)
  /\ UNCHANGED result

(***************************************************************************)
(* Receivers.                                                              *)
(***************************************************************************)
Arrived(kind) == job # NULL /\ job.kind = kind /\ result = NULL /\ buffer # NULL /\ buffer.freed = 0

(* The parsers dl1_parser to dl_array_parser: the arguments of the method. *)
Parse(s, index) ==
  IF index = 0 THEN Done(s, << >>)
  ELSE pb_decode_delimited(s, mblue_pb_data_layout_array[index])

(* The header h and the arguments a, which follow it.                      *)
Call(h, a) ==
  [ok |-> a.ok, called |-> TRUE, method |-> h.v[1][1], index |-> h.v[2][1], m |-> a.v, over |-> a.s.over]

AfterHeader(h) ==
  IF h.ok THEN Call(h, Parse(h.s, h.v[2][1])) ELSE [ok |-> FALSE, called |-> FALSE]

Received(memory) ==
  AfterHeader(pb_decode_delimited(pb_istream_from_buffer(memory, Huge), dl_rpc_header_fields))

(* default_ipc_handler: a header that does not decode ends it; otherwise   *)
(* the method is called, or the error returned, and the payload freed.     *)
default_ipc_handler ==
  /\ Arrived("ipc")
  /\ result' = Received(buffer.memory)
  /\ buffer' = [buffer EXCEPT !.freed = IF result'.called THEN 1 ELSE 0]
  /\ UNCHANGED job

(* mblue_unserialize_struct_with_layout, mblue_unserialize_mono_buffer.    *)
(* The receiver may know fewer of the fields.                              *)
mblue_unserialize_struct_with_layout(known) ==
  /\ Arrived("struct")
  /\ known <= Len(job.s.fields)
  /\ result' = [known |-> known,
                r |-> pb_decode_delimited(pb_istream_from_buffer(buffer.memory, Huge),
                                          SubSeq(job.s.fields, 1, known))]
  /\ UNCHANGED <<job, buffer>>

ReadNumber ==
  /\ Arrived("number")
  /\ result' = pb_decode_varint32(pb_istream_from_buffer(buffer.memory, buffer.written))
  /\ UNCHANGED <<job, buffer>>

(* The result has been used, or there was no payload.                      *)
Finish ==
  /\ job # NULL
  /\ ~Arrived(job.kind)
  /\ job' = NULL /\ buffer' = NULL /\ result' = NULL

(* The sender waits for nobody else's job.                                 *)
Send ==
  /\ job = NULL
  /\ \/ \E method \in Methods, index \in Indices : \E m \in Arguments(index) :
          mblue_serialize_ipc(method, index, m)
     \/ NoMemory
     \/ \E s \in Structs : mblue_serialize_struct_with_layout(s)
     \/ \E text \in Texts : mblue_serialize_mono_buffer(text)
     \/ \E n \in Words : WriteNumber(n)

Next ==
  \/ Send
  \/ default_ipc_handler
  \/ \E known \in 1 .. 8 : mblue_unserialize_struct_with_layout(known)
  \/ ReadNumber
  \/ Finish

Spec == Init /\ [][Next]_vars

(***************************************************************************)
(* Properties.                                                             *)
(***************************************************************************)
(* A remote call reaches its method with the arguments the caller gave,    *)
(* negative numbers and empty texts included, and the end of the payload   *)
(* is found without a size.  (dl113_parser passes its text on without the  *)
(* length.)  Names of the greatest length are left out: the byte after     *)
(* them is not set and may make the header unreadable.                     *)
ArgumentsArrive ==
  job # NULL /\ job.kind = "ipc" /\ result # NULL /\ Len(job.method) < MethodMax
    => /\ result.ok /\ ~result.over
       /\ result.method = job.method /\ result.index = job.index /\ result.m = job.m

(* No payload is freed twice: not by the handler what a failed             *)
(* serialization freed already, nor by the two exits of the latter.        *)
FreedOnce == buffer = NULL \/ buffer.freed <= 1

(* The room computed before the encoding suffices for it: no serialization *)
(* fails once the sizes are known.                                         *)
RoomSuffices ==
  job # NULL /\ job.kind \in {"ipc", "struct"} /\ result = NULL => Arrived(job.kind)

(* A structure arrives as it was sent, whatever the types of its fields.   *)
(* A receiver that knows only the first of them gets those right and skips *)
(* the others.                                                             *)
StructArrives ==
  job # NULL /\ job.kind = "struct" /\ result # NULL
    => /\ result.r.ok /\ ~result.r.s.over
       /\ result.r.v = SubSeq(job.s.m, 1, result.known)

(* A number of Word bits is read as a number of Half bits exactly if it is *)
(* one: larger ones are refused and negative ones keep their low bits.     *)
(* (Numbers below -2^(Half-1) are left out: some are accepted.)            *)
NumbersFit ==
  job # NULL /\ job.kind = "number" /\ result # NULL
    => /\ job.n < 2 ^ (Word - 1) => (result.ok <=> job.n < 2 ^ Half)
       /\ job.n >= 2 ^ Word - 2 ^ (Half - 1) => result.ok
       /\ result.ok => result.v = job.n % 2 ^ Half
=============================================================================
