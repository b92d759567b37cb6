----------------------------- MODULE MCPbSchema ------------------------------
(* Payloads with bytes of 4 bits and words of 8 and 16 bits.  The structures *)
(* have the layouts of the schema, and others with the field types of nanopb *)
(* that the schema does not use.                                             *)
EXTENDS PbSchema

MCMethods == {<<>>, <<5>>, <<5, 9>>}
MCNumbers == {-128, -1, 0, 3, 127}
MCTexts == {<<>>, <<0>>, <<15, 8, 1>>}
MCWords == 0 .. 2 ^ Word - 1

Inner == <<INT32(1), Field(2, "svarint", "optional", "static", 4)>>
Of(f, h) == [f EXCEPT !.h = h]
Array(f, n) == [f EXCEPT !.h = "repeated", !.arr = n]
Sub(f) == [f EXCEPT !.sub = Inner]

Scalars == <<Field(1, "uvarint", "optional", "static", Half),
             Field(2, "svarint", "required", "static", Word),
             Field(3, "fixed32", "optional", "static", 0),
             Field(4, "fixed64", "required", "static", 0),
             Field(5, "varint", "singular", "static", 4)>>
Strings == <<Field(1, "string", "singular", "static", 3),
             Field(2, "bytes", "optional", "static", 2),
             Field(3, "fixed bytes", "required", "static", 2)>>
Arrays == <<Array(Field(1, "varint", "", "static", Word), 2),
            Array(Field(2, "fixed32", "", "static", 0), 2),
            Array(Field(3, "string", "", "static", 3), 2),
            Array(Sub(Field(4, "submessage", "", "static", 0)), 2)>>
Unions == <<Field(1, "uvarint", "optional", "static", 4),
            Sub(Field(2, "submessage", "oneof", "static", 0)),
            Field(3, "fixed32", "oneof", "static", 0)>>
Nested == <<Sub(Field(1, "submessage", "required", "static", 0)),
            Sub(Field(2, "submessage", "singular", "static", 0)),
            Field(3, "bytes", "optional", "callback", 0)>>

Extended == <<INT32(1),
              [Field(3, "extension", "singular", "callback", 0) EXCEPT
                 !.sub = <<Field(4, "uvarint", "required", "static", Half),
                           Sub(Field(6, "submessage", "required", "static", 0)),
                           Field(3, "bytes", "required", "callback", 0)>>],
              Field(2, "fixed32", "required", "static", 0)>>

Inners == {<<<<0>>, << >>>>, <<<<-5>>, <<7>>>>, <<<<127>>, <<-8>>>>}

Num == {<<-128>>, <<0>>, <<127>>}
Opt == {<<>>, <<-1>>}
Chars == {<<<<>>>>, <<<<9, 15, 1>>>>}

OfSchema ==
  [fields : {dl_at_request_fields}, m : Num \X Num \X Chars]
  \cup [fields : {dl_uart_request_fields}, m : Num \X Chars]
  \cup [fields : {dl_uart_response_fields}, m : {<<n>> : n \in Num}]
  \cup [fields : {dl_mblue_message_fields},
        m : {<<>>, <<255>>} \X {<<0>>, <<255>>} \X {<<7>>} \X {<<>>, <<<<4>>>>}
              \X {<<>>, <<<<0, 0>>>>} \X Chars]
  \cup [fields : {dl_11_fields, dl_ack_fields}, m : Num \X Num]
  \cup [fields : {dl_server_init_fields},
        m : Chars \X Chars \X Num \X Chars \X Chars \X Chars \X Chars]
  \cup [fields : {dl_server_touch_fields}, m : [1 .. 8 -> {<<-1>>, <<100>>}]]
  \cup [fields : {dl_server_event_fields, dl_server_setup_fields}, m : Num \X Opt]

MCStructs ==
  OfSchema \cup
  [fields : {Scalars},
   m : {<<a, <<b>>, c, <<d>>, <<e>>>> : a \in {<<>>, <<200>>}, b \in {-32768, -1, 0, 32767},
          c \in {<<>>, <<255>>, <<1>>}, d \in {0, 65535, 4660}, e \in {-8, 0, 7}}]
  \cup
  [fields : {Strings},
   m : {<<<<a>>, b, <<c>>>> : a \in {<<>>, <<9>>, <<9, 15>>}, b \in {<<>>, <<<<>>>>, <<<<0, 8>>>>},
          c \in {<<0, 0>>, <<7, 15>>}}]
  \cup
  [fields : {Arrays},
   m : {<<a, b, c, d>> : a \in {<<>>, <<-1>>, <<300, -32768>>}, b \in {<<>>, <<16>>, <<0, 255>>},
          c \in {<<>>, <<<<>>, <<3, 4>>>>}, d \in {<<>>} \cup {<<i, j>> : i, j \in Inners}}]
  \cup
  [fields : {Unions},
   m : {<<a, b, c>> : a \in {<<>>, <<9>>}, b \in {<<i>> : i \in Inners}, c \in {<<>>}}
         \cup {<<a, <<>>, c>> : a \in {<<>>, <<9>>}, c \in {<<>>, <<77>>}}]
  \cup
  [fields : {Nested},
   m : {<<<<a>>, <<b>>, c>> : a, b \in Inners, c \in {<<>>, <<<<>>>>, <<<<8, 0>>>>}}]
  \cup
  [fields : {Extended},
   m : {<<a, <<<<200>>, <<b>>, c>>, <<9>>>> : a \in Num, b \in Inners, c \in Chars}]
==============================================================================
