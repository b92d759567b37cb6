---------------------------- MODULE Persistence -----------------------------
(***************************************************************************)
(* The log in flash of mb_persistence.c: a circular section of two sectors *)
(* for the text, and a sector of heads.  Every write of the log ends with  *)
(* a new head, a copy of the configuration in RAM, after the one before    *)
(* has been made invalid.  A restart looks for the valid head.             *)
(*                                                                         *)
(* Power may fail between and during any two operations on the flash.      *)
(* Flash is programmed from ones to zeros: what is programmed a second     *)
(* time without an erasure in between holds a mixture of both.  An erasure *)
(* that is interrupted has or has not happened.                            *)
(***************************************************************************)
EXTENDS Integers, Sequences

CONSTANTS
  Sector4, Sector5,  \* sizes of the two sectors
  HeadSlots,         \* heads that fit into LOG_HEAD_SPACE_SIZE
  Guard,             \* bytes inspected after a restart: 8
  MaxLen,            \* bound: the longest text written or read
  Erased, Torn, Mixed  \* what fields may hold instead of a configuration

ASSUME FlashAssumption ==
  /\ Sector4 \in Nat \ {0} /\ Sector5 \in Nat \ {0}
  /\ HeadSlots \in Nat \ {0}
  /\ Guard \in Nat \ {0}
  /\ Sector4 < Sector5  \* 64 KB and 128 KB
  /\ MaxLen \in 1 .. Sector5  \* "limited to 128k byte"

LogEnd == Sector4 + Sector5 - 1   \* LOG_END_ADDR, the address of the last byte

VARIABLES
  programmed,  \* addresses of the section that are not erased
  heads,       \* the head in every slot
  config,      \* lg->config
  head_index,  \* lg->head_index
  todo,        \* operations on the flash the running call still has to make
  up,          \* is the program running?
  garbled,     \* history: has a restart adopted fields that no call has written?
  overlong,    \* history: was a text longer than the space erased for it?
  twice,       \* history: addresses of the section programmed twice
  around,      \* history: has the erasure of sector 5 started the heads again?
  forked       \* history: was that beside a valid head, with the first slot blank?

flash == <<programmed, heads>>
ram == <<config, head_index>>
history == <<twice, around, forked>>
vars == <<flash, ram, todo, up, garbled, overlong, history>>

Addresses == 0 .. LogEnd + 1
Configs == [write : Addresses, read : Addresses, start : Addresses,
            end : Addresses, erase : Addresses]
Fields == Configs \cup {Erased, Torn, Mixed}
Heads == [config : Fields, magic : BOOLEAN, valid : BOOLEAN]
Blank == [config |-> Erased, magic |-> FALSE, valid |-> TRUE]

(* The marks tell what fields hold that are no configuration.              *)
ASSUME MarksAssumption ==
  /\ Erased # Torn /\ Erased # Mixed /\ Torn # Mixed
  /\ {Erased, Torn, Mixed} \cap Configs = {}

(* The initial value of logger_handler.config.                             *)
Default == [write |-> 0, read |-> 0, start |-> 0, end |-> 0, erase |-> LogEnd]

Init ==
  /\ programmed = {}
  /\ heads = [i \in 0 .. HeadSlots - 1 |-> Blank]
  /\ config = Default
  /\ head_index = 0
  /\ todo = << >>
  /\ up = FALSE
  /\ garbled = FALSE
  /\ overlong = FALSE
  /\ twice = {}
  /\ around = FALSE
  /\ forked = FALSE

(***************************************************************************)
(* The flash driver.                                                       *)
(***************************************************************************)
Program(from, n) == [op |-> "program", from |-> from, n |-> n]
Erase(addr) == [op |-> "erase", addr |-> addr]
EraseHeads == [op |-> "erase_heads"]
Invalidate(i) == [op |-> "invalidate", slot |-> i]
HeadFields(i, c) == [op |-> "fields", slot |-> i, config |-> c]
HeadMagic(i) == [op |-> "magic", slot |-> i]

SectorSize(addr) == IF addr < Sector4 THEN Sector4 ELSE Sector5
SectorOf(addr) == IF addr < Sector4 THEN 0 .. Sector4 - 1 ELSE Sector4 .. LogEnd

(* Fields c programmed over what is there.  The fields of a head that is    *)
(* not valid any more are never looked at: they count as Mixed.            *)
Over(old, c) == IF old \in {Erased, c} THEN c ELSE Mixed

Programmed(head, f) ==
  CASE f.op = "invalidate" -> [head EXCEPT !.valid = FALSE, !.config = Mixed]
    [] f.op = "fields" -> [head EXCEPT !.config = Over(head.config, f.config)]
    [] f.op = "magic" -> [head EXCEPT !.magic = TRUE]

Wear(bytes) ==
  /\ programmed' = programmed \cup bytes
  /\ twice' = twice \cup (bytes \cap programmed)
  /\ UNCHANGED heads

(* Operation f is done completely.                                         *)
Perform(f) ==
  \/ /\ f.op = "program"
     /\ Wear(f.from .. f.from + f.n - 1)
  \/ /\ f.op = "erase"
     /\ programmed' = programmed \ SectorOf(f.addr)
     /\ twice' = twice \ SectorOf(f.addr)
     /\ UNCHANGED heads
  \/ /\ f.op = "erase_heads"
     /\ heads' = [i \in DOMAIN heads |-> Blank]
     /\ UNCHANGED <<programmed, twice>>
  \/ /\ f.op \in {"invalidate", "fields", "magic"}
     /\ heads' = [heads EXCEPT ![f.slot] = Programmed(@, f)]
     /\ UNCHANGED <<programmed, twice>>

(* Operation f is interrupted: some of the bytes are programmed.           *)
Interrupt(f) ==
  \/ /\ f.op = "program"
     /\ \E n \in 0 .. f.n - 1 : Wear(f.from .. f.from + n - 1)
  \/ /\ f.op = "fields"
     /\ heads' = [heads EXCEPT ![f.slot].config = Over(@, Torn)]
     /\ UNCHANGED <<programmed, twice>>

FlashStep ==
  /\ up
  /\ todo # << >>
  /\ Perform(Head(todo))
  /\ todo' = Tail(todo)
  /\ UNCHANGED <<ram, up, garbled, overlong, around, forked>>

PowerFails ==
  /\ up
  /\ up' = FALSE
  /\ \/ todo # << >> /\ Interrupt(Head(todo))
     \/ UNCHANGED <<flash, twice>>
  /\ todo' = << >>
  /\ config' = Default
  /\ head_index' = 0
  /\ UNCHANGED <<garbled, overlong, around, forked>>

(***************************************************************************)
(* Heads.                                                                  *)
(***************************************************************************)
(* Is there room for head i (OneMore: the room is overestimated by one)?   *)
OneMore(i) == i <= HeadSlots

__is_valid_head_index(i) == i + 1 <= HeadSlots

(* _flush_head_index with head_index i: what it does to the flash...       *)
(* (FieldsLast: the magic number is programmed before the fields;          *)
(* OldHeadKept: the head before stays valid).                              *)
FieldsLast(i, c) ==
  (IF i > 0 THEN <<Invalidate(i - 1)>> ELSE << >>)
    \o (IF __is_valid_head_index(i) THEN <<HeadMagic(i), HeadFields(i, c)>> ELSE <<EraseHeads>>)

OldHeadKept(i, c) ==
  IF __is_valid_head_index(i) THEN <<HeadFields(i, c), HeadMagic(i)>> ELSE <<EraseHeads>>

_flush_head_index(i, c) ==
  (IF i > 0 THEN <<Invalidate(i - 1)>> ELSE << >>)
    \o (IF __is_valid_head_index(i) THEN <<HeadFields(i, c), HeadMagic(i)>> ELSE <<EraseHeads>>)

(* ...and the head_index afterwards.                                       *)
Flushed(i) == IF __is_valid_head_index(i) THEN i + 1 ELSE 0

_log_clear == <<EraseHeads, Erase(0), Erase(Sector4)>>

(***************************************************************************)
(* Restart: get_log_instance.                                              *)
(***************************************************************************)
(* __find_valid_head_index: the first valid head, or the end of the space. *)
FoundHead ==
  LET found == {i \in DOMAIN heads : heads[i].magic /\ heads[i].valid}
  IN IF found = {} THEN HeadSlots ELSE CHOOSE i \in found : \A j \in found : i <= j

(* __confirm_head_and_data_section_valid: is the place of the next write   *)
(* erased, as far as it is looked at (GuardSkipped: it is not)?            *)
GuardSkipped(c) == TRUE

NextWriteErased(c) ==
  c.write < LogEnd /\ c.write + Guard <= LogEnd
    => (c.write .. c.write + Guard - 1) \cap programmed = {}

(* _init_check.  A head is adopted for its magic number and its valid      *)
(* flag, whatever its fields hold.  What a mixture of fields says of the   *)
(* next write may be anything; outside of the section it is not checked.   *)
Restart ==
  /\ ~up
  /\ up' = TRUE
  /\ \/ /\ ~heads[0].magic
        /\ config' = Default
        /\ head_index' = Flushed(0)
        /\ todo' = _log_clear \o _flush_head_index(0, Default)
        /\ UNCHANGED garbled
     \/ /\ heads[0].magic
        /\ FoundHead = HeadSlots
        /\ config' = Default
        /\ head_index' = Flushed(HeadSlots)
        /\ todo' = _log_clear \o _flush_head_index(HeadSlots, Default)
        /\ UNCHANGED garbled
     \/ /\ heads[0].magic
        /\ FoundHead < HeadSlots
        /\ config' = heads[FoundHead].config
        /\ garbled' = (garbled \/ config' \notin Configs)
        /\ \/ /\ ~garbled' => NextWriteErased(config')
              /\ head_index' = FoundHead + 1
              /\ todo' = << >>
           \/ /\ ~garbled' => ~NextWriteErased(config')
              /\ head_index' = Flushed(FoundHead + 1)
              /\ todo' = _log_clear \o _flush_head_index(FoundHead + 1, config')
  /\ UNCHANGED <<flash, overlong, history>>

Idle == up /\ todo = << >>

(* The next call finds a configuration, not a mixture.                     *)
Ready == Idle /\ config \in Configs

(***************************************************************************)
(* Writing: _log_write and persistence_write.                              *)
(***************************************************************************)
(* The text fits before the end of the section.  When it reaches beyond    *)
(* what is erased, the sector there is erased first; the erasure of the    *)
(* last sector starts the heads again.  ok: the driver reports success.    *)
WriteOn(len, ok) ==
  LET c == config
      erases == c.erase < c.write + len
      from == IF c.erase = LogEnd THEN 0 ELSE c.erase
      erase == IF erases THEN from + SectorSize(from) ELSE c.erase
      write == IF ok THEN c.write + len ELSE c.write
      again == erases /\ from >= Sector4
      i == IF again THEN 0 ELSE head_index
      new == [c EXCEPT !.erase = erase, !.write = write, !.end = write,
                       !.start = IF ~erases THEN @ ELSE IF erase = LogEnd THEN 0 ELSE erase]
  IN /\ Ready
     /\ c.write + len <= LogEnd
     /\ config' = new
     /\ head_index' = Flushed(i)
     /\ todo' = (IF erases THEN <<Erase(from)>> ELSE << >>)
                  \o (IF ok THEN <<Program(c.write, len)>> ELSE << >>)
                  \o _flush_head_index(i, new)
     /\ around' = (around \/ again)
     /\ forked' = (forked \/ (again /\ head_index > 0 /\ ~heads[0].magic))
     /\ UNCHANGED <<flash, up, garbled, overlong, twice>>

(* It does not: the section is filled, its first sector erased and the     *)
(* rest written there.  filled, ok: success of the two writes.  That what  *)
(* is filled has been erased, and that the rest ends within the first      *)
(* sector, is not checked: a text of more than one sector may run on.      *)
WriteAround(len, filled, ok) ==
  LET first == LogEnd - config.write
      write == IF ok THEN len - first ELSE 0
      new == [config EXCEPT !.erase = Sector4, !.start = Sector4,
                            !.write = write, !.end = write]
  IN /\ Ready
     /\ config.write + len > LogEnd
     /\ config' = new
     /\ head_index' = Flushed(head_index)
     /\ todo' = (IF filled THEN <<Program(config.write, first)>> ELSE << >>)
                  \o <<Erase(0)>>
                  \o (IF ok THEN <<Program(0, len - first)>> ELSE << >>)
                  \o _flush_head_index(head_index, new)
     /\ overlong' = (overlong \/ config.erase < LogEnd \/ len - first > Sector4)
     /\ UNCHANGED <<flash, up, garbled, history>>

(* A text written by a configuration that is a mixture: at most one sector *)
(* is erased, in the section, before it (which holds the heads) or where   *)
(* nothing is modelled; its erase callback starts the heads again if it is *)
(* sector 5.  Where the text goes is not known, and not followed; the head *)
(* written after it holds the mixture.                                     *)
WriteAstray ==
  \E erasure \in {<< >>, <<EraseHeads>>, <<Erase(0)>>, <<Erase(Sector4)>>} :
    LET i == IF erasure = <<Erase(Sector4)>> THEN 0 ELSE head_index
    IN /\ Idle
       /\ config \notin Configs
       /\ head_index' = Flushed(i)
       /\ todo' = erasure \o _flush_head_index(i, config)
       /\ UNCHANGED <<flash, config, up, garbled, overlong, history>>

(* _log_clear called through lg->clear: neither the configuration nor the  *)
(* head_index follows.                                                     *)
Clear ==
  /\ Idle
  /\ todo' = _log_clear
  /\ UNCHANGED <<flash, ram, up, garbled, overlong, history>>

(***************************************************************************)
(* Reading: persistence_read, _log_read and _log_read_next.                *)
(***************************************************************************)
(* Where a read of len bytes from c.read stops, and how many it fetches.   *)
(* A read from the address after the end, where data_start_addr stands     *)
(* once sector 5 was erased, asks the driver for -1 bytes: that is taken   *)
(* to fetch nothing.                                                       *)
Upper(c) == c.end <= c.start /\ c.read >= c.start

ReadTo(c, len) ==
  IF Upper(c)
    THEN IF c.read + len <= LogEnd THEN c.read + len ELSE 0
    ELSE IF c.read + len <= c.end THEN c.read + len ELSE c.end

ReadCount(c, len) ==
  IF Upper(c) /\ c.read + len > LogEnd
    THEN IF c.read > LogEnd THEN 0 ELSE LogEnd - c.read
    ELSE ReadTo(c, len) - c.read

(* A second read fetches what the first one left.                          *)
ReadMore(c, len) ==
  LET once == [c EXCEPT !.read = ReadTo(c, len)]
      left == len - ReadCount(c, len)
  IN IF c.read = c.end THEN c
     ELSE IF left <= 0 \/ once.read = once.end THEN once
     ELSE [once EXCEPT !.read = ReadTo(once, left)]

(* ok: the driver could read.                                              *)
_log_read_next(len, ok) ==
  /\ Ready
  /\ config' = IF ok THEN ReadMore(config, len) ELSE config
  /\ UNCHANGED <<flash, head_index, todo, up, garbled, overlong, history>>

_log_read(len, ok) ==
  LET c == [config EXCEPT !.read = config.start]
  IN /\ Ready
     /\ config' = IF ok THEN ReadMore(c, len) ELSE c
     /\ UNCHANGED <<flash, head_index, todo, up, garbled, overlong, history>>

Next ==
  \/ FlashStep
  \/ PowerFails
  \/ Restart
  \/ \E len \in 1 .. MaxLen, ok \in BOOLEAN :
       \/ WriteOn(len, ok)
       \/ \E filled \in BOOLEAN : WriteAround(len, filled, ok)
       \/ _log_read(len, ok)
       \/ _log_read_next(len, ok)
  \/ WriteAstray
  \/ Clear

Spec == Init /\ [][Next]_vars

(***************************************************************************)
(* Properties.                                                             *)
(***************************************************************************)
(* As long as no restart has adopted a mixture, the addresses stay inside  *)
(* the section, or one past it, and the next head inside the space for     *)
(* heads.                                                                  *)
TypeOK ==
  /\ up \in BOOLEAN
  /\ garbled \in BOOLEAN
  /\ overlong \in BOOLEAN
  /\ around \in BOOLEAN
  /\ forked \in BOOLEAN
  /\ ~garbled => /\ programmed \subseteq 0 .. LogEnd
                 /\ heads \in [0 .. HeadSlots - 1 -> Heads]
                 /\ config \in Configs
                 /\ head_index \in 0 .. HeadSlots
                 /\ twice \subseteq 0 .. LogEnd

(* However power failures interrupt the writing of heads, the erasure of   *)
(* the log and the check of a restart, no restart adopts fields that no    *)
(* call has written, until the erasure of sector 5 has started the heads   *)
(* again at slot 0 without erasing them.  From then on fields are          *)
(* programmed over older ones, in the end over those of a head that is     *)
(* still valid, and a restart takes the mixture for a head.                *)
WholeHeadBeforeWrap == garbled => around

(* No text is written over other text, whatever the failures between the   *)
(* write of a text and the head that accounts for it: the check after a    *)
(* restart catches it, except where it does not look, in the last bytes of *)
(* the section.  The code does not see to it in three cases.  When the     *)
(* heads have been erased, head_index was left as it was (lg->clear, a     *)
(* restart whose check failed), and the erasure of sector 5 then starts    *)
(* them again at slot 0, an old head stays valid beside the new ones       *)
(* (forked).  A text that does not fit before the end and is longer than   *)
(* the sector erased for it runs on into the next one, although 128 KB are *)
(* allowed (overlong).  And the addresses of a mixture may lead anywhere   *)
(* (garbled).                                                              *)
OnlyTail ==
  ~forked /\ ~overlong /\ ~garbled => \A a \in twice : a + Guard > LogEnd

(* Between calls, a restart would find the head of the last write and      *)
(* nothing older; only the cursor of the reader may have moved since.      *)
RestartFindsLatest ==
  Idle /\ heads[0].magic /\ FoundHead < HeadSlots
    => heads[FoundHead].config \in {[config EXCEPT !.read = a] : a \in Addresses}

(* The same, as long as the erasure of sector 5 has not started the heads  *)
(* again.                                                                  *)
LatestBeforeWrap == ~around => RestartFindsLatest
=============================================================================
