----------------------------- MODULE Conversion ------------------------------
(***************************************************************************)
(* How dblib/ocesql.c turns the storage of a COBOL data item into the text *)
(* of a statement parameter (create_realdata) and the text of a result     *)
(* into storage (create_coboldata).                                        *)
(*                                                                         *)
(* Storage and texts are sequences of bytes. An item is what the generated *)
(* program passes: its type, its length in digits or characters, and its   *)
(* power, minus the number of decimals.                                    *)
(***************************************************************************)
EXTENDS Integers, Sequences

Types == {"UNSIGNED_NUMBER", "SIGNED_NUMBER_TC", "SIGNED_NUMBER_LS",
          "UNSIGNED_NUMBER_PD", "SIGNED_NUMBER_PD", "ALPHANUMERIC", "JAPANESE",
          "ALPHANUMERIC_VARYING", "JAPANESE_VARYING"}

(* A length is a C int, doubled for a national text; the decimals are some *)
(* of the digits.                                                          *)
MAX_LENGTH == 1073741823

Item == {it \in [type : Types, length : 1..MAX_LENGTH, power : Int] :
           -it.power \in 0..it.length}

NUL      == 0
SPACE    == 32
PLUS     == 43
MINUS    == 45
POINT    == 46
Digit(d) == 48 + d

(* type_tc_negative_final_number: the last character of a negative number. *)
NegativeFinal(d) == 112 + d

OCDB_VARCHAR_HEADER_BYTE == 4

Packed(it)  == it.type \in {"UNSIGNED_NUMBER_PD", "SIGNED_NUMBER_PD"}
Varying(it) == it.type \in {"ALPHANUMERIC_VARYING", "JAPANESE_VARYING"}
Numeric(it) == Packed(it) \/ it.type \in
                 {"UNSIGNED_NUMBER", "SIGNED_NUMBER_TC", "SIGNED_NUMBER_LS"}

(* Bytes of text that a character string of the item takes. *)
Width(it) == IF it.type \in {"JAPANESE", "JAPANESE_VARYING"} THEN 2 * it.length
                                                             ELSE it.length

(* Bytes of storage of an item. *)
Bytes(it) ==
  CASE Packed(it)                     -> (it.length + 2) \div 2
    [] it.type = "SIGNED_NUMBER_LS"   -> it.length + 1
    [] Varying(it)                    -> OCDB_VARCHAR_HEADER_BYTE + Width(it)
    [] OTHER                          -> Width(it)

Take(s, n) == SubSeq(s, 1, IF n < Len(s) THEN n ELSE Len(s))
Drop(s, n) == SubSeq(s, n + 1, Len(s))

(* What com_strdup keeps of a buffer. *)
com_strdup(s) ==
  LET ends == {i \in 1..Len(s) : s[i] = NUL}
  IN  IF ends = {} THEN s
      ELSE Take(s, (CHOOSE i \in ends : \A j \in ends : i <= j) - 1)

-----------------------------------------------------------------------------
(* From storage to text.                                                   *)

(* A text of no more digits than decimals is left as it is. *)
insert_decimal_point(data, power) ==
  IF power >= 0 \/ -power >= Len(data) THEN data
  ELSE LET whole == Len(data) + power
       IN  Take(data, whole) \o <<POINT>> \o Drop(data, whole)

type_tc_is_positive(last) == last \notin {NegativeFinal(d) : d \in 0..9}

(* The digits of a trailing-combined number: a last character that is      *)
(* neither a digit nor a negative one becomes a NUL.                       *)
CombinedDigits(data) ==
  LET last == data[Len(data)]
      digit == IF last \in {Digit(d) : d \in 0..9} THEN last
               ELSE IF type_tc_is_positive(last) THEN NUL
               ELSE Digit(last - NegativeFinal(0))
  IN  [data EXCEPT ![Len(data)] = digit]

Nibble(data, k) == IF k % 2 = 1 THEN data[(k + 1) \div 2] \div 16
                                ELSE data[k \div 2] % 16

(* The digits of a packed number: the first half byte is skipped where the *)
(* number of digits is even, the last one is the sign. "%d" of a half byte *)
(* above 9 leaves the character 1.                                         *)
PackedDigits(it, data) ==
  LET skip == IF it.length % 2 = 0 THEN 1 ELSE 0
      shown(n) == IF n > 9 THEN Digit(1) ELSE Digit(n)
  IN  [k \in 1..it.length |-> shown(Nibble(data, k + skip))]

Sign(positive) == <<IF positive THEN PLUS ELSE MINUS>>

(* The number in the header of a VARYING item; its sign is lost where the  *)
(* runtime doubles it.                                                     *)
Header(data) ==
  data[1] + 256 * data[2] + 65536 * data[3] + 16777216 * (data[4] % 128)

(* create_realdata, of an item whose storage begins with data. *)
create_realdata(it, data) ==
  LET head == Take(data, it.length)
      point(s) == insert_decimal_point(com_strdup(s), it.power)
  IN
  CASE it.type = "UNSIGNED_NUMBER"  -> point(head)
    [] it.type = "SIGNED_NUMBER_TC" ->
         point(Sign(type_tc_is_positive(head[it.length])) \o CombinedDigits(head))
    [] it.type = "SIGNED_NUMBER_LS" -> point(Take(data, 1 + it.length))
    [] it.type = "UNSIGNED_NUMBER_PD" -> point(PackedDigits(it, data))
    [] it.type = "SIGNED_NUMBER_PD" ->
         point(Sign(data[Bytes(it)] % 16 = 12) \o PackedDigits(it, data))
    [] Varying(it) ->
         com_strdup(Take(Drop(data, OCDB_VARCHAR_HEADER_BYTE),
                         Header(data) * (Width(it) \div it.length)))
    [] OTHER -> com_strdup(Take(data, Width(it)))

-----------------------------------------------------------------------------
(* From text to storage.                                                   *)

WholeLength(value) ==
  LET points == {i \in 1..Len(value) : value[i] = POINT}
  IN  IF points = {} THEN Len(value) ELSE CHOOSE i \in points : \A j \in points : i <= j

whole(value) == Take(value, IF POINT \in {value[i] : i \in 1..Len(value)}
                            THEN WholeLength(value) - 1 ELSE Len(value))
decimals(value) == Drop(value, WholeLength(value))

(* fillzero: how many zeros precede the digits. Where it is negative, the  *)
(* digits begin before the buffer.                                         *)
fillzero(it, value) == it.length - Len(whole(value)) + it.power

Signed(it) == it.type \in {"SIGNED_NUMBER_TC", "SIGNED_NUMBER_LS", "SIGNED_NUMBER_PD"}

(* The text without its minus sign, where the item has one.                *)
Negative(text) == text # << >> /\ text[1] = MINUS
Bare(it, text) == IF Signed(it) /\ Negative(text) THEN Tail(text) ELSE text

(* The digits do not fit the buffer; the one of a signed packed number is   *)
(* sized by the bytes of the item.                                         *)
Overruns(it, text) ==
  LET value == Bare(it, text)
  IN  Numeric(it) /\ \/ fillzero(it, value) < 0
                     \/ it.power < 0 /\ Len(decimals(value)) > -it.power
                     \/ it.type = "SIGNED_NUMBER_PD" /\ it.length > Bytes(it) + 1

SlipNoFill(it, sign, value) ==
  LET n == Len(sign) + it.length
      digits == whole(value) \o decimals(value)
  IN  [k \in 1..n |-> IF k <= Len(sign) THEN sign[k]
                      ELSE IF k - Len(sign) <= Len(digits) THEN digits[k - Len(sign)]
                      ELSE NUL]

(* The buffer of digits, after a sign of its own or none. Each loop writes *)
(* over the one before: the sign, the leading zeros, which start at the    *)
(* sign, the digits, and the zeros for missing decimals, which are written *)
(* at the start too.                                                       *)
final(it, sign, value) ==
  LET w == whole(value)
      d == IF it.power < 0 THEN decimals(value) ELSE << >>
      lead == fillzero(it, value)
      at == Len(sign) + lead
      missing == IF it.power < 0 THEN -it.power - Len(d) ELSE 0
  IN  [k \in 1..(Len(sign) + it.length) |->
         IF k <= missing THEN Digit(0)
         ELSE IF k - at \in 1..Len(w) THEN w[k - at]
         ELSE IF k - at - Len(w) \in 1..Len(d) THEN d[k - at - Len(w)]
         ELSE IF k <= lead THEN Digit(0)
         ELSE IF k <= Len(sign) THEN sign[k] ELSE NUL]

SlipSignDropped(digits, negative) == digits \o <<NUL>>

(* A trailing-combined number: the last digit before the end of the string *)
(* carries the sign, and the end of the string is copied too.              *)
Combined(digits, negative) ==
  LET n == Len(com_strdup(digits))
  IN  (IF negative /\ n > 0
       THEN [digits EXCEPT ![n] = NegativeFinal(@ - Digit(0))] ELSE digits)
      \o <<NUL>>

SlipUnmasked(it, digits, sign) ==
  LET skip == IF it.length % 2 = 0 THEN 1 ELSE 0
      half(k) == IF k <= skip THEN 0
                 ELSE IF k - skip <= it.length THEN digits[k - skip] ELSE sign
  IN  [i \in 1..Bytes(it) |-> (16 * half(2 * i - 1)) + half(2 * i)]

(* Two digits to a byte, behind a zero half byte where their number is     *)
(* even; the last half byte is the sign.                                   *)
Pack(it, digits, sign) ==
  LET skip == IF it.length % 2 = 0 THEN 1 ELSE 0
      half(k) == IF k <= skip THEN 0
                 ELSE IF k - skip <= it.length THEN digits[k - skip] % 16 ELSE sign
  IN  [i \in 1..Bytes(it) |-> (16 * half(2 * i - 1)) + half(2 * i)]

Pad(it) == IF Width(it) = it.length THEN <<SPACE>> ELSE <<129, 64>>

(* A text cut or padded to the width of the item. *)
Justified(it, text) ==
  [i \in 1..Width(it) |-> IF i <= Len(text) THEN text[i]
                          ELSE Pad(it)[1 + ((i - 1) % Len(Pad(it)))]]

(* A C int in its four bytes, the lowest first. *)
HeaderOf(n) ==
  <<n % 256, (n \div 256) % 256, (n \div 65536) % 256, (n \div 16777216) % 256>>

(* A VARYING item: its header and its characters. A national text that     *)
(* fills the item is copied over the header.                               *)
VaryingBytes(it, text) ==
  LET full == Len(text) >= Width(it)
      unit == Width(it) \div it.length
      length == IF full THEN it.length ELSE Len(text) \div unit
      kept == IF full THEN text ELSE Take(text, unit * length)
  IN  IF full /\ unit = 2
      THEN Take(text, Width(it)) \o Drop(HeaderOf(length), Width(it))
      ELSE HeaderOf(length) \o Justified(it, kept)

(* create_coboldata: the bytes written from the item's address on, which   *)
(* are not always as many as the item has. (Not where it Overruns.)        *)
create_coboldata(it, retstr) ==
  LET negative == Negative(retstr)
      value == Bare(it, retstr)
  IN
  CASE it.type = "UNSIGNED_NUMBER"  -> final(it, << >>, value)
    [] it.type = "SIGNED_NUMBER_TC" -> Combined(final(it, << >>, value), negative)
    [] it.type = "SIGNED_NUMBER_LS" -> final(it, Sign(~negative), value)
    [] it.type = "UNSIGNED_NUMBER_PD" -> Pack(it, final(it, << >>, value), 15)
    [] it.type = "SIGNED_NUMBER_PD" ->
         Pack(it, final(it, << >>, value), IF negative THEN 13 ELSE 12)
    [] Varying(it) -> VaryingBytes(it, retstr)
    [] OTHER       -> Justified(it, retstr)

SlipLowWide(it) == [i \in 1..(it.length + 2) |-> NUL]

(* create_coboldata_lowvalue: as many bytes as the item is long in digits  *)
(* or characters.                                                          *)
create_coboldata_lowvalue(it) == [i \in 1..it.length |-> NUL]
=============================================================================
