--------------------------- MODULE AttributeTypes ---------------------------
(***************************************************************************)
(* The attribute datatypes of pyrad2/tools.py: how a Python value becomes  *)
(* the octets of an attribute and back.  Octet strings are sequences of    *)
(* 0..255.  A value is tagged with its kind: a text is a str, given by its *)
(* UTF-8 octets; bytes are a bytes object; an address stands for any of    *)
(* the notations of its packed form; a number is an integer (or a str that *)
(* int() takes for it); a prefix is an address and a length; a name is the *)
(* key of a dictionary VALUE.                                              *)
(*                                                                         *)
(* An encoder that raises, or struct.pack on a number that does not fit    *)
(* its field, yields the octet Raised, which no octet string holds, and an *)
(* encoding that contains it has raised.  A decoder that raises yields     *)
(* Unreadable.                                                             *)
(***************************************************************************)
EXTENDS Integers, Sequences, SequencesExt

Octet  == 0 .. 255
Raised == 256

\* Faulty variant: the length field is written without its range check.
ByteUnchecked(n) == n

\* struct.pack("!B", n)
Byte(n) == IF n \in Octet THEN n ELSE Raised

HasRaised(bytes) == \E i \in DOMAIN bytes : bytes[i] = Raised

Blob(b, n) == [i \in 1 .. n |-> b]

Text(bytes)       == [kind |-> "text", bytes |-> bytes]
Bytes(bytes)      == [kind |-> "bytes", bytes |-> bytes]
Address(bytes)    == [kind |-> "address", bytes |-> bytes]
Number(n)         == [kind |-> "number", n |-> n]
Name(s)           == [kind |-> "name", name |-> s]
Prefix(addr, len) == [kind |-> "prefix", addr |-> addr, len |-> len]
Unreadable        == [kind |-> "unreadable"]

----------------------------------------------------------------------------
(* Strings.                                                                *)

\* How many continuation octets follow a first octet; -1 if it is none.
Follow(b) ==
    CASE b \in 0 .. 127   -> 0
      [] b \in 194 .. 223 -> 1
      [] b \in 224 .. 239 -> 2
      [] b \in 240 .. 244 -> 3
      [] OTHER            -> -1

\* The octets that may come second (no overlong form, surrogate or code point
\* beyond the last).
Second(b) ==
    CASE b = 224 -> 160 .. 191
      [] b = 237 -> 128 .. 159
      [] b = 240 -> 144 .. 191
      [] b = 244 -> 128 .. 143
      [] OTHER   -> 128 .. 191

\* bytes.decode("utf-8") succeeds.
IsUtf8(bytes) ==
    \A i \in DOMAIN bytes :
        LET n == Follow(bytes[i])
        IN IF bytes[i] \in 128 .. 191
           THEN \E k \in 1 .. 3 : k < i /\ Follow(bytes[i - k]) >= k
           ELSE /\ n >= 0 /\ i + n <= Len(bytes)
                /\ \A k \in 1 .. n : bytes[i + k] \in 128 .. 191
                /\ n > 0 => bytes[i + 1] \in Second(bytes[i])

\* len() of the str with these UTF-8 octets.
Characters(bytes) == Len(SelectSeq(bytes, LAMBDA b : b \notin 128 .. 191))

\* bytes.hex()
HexText(bytes) ==
    LET Ascii(d) == IF d < 10 THEN 48 + d ELSE 87 + d
        At(i)    == bytes[(i + 1) \div 2]
    IN [i \in 1 .. 2 * Len(bytes) |->
           Ascii(IF i % 2 = 1 THEN At(i) \div 16 ELSE At(i) % 16)]

\* The largest string encode_string takes, in characters of a str but in
\* octets of a bytes object.
StringMax == 253

EncodeString(value) ==
    LET length == IF value.kind = "text" THEN Characters(value.bytes)
                  ELSE Len(value.bytes)
    IN IF length > StringMax THEN <<Raised>> ELSE value.bytes

DecodeString(bytes) == Text(IF IsUtf8(bytes) THEN bytes ELSE HexText(bytes))

----------------------------------------------------------------------------
(* Octets, and their notations as a hexadecimal or decimal literal.        *)

OctetsMax == 253

HexDigit(b) ==
    CASE b \in 48 .. 57  -> b - 48
      [] b \in 65 .. 70  -> b - 55
      [] b \in 97 .. 102 -> b - 87
      [] OTHER           -> Raised

Has0x(bytes, i) == i < Len(bytes) /\ bytes[i] = 48 /\ bytes[i + 1] = 120

\* split("0x")[1]: the digits end where the next 0x begins.
HexDigits(bytes) ==
    LET ends == {i \in 3 .. Len(bytes) : Has0x(bytes, i)}
        end  == IF ends = {} THEN Len(bytes)
                ELSE (CHOOSE i \in ends : \A j \in ends : i <= j) - 1
    IN [i \in 1 .. end - 2 |-> HexDigit(bytes[i + 2])]

\* binascii.unhexlify
Unhexlify(digits) ==
    IF Len(digits) % 2 = 1 \/ HasRaised(digits) THEN <<Raised>>
    ELSE [i \in 1 .. Len(digits) \div 2 |->
             16 * digits[2 * i - 1] + digits[2 * i]]

IsDecimal(bytes) ==
    bytes # <<>> /\ \A i \in DOMAIN bytes : bytes[i] \in 48 .. 57

\* struct.pack(">L", int(text)).lstrip(b"\x00"), below TLC's 2^31.
PackDecimal(bytes) ==
    LET n == FoldLeft(LAMBDA acc, b : 10 * acc + (b - 48), 0, bytes)
        packed == [i \in 1 .. 4 |-> (n \div 256^(4 - i)) % 256]
        kept == {i \in 1 .. 4 : packed[i] # 0}
    IN IF kept = {} THEN <<>>
       ELSE SubSeq(packed, CHOOSE i \in kept : \A j \in kept : i <= j, 4)

\* A str in neither notation would be passed on as a str; applications give
\* such a value as a bytes object.
EncodeOctets(value) ==
    LET hex == Unhexlify(HexDigits(value.bytes))
    IN CASE Has0x(value.bytes, 1) ->
              IF Len(hex) > OctetsMax THEN <<Raised>> ELSE hex
         [] ~Has0x(value.bytes, 1) /\ value.kind = "text" ->
              IF IsDecimal(value.bytes) THEN PackDecimal(value.bytes) ELSE <<Raised>>
         [] OTHER -> value.bytes

----------------------------------------------------------------------------
(* Integer types: big-endian, two's complement for "signed".               *)

Width(type) ==
    CASE type = "byte"      -> 1
      [] type = "short"     -> 2
      [] type = "integer64" -> 8
      [] OTHER              -> 4

IntegerTypes == {"byte", "short", "integer", "signed", "date", "integer64"}

\* The i-th of w octets of n >= 0 (TLC's integers end below 2^31).
Digit(n, w, i) == IF w - i > 3 THEN 0 ELSE (n \div 256^(w - i)) % 256

InRange(type, n) ==
    CASE type = "signed" -> TRUE
      [] type = "byte"   -> n \in 0 .. 255
      [] type = "short"  -> n \in 0 .. 65535
      [] OTHER           -> n >= 0

EncodeInteger(type, n) ==
    LET w == Width(type)
    IN IF ~InRange(type, n) THEN <<Raised>>
       ELSE [i \in 1 .. w |-> IF n >= 0 THEN Digit(n, w, i)
                                        ELSE 255 - Digit(-n - 1, w, i)]

DecodeInteger(type, bytes) ==
    IF type = "signed" /\ bytes[1] >= 128
    THEN -1 - FoldLeft(LAMBDA acc, b : 256 * acc + (255 - b), 0, bytes)
    ELSE FoldLeft(LAMBDA acc, b : 256 * acc + b, 0, bytes)

----------------------------------------------------------------------------
(* Address types: packed form of a fixed length; prefixes keep the network *)
(* part only (ip_network(..., strict=False)).                              *)

AddressSizes(type) ==
    CASE type = "ipaddr"   -> {4}
      [] type = "ipv6addr" -> {16}
      [] type = "combo-ip" -> {4, 16}
      [] type = "ifid"     -> {8}
      [] type = "ether"    -> {6}
      [] OTHER             -> {}

PrefixBytes(type) == IF type = "ipv4prefix" THEN 4 ELSE 16

\* The address with the bits after the first len cleared.
Network(addr, len) ==
    [i \in DOMAIN addr |->
        LET kept == len - 8 * (i - 1)
        IN CASE kept >= 8 -> addr[i]
             [] kept <= 0 -> 0
             [] OTHER     -> addr[i] - (addr[i] % 2^(8 - kept))]

PadTo(bytes, n) == bytes \o Blob(0, n - Len(bytes))

EncodePrefix(addr, len) == <<0, Byte(len)>> \o Network(addr, len)

DecodePrefix(type, bytes) ==
    LET n    == 2 + PrefixBytes(type)
        full == IF Len(bytes) < n THEN PadTo(bytes, n) ELSE bytes
    IN IF \/ type = "ipv4prefix" /\ Len(bytes) < 2
          \/ full[2] > 8 * PrefixBytes(type)
       THEN Unreadable
       ELSE Prefix(Network(SubSeq(full, 3, n), full[2]), full[2])

\* ip_address() takes four or sixteen octets, decode_ipv6_address pads.
DecodeAddress(type, bytes) ==
    CASE type = "ipaddr" /\ Len(bytes) \in {4, 16}    -> Address(bytes)
      [] type = "ipv6addr" /\ Len(bytes) <= 16        -> Address(PadTo(bytes, 16))
      [] type \in {"combo-ip", "ifid", "ether"}
           /\ Len(bytes) \in AddressSizes(type)       -> Address(bytes)
      [] OTHER                                        -> Unreadable

----------------------------------------------------------------------------
StringLike == {"text", "bytes"}

\* tools.encode_attr; a value of another kind than the type takes is a
\* TypeError, a type with no value of its own (tlv, evs, vsa) a ValueError.
\* Values of abinary are not modelled.
EncodeAttr(type, value) ==
    CASE type = "string" /\ value.kind \in StringLike  -> EncodeString(value)
      [] type = "octets" /\ value.kind \in StringLike  -> EncodeOctets(value)
      [] type \in IntegerTypes /\ value.kind = "number" ->
            EncodeInteger(type, value.n)
      [] \/ AddressSizes(type) # {} /\ value.kind = "address"
         \/ type \in {"ifid", "ether"} /\ value.kind = "bytes" ->
            IF Len(value.bytes) \in AddressSizes(type) THEN value.bytes
                                                       ELSE <<Raised>>
      [] type \in {"ipv4prefix", "ipv6prefix"} /\ value.kind = "prefix" ->
            IF /\ Len(value.addr) = PrefixBytes(type)
               /\ value.len \in 0 .. 8 * PrefixBytes(type)
            THEN EncodePrefix(value.addr, value.len) ELSE <<Raised>>
      [] OTHER -> <<Raised>>

\* tools.decode_attr
DecodeAttr(type, bytes) ==
    CASE type = "string"                       -> DecodeString(bytes)
      [] type \in {"octets", "abinary"}        -> Bytes(bytes)
      [] type \in IntegerTypes                 ->
            IF Len(bytes) = Width(type) THEN Number(DecodeInteger(type, bytes))
                                        ELSE Unreadable
      [] type \in {"ipv4prefix", "ipv6prefix"} -> DecodePrefix(type, bytes)
      [] OTHER                                 -> DecodeAddress(type, bytes)

=============================================================================
