--------------------------- MODULE AttributeCodec ---------------------------
(***************************************************************************)
(* The attribute part of pyrad2/packet.py: the dict a Packet is, how       *)
(* add_attribute and set_obfuscated fill it, how it becomes the attribute  *)
(* octets of a packet, and how decode_packet rebuilds it at the peer.      *)
(*                                                                         *)
(* A packet's dict keeps insertion order: it is a sequence of entries      *)
(*   [key, map, vals, sub]                                                 *)
(* with a list of octet strings (vals) or a nested dict (sub, when map).   *)
(* Keys are tuples: <<code>>, <<vendor, code>> or the four of an EVS.      *)
(* D is always the Dictionary.  A raised exception is the octet Raised.    *)
(***************************************************************************)
EXTENDS Dictionary, FiniteSets

\* A one-octet AVP length, and what follows from it in the encoder.
AvpMax       == 255
ConcatChunk  == 253
ExtendedMax  == 252
LongExtChunk == 251
EvsMax       == 247
LongEvsChunk == 246
TlvSplit     == 245
More         == 128       \* LONG_EXTENDED_MORE_FLAG and _VSA_CONTINUATION_MORE
LongExtendedTypes == {245, 246}

Leaf(key, vals) == [key |-> key, map |-> FALSE, vals |-> vals, sub |-> <<>>]
Node(key, sub)  == [key |-> key, map |-> TRUE, vals |-> <<>>, sub |-> sub]

HasKey(store, key)  == \E i \in DOMAIN store : store[i].key = key
Position(store, key) == CHOOSE i \in DOMAIN store : store[i].key = key
Entry(store, key)   == store[Position(store, key)]

\* store.setdefault(key, []).extend(vals)
Extend(store, key, vals) ==
    IF HasKey(store, key)
    THEN [store EXCEPT ![Position(store, key)].vals = @ \o vals]
    ELSE Append(store, Leaf(key, vals))

\* The nested dict at key, {} when there is none.
SubStore(store, key) == IF HasKey(store, key) THEN Entry(store, key).sub ELSE <<>>

PutSub(store, key, sub) ==
    IF HasKey(store, key)
    THEN [store EXCEPT ![Position(store, key)] = Node(key, sub)]
    ELSE Append(store, Node(key, sub))

\* _tlv_storage_for finds a list on the way down and raises PacketError.
RECURSIVE Blocked(_, _)
Blocked(store, path) ==
    /\ Len(path) > 1 /\ HasKey(store, path[1])
    /\ \/ ~Entry(store, path[1]).map
       \/ Blocked(Entry(store, path[1]).sub, Tail(path))

\* Extend at the end of a path of nested dicts.
RECURSIVE ExtendAt(_, _, _)
ExtendAt(store, path, vals) ==
    IF Len(path) = 1 THEN Extend(store, path[1], vals)
    ELSE PutSub(store, path[1],
                ExtendAt(SubStore(store, path[1]), Tail(path), vals))

----------------------------------------------------------------------------
(* Obfuscation.  Each block of 16 octets is masked with a digest of what   *)
(* was chained to it: the authenticator for the first one, known to both   *)
(* ends and written <<>>, then a block.  The digest is one number for all  *)
(* octets, the mask an involution; padding, lengths and chaining are the   *)
(* code's.                                                                 *)

Digest(prev) == FoldLeft(LAMBDA acc, b : (acc + b) % 256, 255, prev)

KeystreamXor(prev, block) ==
    LET digest == Digest(prev)
    IN [i \in DOMAIN block |-> IF block[i] = Raised THEN Raised
                               ELSE (digest - block[i]) % 256]

\* The k-th block; the 0-th stands for the authenticator.
BlockNumbers(bytes) == [k \in 1 .. Len(bytes) \div 16 |-> k]
Block(bytes, k)     == IF k = 0 THEN <<>> ELSE SubSeq(bytes, 16 * k - 15, 16 * k)

Pad16(bytes) ==
    IF Len(bytes) % 16 = 0 THEN bytes
    ELSE bytes \o Blob(0, 16 - (Len(bytes) % 16))

\* Chained on the previous output.
ChainOnOutput(bytes) ==
    FoldLeft(LAMBDA out, k : out \o KeystreamXor(Block(out, k - 1), Block(bytes, k)),
             <<>>, BlockNumbers(bytes))

PwCrypt(bytes) == ChainOnOutput(Pad16(bytes))

\* Chained on the previous input, and stripped of the padding.
PwDecrypt(bytes) ==
    LET plain == FlattenSeq([k \in DOMAIN BlockNumbers(bytes) |->
                                KeystreamXor(Block(bytes, k - 1), Block(bytes, k))])
        kept  == {i \in DOMAIN plain : plain[i] # 0}
    IN SubSeq(plain, 1, IF kept = {} THEN 0
                        ELSE CHOOSE i \in kept : \A j \in kept : j <= i)

\* One function for both directions.
SaltEnDecrypt(bytes) == ChainOnOutput(bytes)

Salt == <<128, 1>>

SaltCrypt(bytes) == Salt \o SaltEnDecrypt(Pad16(<<Byte(Len(bytes))>> \o bytes))

\* Faulty variant: the padding stays.
SaltDecryptPadded(bytes) == Tail(SaltEnDecrypt(SubSeq(bytes, 3, Len(bytes))))

SaltDecrypt(bytes) ==
    LET plain == SaltEnDecrypt(SubSeq(bytes, 3, Len(bytes)))
    IN SubSeq(plain, 2, IF plain[1] + 1 < Len(plain) THEN plain[1] + 1
                                                     ELSE Len(plain))

EncodeValue(attr, value, version) ==
    LET named == value \in DOMAIN attr.values.forward
        plain == IF named THEN attr.values.forward[value]
                 ELSE EncodeAttr(attr.type, value)
    IN IF attr.encrypt = 2 /\ version # "v1.1" THEN SaltCrypt(plain) ELSE plain

DecodeValue(attr, bytes, version) ==
    LET plain == IF attr.encrypt = 2 /\ version # "v1.1" THEN SaltDecrypt(bytes)
                 ELSE bytes
    IN IF plain \in DOMAIN attr.values.backward THEN attr.values.backward[plain]
       ELSE DecodeAttr(attr.type, plain)

\* The tag octet of "Name:tag" replaces an integer's first octet.
NoTag == -1
Tagged(attr, tag, bytes) ==
    IF tag = NoTag THEN bytes
    ELSE <<Byte(tag)>> \o (IF attr.type = "integer" THEN Tail(bytes) ELSE bytes)

----------------------------------------------------------------------------
(* Where an attribute is kept.                                             *)

IsTlvSub(D, attr) ==
    attr.sub /\ ~(attr.parent # 0 /\ D.objs[attr.parent].type = "evs")

\* _encode_key: a sub-attribute's key is its bare code.
EncodeKey(D, name) ==
    LET attr == Attr(D, name)
    IN IF attr.sub /\ ~IsTlvSub(D, attr) THEN D.attrindex.forward[name]
       ELSE IF attr.vendor # "" /\ ~attr.sub THEN <<VendorId(D, attr.vendor), attr.code>>
       ELSE <<attr.code>>

\* _tlv_storage_for: the keys from the packet's dict down to attr.  Parents
\* are objects, but the outermost one is looked up by its name again.
RECURSIVE StoragePath(_, _)
StoragePath(D, attr) ==
    IF ~IsTlvSub(D, attr) \/ attr.parent = 0 THEN <<EncodeKey(D, attr.name)>>
    ELSE Append(StoragePath(D, D.objs[attr.parent]), <<attr.code>>)

Encoded(D, call, version) ==
    LET attr == Attr(D, call.name)
    IN [i \in DOMAIN call.values |->
            Tagged(attr, call.tag, EncodeValue(attr, call.values[i], version))]

AddAttribute(D, store, call, version) ==
    ExtendAt(store, StoragePath(D, Attr(D, call.name)), Encoded(D, call, version))

\* packet[name] = values
SetItem(D, store, call, version) ==
    LET key  == EncodeKey(D, call.name)
        leaf == Leaf(key, Encoded(D, call, version))
    IN IF HasKey(store, key) THEN [store EXCEPT ![Position(store, key)] = leaf]
       ELSE Append(store, leaf)

----------------------------------------------------------------------------
(* Encoding.                                                               *)

\* struct.pack of n into w octets.
Field(n, w) ==
    IF w < 3 /\ n >= 256^w THEN <<Raised>> ELSE [i \in 1 .. w |-> Digit(n, w, i)]

Avp(code, value) == <<Byte(code), Byte(Len(value) + 2)>> \o value

Chunks(data, max) ==
    IF data = <<>> THEN << <<>> >>
    ELSE [i \in 1 .. ((Len(data) + max - 1) \div max) |->
             SubSeq(data, max * (i - 1) + 1,
                    IF max * i < Len(data) THEN max * i ELSE Len(data))]

\* The chunks of data, each framed by F with the More flag but on the last.
Fragments(data, max, F(_, _)) ==
    LET chunks == Chunks(data, max)
    IN FlattenSeq([i \in DOMAIN chunks |->
                      F(chunks[i], IF i < Len(chunks) THEN More ELSE 0)])

\* One Vendor-Specific AVP around type, length, continuation octet and value.
Vsa(fmt, vendor, type, cont, value) ==
    LET total == fmt.type + fmt.len + Len(cont) + Len(value)
    IN Avp(26, Field(vendor, 4) \o Field(type, fmt.type)
                 \o (IF fmt.len = 0 THEN <<>> ELSE Field(total, fmt.len))
                 \o cont \o value)

\* Faulty variant: the continuation octet is not counted.
ContinuationRoomWide(fmt) == AvpMax - 6 - fmt.type - fmt.len

\* What AVP header, vendor id, type, length and continuation octet leave.
ContinuationRoom(fmt) == AvpMax - 7 - fmt.type - fmt.len

EncodeAttribute(D, key, value) ==
    IF Len(key) # 2 THEN Avp(key[1], value)
    ELSE LET fmt == VendorFormat(D, key[1])
             Continued(chunk, more) == Vsa(fmt, key[1], key[2], <<more>>, chunk)
         IN IF fmt.cont
            THEN Fragments(value, ContinuationRoom(fmt), Continued)
            ELSE Vsa(fmt, key[1], key[2], <<>>, value)

RECURSIVE EncodeTlvChain(_)
EncodeTlvChain(entries) ==
    FlattenSeq([i \in DOMAIN entries |->
        LET e == entries[i]
        IN IF e.map THEN Avp(e.key[1], EncodeTlvChain(e.sub))
           ELSE FlattenSeq([j \in DOMAIN e.vals |-> Avp(e.key[1], e.vals[j])])])

\* The j-th value of every sub-attribute.
TlvRound(D, entries, j) ==
    FlattenSeq([i \in DOMAIN entries |->
        LET e == entries[i]
        IN IF e.map
           THEN IF j = 1 THEN Avp(e.key[1], EncodeTlvChain(e.sub)) ELSE <<>>
           ELSE IF j \in DOMAIN e.vals THEN EncodeAttribute(D, e.key, e.vals[j])
                                       ELSE <<>>])

\* Rounds go into one AVP until the next would reach the split limit.
TlvGroups(rounds) ==
    LET Fits(acc, r) == Len(r) + Len(acc.cur) < TlvSplit
        Step(acc, r) ==
            IF Fits(acc, r) THEN [acc EXCEPT !.cur = @ \o r]
            ELSE [done |-> Append(acc.done, acc.cur), cur |-> r]
        end == FoldLeft(Step, [done |-> <<>>, cur |-> <<>>], rounds)
    IN Append(end.done, end.cur)

EncodeTlv(D, key, entries) ==
    LET attr   == AttrOfKey(D, key)
        counts == {IF entries[i].map THEN 1 ELSE Len(entries[i].vals) :
                      i \in DOMAIN entries}
        last   == CHOOSE n \in counts : \A c \in counts : c <= n
        groups == TlvGroups([j \in 1 .. last |-> TlvRound(D, entries, j)])
        Frame(g) == LET avp == Avp(attr.code, g)
                    IN IF attr.vendor = "" THEN avp
                       ELSE Avp(26, Field(VendorId(D, attr.vendor), 4) \o avp)
    IN FlattenSeq([i \in DOMAIN groups |-> Frame(groups[i])])

\* The values of an extended slot: its list, or its nested map as one chain.
SlotValues(e) == IF e.map THEN <<EncodeTlvChain(e.sub)>> ELSE e.vals

EncodeExtended(code, entries) ==
    FlattenSeq([i \in DOMAIN entries |->
        LET slot == entries[i].key[1]
            vals == SlotValues(entries[i])
        IN FlattenSeq([j \in DOMAIN vals |->
              IF Len(vals[j]) > ExtendedMax THEN <<Raised>>
              ELSE Avp(code, <<Byte(slot)>> \o vals[j])])])

EncodeLongExtended(code, entries) ==
    FlattenSeq([i \in DOMAIN entries |->
        LET slot == entries[i].key[1]
            vals == SlotValues(entries[i])
            Frame(chunk, more) == Avp(code, <<Byte(slot), more>> \o chunk)
        IN FlattenSeq([j \in DOMAIN vals |->
              Fragments(vals[j], LongExtChunk, Frame)])])

EncodeEvs(key, value) ==
    LET header == Field(key[3], 4) \o <<Byte(key[4])>>
        Frame(chunk, more) == Avp(key[1], <<key[2], more>> \o header \o chunk)
    IN IF key[1] \in LongExtendedTypes THEN Fragments(value, LongEvsChunk, Frame)
       ELSE IF Len(value) > EvsMax THEN <<Raised>>
       ELSE Avp(key[1], <<key[2]>> \o header \o value)

Flagged(D, key, flag) == KeyKnown(D, key) /\ flag \in AttrOfKey(D, key).flags

ContainerType(D, key) ==
    IF KeyKnown(D, key) /\ AttrOfKey(D, key).type \in Containers
    THEN AttrOfKey(D, key).type ELSE "none"

\* A dict under a key that is no container: iterating it yields numbers.
EncodeLeaf(D, e) ==
    CASE e.map -> <<Raised>>
      [] Flagged(D, e.key, "array") /\ Len(e.vals) > 1 ->
            EncodeAttribute(D, e.key, FlattenSeq(e.vals))
      [] OTHER ->
            FlattenSeq([i \in DOMAIN e.vals |->
                LET chunks == IF Flagged(D, e.key, "concat")
                              THEN Chunks(e.vals[i], ConcatChunk)
                              ELSE <<e.vals[i]>>
                IN FlattenSeq([j \in DOMAIN chunks |->
                       EncodeAttribute(D, e.key, chunks[j])])])

\* A list under a container's key has no items().
EncodeAvpGroup(D, e) ==
    LET type == ContainerType(D, e.key)
    IN CASE Len(e.key) = 4 ->
              FlattenSeq([i \in DOMAIN e.vals |-> EncodeEvs(e.key, e.vals[i])])
         [] Len(e.key) # 4 /\ type # "none" /\ ~e.map -> <<Raised>>
         [] e.map /\ type = "tlv"           -> EncodeTlv(D, e.key, e.sub)
         [] e.map /\ type = "extended"      -> EncodeExtended(e.key[1], e.sub)
         [] e.map /\ type = "long-extended" -> EncodeLongExtended(e.key[1], e.sub)
         [] OTHER                           -> EncodeLeaf(D, e)

----------------------------------------------------------------------------
(* set_obfuscated: plaintext kept in a sidecar until the packet is encoded. *)
(* A sidecar is a sequence of [name, tag, values].                          *)

SetObfuscated(sidecar, call) ==
    LET same == {i \in DOMAIN sidecar : /\ sidecar[i].name = call.name
                                        /\ sidecar[i].tag = call.tag}
    IN IF same = {} THEN Append(sidecar, call)
       ELSE [sidecar EXCEPT ![CHOOSE i \in same : TRUE].values = @ \o call.values]

\* The key of the stored entry a deferred attribute takes the place of.
DeferredStorageKey(D, name) ==
    LET attr == Attr(D, name)
    IN EncodeKey(D, IF IsTlvSub(D, attr) THEN D.objs[attr.parent].name ELSE name)

DeferredCodes(D, sidecar) ==
    {DeferredStorageKey(D, sidecar[i].name) : i \in DOMAIN sidecar}

\* Values that pw_crypt hides: only an AuthPacket has that method, another
\* packet raises PacketError.
PasswordLike(attr, version) ==
    (attr.code = 2 \/ attr.encrypt = 1) /\ version # "v1.1"

DeferredValues(D, d, version, auth) ==
    LET attr == Attr(D, d.name)
        Octets(v) ==
            IF ~PasswordLike(attr, version) THEN EncodeValue(attr, v, version)
            ELSE IF auth THEN PwCrypt(v.bytes) ELSE <<Raised>>
    IN [i \in DOMAIN d.values |-> Tagged(attr, d.tag, Octets(d.values[i]))]

\* The stored siblings of the deferred sub-attributes of one parent.  A
\* sibling that is itself a map is copied with list(), which keeps its codes.
SeedParent(D, store, sidecar, key) ==
    LET owned == {<<Attr(D, sidecar[i].name).code>> : i \in
                     {j \in DOMAIN sidecar :
                        /\ IsTlvSub(D, Attr(D, sidecar[j].name))
                        /\ DeferredStorageKey(D, sidecar[j].name) = key}}
        kept  == SelectSeq(SubStore(store, key), LAMBDA e : e.key \notin owned)
    IN [i \in DOMAIN kept |-> IF kept[i].map THEN Leaf(kept[i].key, <<<<Raised>>>>)
                              ELSE kept[i]]

EncodeDeferred(D, store, sidecar, version, auth) ==
    LET Sub(d) == IsTlvSub(D, Attr(D, d.name))
        Seed(acc, d) ==
            LET key == DeferredStorageKey(D, d.name)
            IN IF ~Sub(d) \/ HasKey(acc, key) THEN acc
               ELSE Append(acc, Node(key, SeedParent(D, store, sidecar, key)))
        Fill(acc, d) ==
            LET key  == DeferredStorageKey(D, d.name)
                code == <<Attr(D, d.name).code>>
            IN ExtendAt(acc, IF Sub(d) THEN <<key, code>> ELSE <<key>>,
                        DeferredValues(D, d, version, auth))
        pending == FoldLeft(Fill, FoldLeft(Seed, <<>>, sidecar), sidecar)
    IN FlattenSeq([i \in DOMAIN pending |-> EncodeAvpGroup(D, pending[i])])

EncodeAttributes(D, store, sidecar, version, auth) ==
    LET owned == DeferredCodes(D, sidecar)
        sent  == SelectSeq(store, LAMBDA e : /\ e.key \notin owned
                                             /\ ~Flagged(D, e.key, "virtual"))
    IN FlattenSeq([i \in DOMAIN sent |-> EncodeAvpGroup(D, sent[i])])
         \o EncodeDeferred(D, store, sidecar, version, auth)

----------------------------------------------------------------------------
(* Decoding.  The decoder's state is the packet's dict and the fragments   *)
(* of long-extended and continued values collected so far.                 *)

Fresh == [store |-> <<>>, long |-> EmptyMap, cont |-> EmptyMap, ok |-> TRUE]

\* Faulty variant: a finished reassembly buffer is not deleted.
Undropped(f, key) == f

Drop(f, key) == [k \in DOMAIN f \ {key} |-> f[k]]
Buffered(f, key) == IF key \in DOMAIN f THEN f[key] ELSE <<>>

FieldAt(bytes, from, w) ==
    FoldLeft(LAMBDA acc, b : 256 * acc + b, 0, SubSeq(bytes, from, from + w - 1))

After(bytes, n) == SubSeq(bytes, n + 1, Len(bytes))
UpTo(bytes, n) == SubSeq(bytes, 1, IF n < Len(bytes) THEN n ELSE Len(bytes))

\* The object of a container's child, 0 when the dictionary has none.
ObjectOfKey(D, key) ==
    IF KeyKnown(D, key) THEN D.attributes[D.attrindex.backward[key]] ELSE 0

ChildOf(D, parent, code) ==
    IF parent = 0 \/ code \notin DOMAIN D.objs[parent].subs THEN 0
    ELSE D.attributes[D.objs[parent].subs[code]]

HasType(D, i, type) == i # 0 /\ D.objs[i].type = type

RECURSIVE DecodeTlvChain(_, _, _, _)
DecodeTlvChain(D, parent, target, data) ==
    IF Len(data) < 2 \/ data[2] < 2 THEN target
    ELSE LET code  == <<data[1]>>
             inner == After(UpTo(data, data[2]), 2)
             child == ChildOf(D, parent, data[1])
             next  == IF HasType(D, child, "tlv")
                      THEN PutSub(target, code,
                              DecodeTlvChain(D, child, SubStore(target, code), inner))
                      ELSE Extend(target, code, <<inner>>)
         IN DecodeTlvChain(D, parent, next, After(data, data[2]))

DecodeTlv(D, st, key, data) ==
    [st EXCEPT !.store =
        PutSub(@, key, DecodeTlvChain(D, ObjectOfKey(D, key), SubStore(@, key), data))]

\* Attributes of one vendor in one AVP; anything odd keeps the AVP raw.
RECURSIVE DecodeVsas(_, _, _, _, _)
DecodeVsas(D, data, offset, items, st) ==
    LET vendor == FieldAt(data, 1, 4)
        fmt    == VendorFormat(D, vendor)
        header == fmt.type + fmt.len
        inner  == After(data, 4)
        raw    == [st EXCEPT !.store = Extend(@, <<26>>, <<data>>)]
        key    == <<vendor, FieldAt(inner, offset + 1, fmt.type)>>
        end    == IF fmt.len = 0 THEN Len(inner)
                  ELSE offset + FieldAt(inner, offset + fmt.type + 1, fmt.len)
        start  == offset + header
        cont   == IF fmt.cont THEN inner[start + 1] ELSE 0
        value  == SubSeq(inner, start + (IF fmt.cont THEN 2 ELSE 1), end)
        whole  == Buffered(st.cont, key) \o value
        Done(s) == IF HasType(D, ObjectOfKey(D, key), "tlv")
                   THEN DecodeVsas(D, data, end, items, DecodeTlv(D, s, key, whole))
                   ELSE DecodeVsas(D, data, end, Append(items, <<key, whole>>), s)
        odd    == start > Len(inner) \/ end \notin start .. Len(inner)
                    \/ (fmt.cont /\ start = end)
    IN IF offset = Len(inner) /\ offset > 0
       THEN [st EXCEPT !.store =
                FoldLeft(LAMBDA s, x : Extend(s, x[1], <<x[2]>>), @, items)]
       ELSE IF odd THEN raw
       ELSE IF cont >= More
       THEN DecodeVsas(D, data, end, items,
                       [st EXCEPT !.cont = (key :> whole) @@ @])
       ELSE Done([st EXCEPT !.cont = Drop(@, key)])

DecodeVendor(D, st, data) ==
    IF Len(data) < 4 THEN [st EXCEPT !.store = Extend(@, <<26>>, <<data>>)]
    ELSE DecodeVsas(D, data, 0, <<>>, st)

\* A whole value of an extended slot: a nested map or one more list element.
DecodeSlot(D, st, code, slot, value) ==
    LET parent == ObjectOfKey(D, <<code>>)
        child  == ChildOf(D, parent, slot)
        subs   == SubStore(st.store, <<code>>)
        next   == IF HasType(D, child, "tlv")
                  THEN PutSub(subs, <<slot>>,
                          DecodeTlvChain(D, child, SubStore(subs, <<slot>>), value))
                  ELSE Extend(subs, <<slot>>, <<value>>)
    IN [st EXCEPT !.store = PutSub(@, <<code>>, next)]

IsEvsSlot(D, code, slot) ==
    HasType(D, ChildOf(D, ObjectOfKey(D, <<code>>), slot), "evs")

EvsKey(code, slot, payload) == <<code, slot, FieldAt(payload, 1, 4), payload[5]>>

DecodeExtended(D, st, code, value) ==
    LET slot    == value[1]
        payload == After(value, 1)
    IN IF value = <<>> THEN st
       ELSE IF Len(payload) >= 5 /\ IsEvsSlot(D, code, slot)
       THEN [st EXCEPT !.store = Extend(@, EvsKey(code, slot, payload),
                                        <<After(payload, 5)>>)]
       ELSE DecodeSlot(D, st, code, slot, payload)

DecodeLongExtended(D, st, code, value) ==
    LET slot    == value[1]
        payload == After(value, 2)
        evs     == Len(payload) >= 5 /\ IsEvsSlot(D, code, slot)
        key     == IF evs THEN EvsKey(code, slot, payload) ELSE <<code, slot>>
        whole   == Buffered(st.long, key)
                     \o (IF evs THEN After(payload, 5) ELSE payload)
        rest    == [st EXCEPT !.long = Drop(@, key)]
    IN IF Len(value) < 2 THEN st
       ELSE IF value[2] >= More THEN [st EXCEPT !.long = (key :> whole) @@ @]
       ELSE IF evs THEN [rest EXCEPT !.store = Extend(@, key, <<whole>>)]
       ELSE DecodeSlot(D, rest, code, slot, whole)

\* One AVP of the packet.  RADIUS/1.1 drops Message-Authenticator (80).
DecodeAvp(D, st, code, value, version) ==
    LET type == ContainerType(D, <<code>>)
    IN CASE code = 26 -> DecodeVendor(D, st, value)
         [] code = 80 -> IF version = "v1.1" THEN st
                         ELSE [st EXCEPT !.store = Extend(@, <<80>>, <<value>>)]
         [] code \notin {26, 80} /\ type = "tlv" -> DecodeTlv(D, st, <<code>>, value)
         [] code \notin {26, 80} /\ type = "extended" ->
              DecodeExtended(D, st, code, value)
         [] code \notin {26, 80} /\ type = "long-extended" ->
              DecodeLongExtended(D, st, code, value)
         [] OTHER -> [st EXCEPT !.store = Extend(@, <<code>>, <<value>>)]

RECURSIVE DecodeAvps(_, _, _, _)
DecodeAvps(D, st, bytes, version) ==
    IF bytes = <<>> THEN st
    ELSE IF Len(bytes) < 2 \/ bytes[2] < 2 THEN [st EXCEPT !.ok = FALSE]
    ELSE DecodeAvps(D, DecodeAvp(D, st, bytes[1],
                                 After(UpTo(bytes, bytes[2]), 2), version),
                    After(bytes, bytes[2]), version)

\* _merge_concat_attributes and _split_array_attributes
MergeConcat(D, e) ==
    IF Flagged(D, e.key, "concat") /\ ~e.map /\ Len(e.vals) > 1
    THEN Leaf(e.key, <<FlattenSeq(e.vals)>>) ELSE e

ArraySize(type) ==
    IF type \in IntegerTypes THEN Width(type)
    ELSE CASE type = "ipaddr" -> 4 [] type = "ipv6addr" -> 16
           [] type = "ifid" -> 8   [] type = "ether" -> 6 [] OTHER -> 0

SplitArray(D, e) ==
    LET size == ArraySize(AttrOfKey(D, e.key).type)
        Split(v) == IF v = <<>> \/ Len(v) % size # 0 THEN <<v>> ELSE Chunks(v, size)
    IN IF Flagged(D, e.key, "array") /\ size # 0 /\ ~e.map
       THEN Leaf(e.key, FlattenSeq([i \in DOMAIN e.vals |-> Split(e.vals[i])]))
       ELSE e

\* decode_packet on the attribute octets: the dict, and whether it was parsed.
Decode(D, bytes, version) ==
    LET st == DecodeAvps(D, Fresh, bytes, version)
    IN [ok |-> st.ok,
        store |-> [i \in DOMAIN st.store |->
                      SplitArray(D, MergeConcat(D, st.store[i]))]]

----------------------------------------------------------------------------
(* Reading: packet[name].  A result is a list of values, a dict from names *)
(* to results, or an exception (a KeyError, or a value that cannot be      *)
(* decoded).                                                               *)

ListOf(vals) == [is |-> "list", vals |-> vals]
DictOf(map)  == [is |-> "dict", map |-> map]
Exception    == [is |-> "exception"]

\* The _decode_value of every stored value.
DecodeList(attr, vals, version) ==
    LET decoded == [i \in DOMAIN vals |-> DecodeValue(attr, vals[i], version)]
    IN IF \E i \in DOMAIN decoded : decoded[i] = Unreadable THEN Exception
       ELSE ListOf(decoded)

\* Sub-attributes are named by the container object that is in force, and the
\* names looked up again.
RECURSIVE DecodeContainerValues(_, _, _, _)
DecodeContainerValues(D, container, entries, version) ==
    LET NameOf(e) == container.subs[e.key[1]]
        Value(e) ==
            IF e.map
            THEN DecodeContainerValues(D, Attr(D, NameOf(e)), e.sub, version)
            ELSE DecodeList(Attr(D, NameOf(e)), e.vals, version)
        known  == \A i \in DOMAIN entries : entries[i].key[1] \in DOMAIN container.subs
        values == [i \in DOMAIN entries |-> Value(entries[i])]
    IN IF ~known \/ \E i \in DOMAIN entries : values[i] = Exception THEN Exception
       ELSE DictOf([n \in {NameOf(entries[i]) : i \in DOMAIN entries} |->
                       values[CHOOSE i \in DOMAIN entries : NameOf(entries[i]) = n]])

GetItem(D, store, name, version) ==
    LET key  == EncodeKey(D, name)
        attr == Attr(D, name)
        e    == Entry(store, key)
    IN IF ~HasKey(store, key) THEN Exception
       ELSE IF e.map # (attr.type \in Containers) THEN Exception
       ELSE IF e.map THEN DecodeContainerValues(D, attr, e.sub, version)
       ELSE DecodeList(attr, e.vals, version)

=============================================================================
