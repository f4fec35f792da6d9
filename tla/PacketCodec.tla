---------------------------- MODULE PacketCodec ----------------------------
(***************************************************************************)
(* A packet from the application that fills it to the peer that reads it:  *)
(* the dictionary is read, attributes are added, assigned or set           *)
(* obfuscated, the packet is encoded for the RADIUS version of the         *)
(* connection - again when a retry lands on a connection of the other      *)
(* version - and the peer, which has the same dictionary, decodes it.      *)
(***************************************************************************)
EXTENDS AttributeCodec, Functions

CONSTANTS
    Calls,      \* the calls an application may make: [op, name, tag, values]
    MaxCalls    \* how many it makes on one packet

VARIABLES
    auth,       \* the packet is an AuthPacket, the class with pw_crypt
    phase,      \* "building", "sent", "raised" or "received"
    version,    \* the packet's radius_version
    store,      \* the packet's dict
    sidecar,    \* _deferred_obfuscated
    wire,       \* the attribute octets last encoded
    received,   \* what decode_packet made of them
    calls       \* history: the calls made, each with the version it met and
                \* whether it returned

packetVars == <<auth, phase, version, store, sidecar, wire, received, calls>>
vars == <<dictVars, packetVars>>

Versions == {"v1.0", "v1.1"}

Init ==
    /\ DictInit
    /\ auth \in BOOLEAN
    /\ phase = "building" /\ version = "v1.0"
    /\ store = <<>> /\ sidecar = <<>> /\ wire = <<>>
    /\ received = Decode(EmptyDictionary, <<>>, "v1.0")
    /\ calls = <<>>

Filling(c) ==
    /\ outcome = "done" /\ phase = "building"
    /\ Len(calls) < MaxCalls
    /\ c.name \in DOMAIN dict.attributes

\* Every value can be encoded.
Accepted(c) ==
    LET vals == Encoded(dict, c, version)
    IN \A i \in DOMAIN vals : ~HasRaised(vals[i])

\* The attribute's containers are dicts, where there are any.
Storable(c) == ~Blocked(store, StoragePath(dict, Attr(dict, c.name)))

Logged(c, returned) ==
    calls' = Append(calls, [call |-> c, version |-> version, returned |-> returned])

Add(c) ==
    /\ Filling(c) /\ c.op = "add" /\ Accepted(c) /\ Storable(c)
    /\ store' = AddAttribute(dict, store, c, version)
    /\ Logged(c, TRUE)
    /\ UNCHANGED <<dictVars, auth, phase, version, sidecar, wire, received>>

Assign(c) ==
    /\ Filling(c) /\ c.op = "assign" /\ Accepted(c)
    /\ store' = SetItem(dict, store, c, version)
    /\ Logged(c, TRUE)
    /\ UNCHANGED <<dictVars, auth, phase, version, sidecar, wire, received>>

\* The call raises before the packet is touched.  (A level of the path that is
\* a list is in a dict that was there before, so none was created.)
Refuse(c) ==
    /\ Filling(c)
    /\ \/ c.op \in {"add", "assign"} /\ ~Accepted(c)
       \/ c.op = "add" /\ Accepted(c) /\ ~Storable(c)
    /\ Logged(c, FALSE)
    /\ UNCHANGED <<dictVars, auth, phase, version, store, sidecar, wire, received>>

Obfuscate(c) ==
    /\ Filling(c) /\ c.op = "obfuscate"
    /\ sidecar' = SetObfuscated(sidecar, c)
    /\ Logged(c, TRUE)
    /\ UNCHANGED <<dictVars, auth, phase, version, store, wire, received>>

\* request_packet under the version the connection negotiated.
Encode(v) ==
    LET bytes == EncodeAttributes(dict, store, sidecar, v, auth)
    IN /\ calls # <<>>
       /\ phase = "building" \/ (phase = "sent" /\ v # version)
       /\ version' = v
       /\ phase' = IF HasRaised(bytes) THEN "raised" ELSE "sent"
       /\ wire' = IF HasRaised(bytes) THEN <<>> ELSE bytes
       /\ UNCHANGED <<dictVars, auth, store, sidecar, received, calls>>

Receive ==
    /\ phase = "sent"
    /\ received' = Decode(dict, wire, version)
    /\ phase' = "received"
    /\ UNCHANGED <<dictVars, auth, version, store, sidecar, wire, calls>>

Next ==
    \/ DictNext /\ UNCHANGED packetVars
    \/ \E c \in Calls : Add(c) \/ Assign(c) \/ Refuse(c) \/ Obfuscate(c)
    \/ \E v \in Versions : Encode(v)
    \/ Receive

Spec == Init /\ [][Next]_vars

----------------------------------------------------------------------------
(* What the calls amount to, attribute by attribute.                       *)

Names == DOMAIN dict.attributes
Made(name, op) ==
    SelectSeq(calls, LAMBDA c : c.returned /\ c.call.name = name /\ c.call.op = op)
Deferred(name) == Made(name, "obfuscate") # <<>>

\* A deferred attribute replaces the stored one of its name.  (A stored
\* sub-attribute is replaced by a deferred one of its own code only.)
StoredCalls(name) ==
    LET ops   == SelectSeq(calls, LAMBDA c : c.returned /\ c.call.name = name
                                             /\ c.call.op # "obfuscate")
        fixed == {i \in DOMAIN ops : ops[i].call.op = "assign"}
        from  == IF fixed = {} THEN 1
                 ELSE CHOOSE i \in fixed : \A j \in fixed : j <= i
    IN SubSeq(ops, from, Len(ops))

Effective(name) ==
    IF Deferred(name) THEN Made(name, "obfuscate") ELSE StoredCalls(name)

\* Every value given to the attribute, with its tag and version.
Given(name) ==
    FlattenSeq([i \in DOMAIN Effective(name) |->
        LET c == Effective(name)[i]
        IN [j \in DOMAIN c.call.values |->
               [value |-> c.call.values[j], tag |-> c.call.tag, version |-> c.version]]])

GivenOctets(name) ==
    LET attr == Attr(dict, name)
        given == Given(name)
    IN IF Deferred(name)
       THEN FlattenSeq([i \in DOMAIN Effective(name) |->
               DeferredValues(dict, Effective(name)[i].call, version, auth)])
       ELSE [i \in DOMAIN given |->
               Tagged(attr, given[i].tag,
                      EncodeValue(attr, given[i].value, given[i].version))]

\* Server-internal attributes stay home; RADIUS/1.1 has no code 80.
Sent(name) ==
    LET attr == Attr(dict, name)
    IN /\ Given(name) # <<>>
       /\ "virtual" \notin attr.flags
       /\ ~(version = "v1.1" /\ EncodeKey(dict, name) = <<80>>)

RECURSIVE LeafPaths(_)
LeafPaths(s) ==
    UNION {IF s[i].map THEN {<<s[i].key>> \o p : p \in LeafPaths(s[i].sub)}
           ELSE {<<s[i].key>>} : i \in DOMAIN s}

RECURSIVE At(_, _)
At(s, path) ==
    IF Len(path) = 1 THEN Entry(s, path[1]).vals
    ELSE At(Entry(s, path[1]).sub, Tail(path))

PathOf(name) == StoragePath(dict, Attr(dict, name))
Concat(name) == "concat" \in Attr(dict, name).flags

----------------------------------------------------------------------------
(* Properties.                                                             *)

\* The packet's variables have their types, and what goes out is octets.
TypeOK ==
    /\ outcome \in {"reading", "done", "failed"}
    /\ phase \in {"building", "sent", "raised", "received"}
    /\ auth \in BOOLEAN /\ version \in Versions
    /\ \A i \in DOMAIN wire : wire[i] \in Octet
    /\ \A i \in DOMAIN dict.objs : dict.objs[i].parent \in 0 .. (i - 1)
    /\ \A p \in LeafPaths(store) : At(store, p) # <<>>

\* The peer's decode_packet finds, for every attribute, exactly the octets
\* the application gave it, in order (joined for concat), and nothing else:
\* no container, vendor format, fragment or deferred value is framed so that
\* it is read as something else.
SurvivesTheWire ==
    phase = "received" =>
        /\ received.ok
        /\ LeafPaths(received.store) = {PathOf(n) : n \in {m \in Names : Sent(m)}}
        /\ \A n \in Names : Sent(n) =>
             At(received.store, PathOf(n)) =
                 IF Concat(n) THEN <<FlattenSeq(GivenOctets(n))>> ELSE GivenOctets(n)

\* The value a reader gets: VALUE names win over numbers, strings that are
\* not UTF-8 become their hexadecimal text, a literal of octets the octets it
\* denotes, and prefixes lose their host bits.
Canonical(attr, v) ==
    LET bytes == IF v.kind = "name" THEN attr.values.forward[v]
                 ELSE EncodeAttr(attr.type, v)
    IN CASE bytes \in DOMAIN attr.values.backward -> attr.values.backward[bytes]
         [] attr.type = "string" -> Text(IF IsUtf8(v.bytes) THEN v.bytes
                                         ELSE HexText(v.bytes))
         [] attr.type = "octets" -> Bytes(bytes)
         [] v.kind = "prefix"    -> Prefix(Network(v.addr, v.len), v.len)
         [] OTHER                -> v

\* The names from the outermost container down to the attribute.
RECURSIVE NamePath(_)
NamePath(attr) ==
    IF ~IsTlvSub(dict, attr) \/ attr.parent = 0 THEN <<attr.name>>
    ELSE Append(NamePath(dict.objs[attr.parent]), attr.name)

\* packet[outermost]...[name], an exception when a name is not there.
RECURSIVE Descend(_, _)
Descend(result, path) ==
    CASE path = <<>> -> result
      [] path # <<>> /\ result.is = "dict" ->
           IF path[1] \in DOMAIN result.map
           THEN Descend(result.map[path[1]], Tail(path)) ELSE Exception
      [] OTHER -> Exception

ReadByName(s, name) ==
    LET path == NamePath(Attr(dict, name))
    IN Descend(GetItem(dict, s, path[1], version), Tail(path))

\* A password is read as packet.pw_decrypt(packet[2][0]): the raw octets.
ReadBack(name) ==
    IF Deferred(name) /\ PasswordLike(Attr(dict, name), version)
    THEN LET octets == At(received.store, PathOf(name))
         IN ListOf([i \in DOMAIN octets |-> Text(PwDecrypt(octets[i]))])
    ELSE ReadByName(received.store, name)

\* A container of the attribute was declared again after it; the new object
\* knows none of the old one's sub-attributes.
Orphaned(name) ==
    LET parent == Attr(dict, name).parent
    IN parent # 0 /\ dict.attributes[dict.objs[parent].name] # parent

\* Not promised: a value salted when stored, once the version has changed; a
\* tagged value (the tag is never removed); a concat attribute, read as one
\* value; a sub-attribute whose container was declared again, for which
\* packet[container] raises KeyError; an attribute other than User-Password
\* whose code is 2 as well, which the sidecar hides as a password.
Promised(name) ==
    /\ Sent(name) /\ ~Concat(name) /\ ~Orphaned(name)
    /\ (Deferred(name) /\ Attr(dict, name).code = 2) => Attr(dict, name).encrypt = 1
    /\ \A i \in DOMAIN Given(name) :
          /\ Given(name)[i].tag = NoTag
          /\ (Attr(dict, name).encrypt = 2 /\ ~Deferred(name))
                => (Given(name)[i].version = version)

\* salt_decrypt chains on its output as salt_crypt does, where it should on its
\* input: what does not fit into the first block with its length octet is not
\* recovered, where it should return the "Decrypted plaintext string".
BeyondFirstBlock(name) ==
    /\ Attr(dict, name).encrypt = 2 /\ version = "v1.0"
    /\ \E i \in DOMAIN Given(name) :
          Len(EncodeAttr(Attr(dict, name).type, Given(name)[i].value)) > 15

ReadsAsGiven(name) ==
    LET given == Given(name)
    IN ReadBack(name) =
         ListOf([i \in DOMAIN given |-> Canonical(Attr(dict, name), given[i].value)])

\* The peer reads back the values the application gave, a top-level or
\* Extended-Vendor-Specific attribute as packet[name], a sub-attribute as
\* packet[container][name]: through named values, integer widths, strings,
\* literals of octets, addresses, prefixes and both obfuscations, and for values
\* given to set_obfuscated also when the packet is sent again under the other
\* version.  One attribute that cannot be read fails the whole container.  (Of
\* salted values, only those of one block come back.)
ValuesReadBack ==
    phase = "received" =>
        \A n \in Names : Promised(n) /\ ~BeyondFirstBlock(n) => ReadsAsGiven(n)

----------------------------------------------------------------------------
(* How much fits.                                                          *)

Longest(name) ==
    LET lens == {Len(GivenOctets(name)[i]) : i \in DOMAIN GivenOctets(name)}
    IN CHOOSE n \in lens : \A m \in lens : m <= n

Parent(name) == dict.objs[Attr(dict, name).parent]

\* What the AVP, the vendor and the container headers leave for one value;
\* 0 when the value may be fragmented: in a long-extended container, by a
\* vendor with continuation, or an attribute declared concat.
Room(name) ==
    LET attr == Attr(dict, name)
        fmt  == VendorFormat(dict, VendorId(dict, attr.vendor))
    IN CASE attr.sub ->
              CASE Parent(name).type = "extended"      -> 252
                [] Parent(name).type = "long-extended" -> 0
                [] Parent(name).type = "evs" ->
                     IF dict.objs[Parent(name).parent].type = "extended"
                     THEN 247 ELSE 0
                [] OTHER -> IF Parent(name).sub THEN 250
                            ELSE IF attr.vendor = "" THEN 251 ELSE 245
         [] ~attr.sub /\ (Concat(name) \/ fmt.cont)   -> 0
         [] ~attr.sub /\ ~Concat(name) /\ ~fmt.cont   ->
              IF attr.vendor = "" THEN 253 ELSE 249 - fmt.type - fmt.len

\* Array values share one AVP, as do the j-th values of all sub-attributes of
\* a TLV, and every value of a TLV inside an extended attribute.
Shared(name) ==
    LET attr  == Attr(dict, name)
        kin   == {n \in Names : /\ Given(n) # <<>> /\ Attr(dict, n).sub
                                /\ Attr(dict, n).parent = attr.parent}
        Size(n, j)  == IF j \in DOMAIN Given(n) THEN 2 + Len(GivenOctets(n)[j]) ELSE 0
        Round(j)    == SumFunctionOnSet([n \in kin |-> Size(n, j)], kin)
        rounds      == UNION {DOMAIN Given(n) : n \in kin}
    IN IF "array" \in attr.flags THEN Len(FlattenSeq(GivenOctets(name)))
       ELSE IF ~attr.sub \/ Parent(name).type # "tlv" THEN 0
       ELSE IF Parent(name).sub
       THEN SumFunctionOnSet([j \in rounds |-> Round(j)], rounds) - 2
       ELSE CHOOSE t \in {Round(j) - 2 : j \in rounds} :
               \A j \in rounds : Round(j) - 2 <= t

TooLong(name) ==
    /\ Given(name) # <<>> /\ "virtual" \notin Attr(dict, name).flags
    /\ Room(name) # 0
    /\ Longest(name) > Room(name) \/ Shared(name) > Room(name)

\* Three ways to raise that are not for want of room, and that the docs do not
\* allow.  A vendor's concat value is cut into pieces for an AVP of its own,
\* which its vendor header does not leave room for ("Values > 253 bytes split
\* across multiple AVPs on the wire") ...
ConcatUncut(name) ==
    LET fmt == VendorFormat(dict, VendorId(dict, Attr(dict, name).vendor))
    IN /\ Given(name) # <<>> /\ Concat(name)
       /\ Attr(dict, name).vendor # "" /\ ~fmt.cont
       /\ Longest(name) > 249 - fmt.type - fmt.len

\* ... a deferred sub-attribute loses the contents of a sibling that is a
\* container ("folds in non-deferred stored siblings under the same parent") ...
BesideNestedMap(name) ==
    /\ Deferred(name) /\ IsTlvSub(dict, Attr(dict, name))
    /\ \E n \in Names : /\ Given(n) # <<>> /\ ~Deferred(n)
                        /\ Len(PathOf(n)) > 2
                        /\ PathOf(n)[1] = PathOf(name)[1]

\* ... and a sub-attribute assigned by its name lands where a container belongs
\* ("Sub-attributes are accessed by name").
AssignedBare(name) ==
    IsTlvSub(dict, Attr(dict, name)) /\ Made(name, "assign") # <<>>

\* The PacketError of a password in a packet that has no pw_crypt.
HidesWithoutPwCrypt(name) ==
    ~auth /\ Deferred(name) /\ PasswordLike(Attr(dict, name), version)

\* Encoding raises when a value does not fit, the last octet that its headers
\* leave being the limit, and not otherwise: an attribute that may be fragmented
\* takes values of any length.  Beside that it raises for a password in a packet
\* that cannot hide it, and in the three cases above, where code and docs
\* disagree.  And verify_reply, which encodes a received packet once more, does
\* not raise on what this encoder produced (but for the pieces of a vendor's
\* concat attribute, merged).
RaisesOnlyWhenTooLong ==
    /\ phase = "raised" =>
         \E n \in Names : \/ TooLong(n) \/ HidesWithoutPwCrypt(n)
                          \/ ConcatUncut(n) \/ BesideNestedMap(n) \/ AssignedBare(n)
    /\ phase = "sent" =>
         \A n \in Names : ~TooLong(n) /\ ~HidesWithoutPwCrypt(n)
    /\ phase = "received" =>
         \/ ~HasRaised(EncodeAttributes(dict, received.store, <<>>, version, auth))
         \/ \E n \in Names : Sent(n) /\ Concat(n) /\ Attr(dict, n).vendor # ""

----------------------------------------------------------------------------
(* The dictionary that was read against the text of its files.             *)

RECURSIVE Lines(_, _)
Lines(file, from) ==
    IF from > Len(Files[file]) THEN <<>>
    ELSE LET l == Files[file][from]
         IN (IF l.kw = "$INCLUDE" THEN Lines(l.file, 1) ELSE <<l>>)
              \o Lines(file, from + 1)

\* All lines read, each with the number of its read_dictionary call.
AllLines ==
    FlattenSeq([i \in DOMAIN begun |->
        LET ls == Lines(begun[i], 1)
        IN [j \in DOMAIN ls |-> [l |-> ls[j], call |-> i]]])

Declarations(L, name) ==
    {i \in DOMAIN L : L[i].l.kw = "ATTRIBUTE" /\ L[i].l.name = name}

Latest(L, i) == \A j \in Declarations(L, L[i].l.name) : j <= i

\* No declaration of the attribute comes after its value was bound.
Settled(L, i) ==
    LET decls == Declarations(L, L[i].l.attr)
    IN /\ \A j \in decls : L[j].call <= L[i].call
       /\ (\A j \in decls : j < i) \/ (\A j \in decls : j > i)

ParentOf(n) == dict.attributes[dict.objs[Attr(dict, n).parent].name]

\* After a clean read, whatever the order of the lines and the nesting of the
\* includes: the last declaration of a name is the one in force, every VALUE
\* is bound in both directions unless a redeclaration drops it, and a
\* sub-attribute hangs under the container its own dotted code names, which
\* knows it - as long as no two containers have one code chain and the
\* container is not declared again after it.
DictionaryMatchesFiles ==
    outcome = "done" /\ calls = <<>> =>
        LET L     == AllLines
            chain == Chain(dict.objs)
            boxes == {n \in Names : Attr(dict, n).type \in Containers}
            clash == \E n, m \in boxes :
                        n # m /\ chain[dict.attributes[n]] = chain[dict.attributes[m]]
            Of(kw) == {i \in DOMAIN L : L[i].l.kw = kw}
        IN /\ \A i \in Of("ATTRIBUTE") : Latest(L, i) =>
                LET l == L[i].l
                    a == Attr(dict, l.name)
                IN /\ <<a.code, a.type, a.encrypt, a.flags>>
                        = <<Last(l.codes), l.type, l.encrypt, l.flags>>
                   /\ AttrOfKey(dict, dict.attrindex.forward[l.name]) = a
                   /\ a.sub /\ a.parent = ParentOf(l.name) /\ ~clash
                        /\ dict.objs[a.parent].type # "evs" =>
                      /\ chain[dict.attributes[l.name]] = l.codes
                      /\ dict.objs[a.parent].vendor = a.vendor
                      /\ dict.objs[a.parent].subs[a.code] = l.name
           /\ \A i \in Of("VALUE") : Settled(L, i) =>
                LET l == L[i].l
                    v == Attr(dict, l.attr).values
                IN /\ l.attr \in Names
                   /\ Name(l.key) \in DOMAIN v.forward
                   /\ v.backward[v.forward[Name(l.key)]] = Name(l.key)

=============================================================================
