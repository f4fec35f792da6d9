--------------------------- MODULE MCPacketCodec ---------------------------
(***************************************************************************)
(* A dictionary with one attribute of every framing the codec knows, files *)
(* that are read in different arrangements (and ones that are refused),    *)
(* and calls with values just below, at and above the limits.              *)
(***************************************************************************)
EXTENDS PacketCodec

A(name, codes, type) ==
    [kw |-> "ATTRIBUTE", name |-> name, codes |-> codes, type |-> type,
     encrypt |-> 0, flags |-> {}, vendor |-> ""]
AE(name, codes, type, encrypt) == [A(name, codes, type) EXCEPT !.encrypt = encrypt]
AF(name, codes, type, flag) == [A(name, codes, type) EXCEPT !.flags = {flag}]
AV(name, codes, type, vendor) == [A(name, codes, type) EXCEPT !.vendor = vendor]
V(attr, key, value) == [kw |-> "VALUE", attr |-> attr, key |-> key, value |-> value]
Fmt(t, l, c) == [type |-> t, len |-> l, cont |-> c]
Vendor(name, id, fmt) == [kw |-> "VENDOR", name |-> name, id |-> id, format |-> fmt]
Begin(vendor, parent) == [kw |-> "BEGIN-VENDOR", vendor |-> vendor, parent |-> parent]
End(vendor) == [kw |-> "END-VENDOR", vendor |-> vendor]
Inc(file) == [kw |-> "$INCLUDE", file |-> file]
Other == [kw |-> "OTHER"]

\* A VALUE ahead of its ATTRIBUTE, vendors in an included file.
Main == <<
    Other,
    V("Service", "Login", Number(1)),
    A("User-Name", <<1>>, "string"),
    AE("Password", <<2>>, "string", 1),
    A("Service", <<6>>, "integer"),
    V("Service", "Framed", Number(2)),
    A("Offset", <<7>>, "signed"),
    A("Pool", <<8>>, "ipv4prefix"),
    AF("Ports", <<9>>, "short", "array"),
    AF("Hint", <<10>>, "string", "virtual"),
    AE("Tunnel-Password", <<69>>, "string", 2),
    AF("EAP-Message", <<79>>, "octets", "concat"),
    A("Message-Authenticator", <<80>>, "octets"),
    A("Gateway", <<4>>, "ipaddr"),
    Inc("extended"),
    Inc("vendors")>>

Extended == <<
    A("Ext-1", <<241>>, "extended"),
    AE("Ext-Leaf", <<241, 1>>, "octets", 2),
    A("Ext-Tlv", <<241, 5>>, "tlv"),
    A("Ext-Tlv-Leaf", <<241, 5, 1>>, "octets"),
    A("Ext-Evs", <<241, 26>>, "evs"),
    A("Ext-5", <<245>>, "long-extended"),
    A("Long-Leaf", <<245, 1>>, "octets"),
    A("Long-Evs", <<245, 26>>, "evs")>>

Vendors == <<
    Vendor("Acme", 9, DefaultFormat),
    Vendor("Wimax", 24757, Fmt(1, 1, TRUE)),
    Vendor("Wide", 429, Fmt(2, 0, FALSE)),
    AV("Acme-Blob", <<3>>, "octets", "Acme"),
    Begin("Acme", ""),
    A("Acme-Tlv", <<1>>, "tlv"),
    A("Acme-Sub-1", <<1, 1>>, "octets"),
    A("Acme-Sub-2", <<1, 2>>, "octets"),
    AF("Acme-Concat", <<4>>, "octets", "concat"),
    End("Acme"),
    Begin("Wimax", ""), A("Wimax-Blob", <<1>>, "octets"), End("Wimax"),
    Begin("Wide", ""), A("Wide-Blob", <<300>>, "octets"), End("Wide"),
    Begin("Acme", "Ext-Evs"), A("Evs-Blob", <<1>>, "octets"), End("Acme"),
    Begin("Acme", "Long-Evs"), A("Long-Evs-Blob", <<2>>, "octets"), End("Acme")>>

\* Two vendors whose containers have the same code chain.
Clash == <<
    Vendor("Acme", 9, DefaultFormat), Vendor("Beta", 10, DefaultFormat),
    AV("Acme-Tlv", <<1>>, "tlv", "Acme"),
    AV("Beta-Tlv", <<1>>, "tlv", "Beta"),
    AV("Acme-Sub-1", <<1, 1>>, "octets", "Acme")>>

MCFiles ==
    [main |-> Main, extended |-> Extended, vendors |-> Vendors, clash |-> Clash,
     children   |-> <<A("Long-Child", <<245, 2>>, "octets"), V("Long-Child", "X", Text(<<55>>))>>,
     moved      |-> <<A("Ext-5", <<246>>, "long-extended")>>,
     box        |-> <<A("Box", <<7>>, "tlv"), A("Box-Leaf", <<7, 7>>, "octets"),
                      A("Vsa", <<26>>, "vsa")>>,
     toolarge   |-> <<A("Small", <<3>>, "byte"), V("Small", "X", Number(256))>>,
     late       |-> <<V("Small", "X", Number(256)), A("Small", <<3>>, "byte")>>,
     again      |-> <<A("Ext-5", <<245>>, "long-extended")>>,
     outside    |-> <<>>,
     escape     |-> <<Inc("outside")>>,
     malformed  |-> <<[kw |-> "MALFORMED"]>>,
     type       |-> <<A("Strange", <<1>>, "float")>>,
     orphan     |-> <<A("Orphan", <<241, 1>>, "octets")>>,
     value      |-> <<V("Nobody", "X", Number(1))>>,
     format     |-> <<Vendor("Odd", 5, Fmt(3, 1, FALSE))>>,
     begin      |-> <<Begin("Nobody", "")>>,
     end        |-> <<End("Acme")>>]

MCOutside == {"outside"}

MCLoads ==
    {<<"main">>, <<"extended", "children">>, <<"extended", "extended">>,
     <<"extended", "again">>, <<"extended", "moved">>, <<"clash">>, <<"box">>}
      \cup {<<f>> : f \in {"escape", "malformed", "type", "orphan", "value", "toolarge",
                           "late", "format", "begin", "end"}}

Call(op, name, values) == [op |-> op, name |-> name, tag |-> NoTag, values |-> values]
Texts(b, lens) == [i \in DOMAIN lens |-> Text(Blob(b + i, lens[i]))]
Blobs(b, lens) == [i \in DOMAIN lens |-> Bytes(Blob(b + i, lens[i]))]
Strings(op, name, b, cases) == {Call(op, name, Texts(b, c)) : c \in cases}
Sizes(op, name, b, cases) == {Call(op, name, Blobs(b, c)) : c \in cases}

\* n characters of two octets each.
Umlauts(n) == Text([i \in 1 .. 2 * n |-> IF i % 2 = 1 THEN 195 ELSE 188])
\* "0xff00", a literal that is no hexadecimal number, and one of n octets.
HexLiteral == <<48, 120, 102, 102, 48, 48>>
NoLiteral  == <<48, 120, 103>>
LongLiteral(n) == <<48, 120>> \o Blob(65, 2 * n)

MCCalls ==
    Strings("add", "User-Name", 10, {<<0>>, <<3>>, <<253>>, <<254>>})
    \cup {Call("add", "User-Name", <<Umlauts(126)>>),
          Call("add", "User-Name", <<Umlauts(127)>>),
          Call("add", "User-Name", <<Bytes(<<72, 255>>)>>)}
    \cup Strings("assign", "User-Name", 15, {<<2, 3>>})
    \cup Strings("obfuscate", "Password", 20, {<<5>>, <<16>>, <<240>>, <<241>>})
    \cup Strings("add", "Password", 25, {<<16>>})
    \cup {Call("add", "Service", <<Name("Login"), Number(2), Number(7)>>),
          Call("assign", "Service", <<Number(1)>>),
          Call("add", "Offset", <<Number(-2), Number(70000)>>),
          Call("add", "Pool", <<Prefix(<<10, 1, 255, 7>>, 20)>>),
          Call("add", "Gateway", <<Address(<<10, 0, 0, 1>>)>>),
          Call("add", "Ports", <<Number(1), Number(65535)>>),
          Call("add", "Ports", <<Number(300)>>),
          Call("add", "Ports", [i \in 1 .. 126 |-> Number(i)]),
          Call("add", "Ports", [i \in 1 .. 127 |-> Number(i)]),
          [Call("add", "Service", <<Number(3)>>) EXCEPT !.tag = 4],
          [Call("obfuscate", "Tunnel-Password", Texts(30, <<6>>)) EXCEPT !.tag = 1]}
    \cup Strings("add", "Hint", 28, {<<4>>})
    \cup Strings("add", "Tunnel-Password", 31, {<<6>>, <<16>>})
    \cup Strings("obfuscate", "Tunnel-Password", 35, {<<15>>, <<239>>, <<240>>})
    \cup Sizes("add", "EAP-Message", 40, {<<0>>, <<253>>, <<254>>, <<507, 4>>})
    \cup Sizes("add", "Message-Authenticator", 45, {<<16>>})
    \cup Sizes("add", "Ext-Leaf", 50, {<<4>>})
    \cup Sizes("obfuscate", "Ext-Leaf", 52, {<<4>>, <<239>>})
    \cup Sizes("add", "Ext-Tlv-Leaf", 55, {<<3, 5>>, <<250>>, <<251>>})
    \cup Sizes("add", "Evs-Blob", 60, {<<0>>, <<247, 2>>, <<248>>})
    \cup Sizes("assign", "Evs-Blob", 62, {<<6>>})
    \cup Sizes("add", "Long-Leaf", 65, {<<0, 7>>, <<251>>, <<252, 3>>})
    \cup Sizes("add", "Long-Evs-Blob", 70, {<<0>>, <<246>>, <<247, 1>>})
    \cup Sizes("add", "Acme-Blob", 75, {<<0, 5>>, <<247>>, <<248>>})
    \cup {Call("assign", "Acme-Blob", <<Bytes(HexLiteral), Text(<<51, 48, 48>>)>>),
          Call("add", "Acme-Blob", <<Bytes(NoLiteral)>>),
          Call("add", "Acme-Blob", <<Bytes(LongLiteral(254))>>)}
    \cup Sizes("add", "Acme-Sub-1", 80, {<<3>>, <<116, 116, 9>>, <<120, 121>>, <<245>>, <<246>>})
    \cup Sizes("add", "Acme-Sub-2", 85, {<<4, 4>>, <<123>>, <<124>>})
    \cup Sizes("obfuscate", "Acme-Sub-2", 88, {<<5>>})
    \cup Sizes("add", "Acme-Concat", 90, {<<200, 60>>, <<254>>})
    \cup Sizes("add", "Wimax-Blob", 95, {<<0>>, <<246>>, <<247, 3>>})
    \cup Sizes("add", "Wide-Blob", 100, {<<0>>, <<247>>, <<248>>})
    \cup Sizes("add", "Long-Child", 105, {<<2>>})
    \cup Sizes("add", "Box-Leaf", 110, {<<2>>})
    \cup Sizes("assign", "Box-Leaf", 112, {<<3>>})

=============================================================================
