----------------------------- MODULE Dictionary -----------------------------
(***************************************************************************)
(* pyrad2/dictionary.py, dictfile.py and bidict.py: reading dictionary     *)
(* files line by line.  DictFile keeps a stack of open files, because a    *)
(* $INCLUDE continues in another file and comes back; Dictionary keeps the *)
(* attributes, vendors and formats read so far, and the parser state       *)
(* (current vendor, EVS parent, containers by code chain).                 *)
(*                                                                         *)
(* Attribute objects are compared by identity in the code: declaring a     *)
(* name again makes a new object while sub-attributes keep pointing at the *)
(* old one.  They live on a heap, and names, chains and parent links are   *)
(* indices into it.                                                        *)
(*                                                                         *)
(* A line is a record: tokenizing, comments and number notations are left  *)
(* out, "MALFORMED" stands for any line whose tokens are not accepted.     *)
(***************************************************************************)
EXTENDS AttributeTypes, TLC

CONSTANTS
    Files,      \* file name -> sequence of lines
    Outside,    \* the files that are outside the include base directory
    Loads       \* the sequences of files a program may read, one after another

VARIABLES
    todo,       \* files still to be passed to read_dictionary
    begun,      \* the files passed to it so far (history)
    stack,      \* DictFile.stack: the open files and the next line of each
    dict,       \* the Dictionary
    state,      \* read_dictionary's state: vendor, evs_parent, tlvs
    deferred,   \* defer_parse
    outcome     \* "reading", "done" or "failed"

dictVars == <<todo, begun, stack, dict, state, deferred, outcome>>

Containers == {"tlv", "extended", "long-extended"}

DataTypes ==
    IntegerTypes \cup Containers
      \cup {"string", "octets", "evs", "vsa", "abinary", "ipaddr", "ipv6addr",
            "combo-ip", "ifid", "ether", "ipv4prefix", "ipv6prefix"}

DefaultFormat == [type |-> 1, len |-> 1, cont |-> FALSE]

----------------------------------------------------------------------------
(* BiDict: add() leaves the old reverse entry of a redefined key behind.   *)

EmptyMap == [x \in {} |-> x]
EmptyBiDict == [forward |-> EmptyMap, backward |-> EmptyMap]

BiAdd(b, one, two) ==
    [forward  |-> (one :> two) @@ b.forward,
     backward |-> (two :> one) @@ b.backward]

----------------------------------------------------------------------------
(* Looking things up in a dictionary.                                      *)

Attr(D, name) == D.objs[D.attributes[name]]

\* _decode_key followed by attributes.get(): the attribute a key stands for.
KeyKnown(D, key) == key \in DOMAIN D.attrindex.backward
AttrOfKey(D, key) == Attr(D, D.attrindex.backward[key])

VendorFormat(D, id) ==
    IF id \in DOMAIN D.formats THEN D.formats[id] ELSE DefaultFormat

VendorId(D, vendor) == D.vendors.forward[vendor]

\* The codes from the outermost parent down to each object.
Chain(objs) ==
    LET chain[i \in 0 .. Len(objs)] ==
            IF i = 0 THEN <<>>
            ELSE Append(chain[objs[i].parent], objs[i].code)
    IN chain

\* The containers already loaded; of two with one chain the later wins.
ExistingContainerChains(D) ==
    LET loaded == SelectSeq(D.names,
                     LAMBDA n : Attr(D, n).type \in Containers)
        chain  == Chain(D.objs)
    IN FoldLeft(LAMBDA t, n :
                   (chain[D.attributes[n]] :> D.attributes[n]) @@ t,
                EmptyMap, loaded)

EmptyDictionary ==
    [objs |-> <<>>, attributes |-> EmptyMap, names |-> <<>>,
     attrindex |-> EmptyBiDict,
     vendors |-> BiAdd(EmptyBiDict, "", 0), formats |-> EmptyMap]

StartState(D) ==
    [vendor |-> "", evs |-> "", tlvs |-> ExistingContainerChains(D)]

DictInit ==
    /\ \E l \in Loads :
         /\ todo = Tail(l) /\ begun = <<Head(l)>>
         /\ stack = <<[file |-> Head(l), pos |-> 1]>>
    /\ dict = EmptyDictionary
    /\ state = StartState(EmptyDictionary)
    /\ deferred = <<>>
    /\ outcome = "reading"

----------------------------------------------------------------------------
(* DictFile.__next__                                                       *)

Top == stack[Len(stack)]
Unread == outcome = "reading" /\ stack # <<>> /\ Top.pos <= Len(Files[Top.file])
Line == Files[Top.file][Top.pos]
Reads(kw) == Unread /\ Line.kw = kw

Advanced == [stack EXCEPT ![Len(stack)].pos = @ + 1]
Consume == stack' = Advanced /\ UNCHANGED <<todo, begun>>

\* ParseError (or OSError) out of read_dictionary.
Fail ==
    /\ outcome' = "failed"
    /\ UNCHANGED <<todo, begun, stack, state, deferred>>

EndOfFile ==
    /\ outcome = "reading" /\ stack # <<>> /\ Top.pos > Len(Files[Top.file])
    /\ stack' = Front(stack)
    /\ UNCHANGED <<todo, begun, dict, state, deferred, outcome>>

Include ==
    /\ Reads("$INCLUDE")
    /\ Line.file \in DOMAIN Files \ Outside
    /\ stack' = Append(Advanced, [file |-> Line.file, pos |-> 1])
    /\ UNCHANGED <<todo, begun, dict, state, deferred, outcome>>

IncludeRefused ==
    /\ Reads("$INCLUDE")
    /\ Line.file \notin DOMAIN Files \ Outside
    /\ Fail /\ UNCHANGED dict

\* Lines read_dictionary does not know are skipped.
SkipLine ==
    /\ Reads("OTHER")
    /\ Consume
    /\ UNCHANGED <<dict, state, deferred, outcome>>

Malformed == Reads("MALFORMED") /\ Fail /\ UNCHANGED dict

----------------------------------------------------------------------------
(* ATTRIBUTE                                                               *)

\* The vendor column of the line, or the open BEGIN-VENDOR block.
LineVendor == IF Line.vendor # "" THEN Line.vendor ELSE state.vendor

ParentChain == Front(Line.codes)
Dotted == Len(Line.codes) > 1

EvsMarker == Attr(dict, state.evs)

\* The key of the attribute in attrindex.
IndexKey ==
    IF state.evs # ""
    THEN <<dict.objs[EvsMarker.parent].code, EvsMarker.code,
           VendorId(dict, LineVendor), Last(Line.codes)>>
    ELSE (IF LineVendor # "" THEN <<VendorId(dict, LineVendor)>> ELSE <<>>)
            \o Line.codes

\* Attribute.__init__; the parent is known once its chain has been found.
NewAttribute(parent) ==
    [name    |-> Line.name,
     code    |-> Last(Line.codes),
     type    |-> Line.type,
     vendor  |-> LineVendor,
     encrypt |-> Line.encrypt,
     flags   |-> Line.flags,
     values  |-> EmptyBiDict,
     subs    |-> EmptyMap,
     parent  |-> parent,
     sub     |-> Dotted \/ state.evs # ""]

\* The dictionary with a new object for the line's name.
Registered(parent) ==
    LET i == Len(dict.objs) + 1
    IN [dict EXCEPT
          !.objs       = Append(@, NewAttribute(parent)),
          !.attributes = (Line.name :> i) @@ @,
          !.names      = IF Line.name \in DOMAIN dict.attributes THEN @
                         ELSE Append(@, Line.name),
          !.attrindex  = BiAdd(@, Line.name, IndexKey)]

\* parent_attr.sub_attributes[code] = attribute
Adopted(D, parent) ==
    [D EXCEPT !.objs[parent].subs = (Last(Line.codes) :> Line.name) @@ @]

\* The containers, with the line's own when it declares one.
Tlvs ==
    IF Line.type \notin Containers THEN state.tlvs
    ELSE (Line.codes :> Len(dict.objs) + 1) @@ state.tlvs

AttributeAccepted ==
    /\ Line.type \in DataTypes
    /\ LineVendor \in DOMAIN dict.vendors.forward

AttributeRefused ==
    /\ Reads("ATTRIBUTE") /\ ~AttributeAccepted
    /\ Fail /\ UNCHANGED dict

ParseAttribute ==
    /\ Reads("ATTRIBUTE") /\ AttributeAccepted
    /\ state.evs = "" => (Dotted => ParentChain \in DOMAIN Tlvs)
    /\ dict' = IF state.evs # "" THEN Registered(dict.attributes[state.evs])
               ELSE IF Dotted
               THEN Adopted(Registered(Tlvs[ParentChain]), Tlvs[ParentChain])
               ELSE Registered(0)
    /\ state' = [state EXCEPT !.tlvs = Tlvs]
    /\ Consume
    /\ UNCHANGED <<deferred, outcome>>

\* A sub-attribute of an undefined parent: it is registered, then ParseError.
ParseOrphan ==
    /\ Reads("ATTRIBUTE") /\ AttributeAccepted
    /\ state.evs = "" /\ Dotted /\ ParentChain \notin DOMAIN Tlvs
    /\ dict' = Registered(0)
    /\ Fail

----------------------------------------------------------------------------
(* VALUE, VENDOR, BEGIN-VENDOR, END-VENDOR                                 *)

ValueOctets(D, l) == EncodeAttr(Attr(D, l.attr).type, l.value)

\* encode_attr takes the value of the line; otherwise it raises out of
\* read_dictionary.
Encodable(D, l) == ~HasRaised(ValueOctets(D, l))

Bound(D, l) ==
    [D EXCEPT !.objs[D.attributes[l.attr]].values =
        BiAdd(@, Name(l.key), ValueOctets(D, l))]

ParseValue ==
    /\ Reads("VALUE")
    /\ Line.attr \in DOMAIN dict.attributes
    /\ Encodable(dict, Line)
    /\ dict' = Bound(dict, Line)
    /\ Consume
    /\ UNCHANGED <<state, deferred, outcome>>

ValueRefused ==
    /\ Reads("VALUE")
    /\ Line.attr \in DOMAIN dict.attributes
    /\ ~Encodable(dict, Line)
    /\ Fail /\ UNCHANGED dict

\* Faulty variant: a VALUE ahead of its ATTRIBUTE is forgotten.
DropValue ==
    /\ Reads("VALUE")
    /\ Line.attr \notin DOMAIN dict.attributes
    /\ Consume
    /\ UNCHANGED <<dict, state, deferred, outcome>>

DeferValue ==
    /\ Reads("VALUE")
    /\ Line.attr \notin DOMAIN dict.attributes
    /\ deferred' = Append(deferred, Line)
    /\ Consume
    /\ UNCHANGED <<dict, state, outcome>>

VendorAccepted ==
    /\ Line.format.type \in {1, 2, 4} /\ Line.format.len \in {0, 1, 2}
    /\ Line.id \in 0 .. 16777215

VendorRefused ==
    Reads("VENDOR") /\ ~VendorAccepted /\ Fail /\ UNCHANGED dict

\* A later line with the default format leaves an earlier format in place.
ParseVendor ==
    /\ Reads("VENDOR") /\ VendorAccepted
    /\ dict' = [dict EXCEPT
                  !.vendors = BiAdd(@, Line.name, Line.id),
                  !.formats = IF Line.format = DefaultFormat THEN @
                              ELSE (Line.id :> Line.format) @@ @]
    /\ Consume
    /\ UNCHANGED <<state, deferred, outcome>>

BeginsEvs == Line.parent # ""

BeginAccepted ==
    /\ Line.vendor \in DOMAIN dict.vendors.forward
    /\ BeginsEvs => /\ Line.parent \in DOMAIN dict.attributes
                    /\ Attr(dict, Line.parent).type = "evs"

BeginVendor ==
    /\ Reads("BEGIN-VENDOR") /\ BeginAccepted
    /\ state' = [state EXCEPT !.vendor = Line.vendor, !.evs = Line.parent]
    /\ Consume
    /\ UNCHANGED <<dict, deferred, outcome>>

BeginRefused ==
    Reads("BEGIN-VENDOR") /\ ~BeginAccepted /\ Fail /\ UNCHANGED dict

EndVendor ==
    /\ Reads("END-VENDOR") /\ Line.vendor = state.vendor
    /\ state' = [state EXCEPT !.vendor = "", !.evs = ""]
    /\ Consume
    /\ UNCHANGED <<dict, deferred, outcome>>

EndRefused ==
    /\ Reads("END-VENDOR") /\ Line.vendor # state.vendor
    /\ Fail /\ UNCHANGED dict

----------------------------------------------------------------------------
(* The end of read_dictionary: the deferred values, then the next file.    *)

FileRead == outcome = "reading" /\ stack = <<>>

ReplayValue ==
    /\ FileRead /\ deferred # <<>>
    /\ Head(deferred).attr \in DOMAIN dict.attributes
    /\ Encodable(dict, Head(deferred))
    /\ dict' = Bound(dict, Head(deferred))
    /\ deferred' = Tail(deferred)
    /\ UNCHANGED <<todo, begun, stack, state, outcome>>

ReplayUnknown ==
    /\ FileRead /\ deferred # <<>>
    /\ Head(deferred).attr \notin DOMAIN dict.attributes
    /\ Fail /\ UNCHANGED dict

ReplayRefused ==
    /\ FileRead /\ deferred # <<>>
    /\ Head(deferred).attr \in DOMAIN dict.attributes
    /\ ~Encodable(dict, Head(deferred))
    /\ Fail /\ UNCHANGED dict

NextFile ==
    /\ FileRead /\ deferred = <<>> /\ todo # <<>>
    /\ stack' = <<[file |-> Head(todo), pos |-> 1]>>
    /\ todo' = Tail(todo) /\ begun' = Append(begun, Head(todo))
    /\ state' = StartState(dict)
    /\ UNCHANGED <<dict, deferred, outcome>>

Finish ==
    /\ FileRead /\ deferred = <<>> /\ todo = <<>>
    /\ outcome' = "done"
    /\ state' = StartState(EmptyDictionary)
    /\ UNCHANGED <<todo, begun, stack, dict, deferred>>

DictNext ==
    \/ EndOfFile \/ Include \/ IncludeRefused \/ SkipLine \/ Malformed
    \/ ParseAttribute \/ AttributeRefused \/ ParseOrphan
    \/ ParseValue \/ ValueRefused \/ DeferValue \/ ParseVendor \/ VendorRefused
    \/ BeginVendor \/ BeginRefused \/ EndVendor \/ EndRefused
    \/ ReplayValue \/ ReplayUnknown \/ ReplayRefused \/ NextFile \/ Finish

=============================================================================
