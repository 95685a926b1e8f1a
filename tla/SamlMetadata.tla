---------------------------- MODULE SamlMetadata ----------------------------
(***************************************************************************)
(* parse_sp_metadata: reading a metadata document that an administrator    *)
(* uploads to fill in the form of a service provider.                      *)
(*                                                                         *)
(* A document is a sequence of events, nested as the schema of SAML        *)
(* metadata allows, and any prefix of one (the reader ends there as well). *)
(* An element whose attributes or text are collected (a leaf) is one event *)
(* and its text or its location is its place in the document, unless the   *)
(* text is blank or the attributes are missing.                            *)
(***************************************************************************)
EXTENDS Integers, Sequences, SequencesExt

CONSTANTS
    MaxDoc,        \* events in a document (bound)
    Words          \* vocabularies; a document has the events of one (bound)

VARIABLES
    doc,           \* the document so far
    open,          \* the elements that are open
    st             \* the locals of parse_sp_metadata

metaVars == <<doc, open, st>>
-----------------------------------------------------------------------------
Event(ev, el, attr) == [ev |-> ev, el |-> el, attr |-> attr]

EntityDescriptors(ev) == {Event(ev, "Entity", a) : a \in {"id", "blank", "none"}}
KeyDescriptors(ev) == {Event(ev, "Key", use) : use \in {"signing", "encryption", "none"}}

\* Elements with children, and the same elements without any.
Starts == EntityDescriptors("start") \cup KeyDescriptors("start") \cup {Event("start", el, "none") : el \in {"Sp", "Idp"}}
Empties == EntityDescriptors("empty") \cup KeyDescriptors("empty")
Leaves == {Event("leaf", "Acs", b) : b \in {"post", "redirect", "other", "blank"}}
              \cup {Event("leaf", el, a) : el \in {"Cert", "NameIdFormat", "Organization"}, a \in {"text", "blank"}}
Ends == {Event("end", el, "none") : el \in {"Entity", "Sp", "Idp", "Key"}}
Events == Starts \cup Empties \cup Leaves \cup Ends

\* A certificate is also part of a signature, and a descriptor may have an
\* organization of its own.
Parent(el) == CASE el = "Entity" -> {"Document"}
                [] el \in {"Sp", "Idp"} -> {"Entity"}
                [] el = "Organization" -> {"Entity", "Sp", "Idp"}
                [] el \in {"Key", "NameIdFormat"} -> {"Sp", "Idp"}
                [] el = "Acs" -> {"Sp"}
                [] el = "Cert" -> {"Entity", "Sp", "Idp", "Key"}

\* The event may follow.
Nested(e) == IF e.ev = "end" THEN Last(open) = e.el ELSE Last(open) \in Parent(e.el)

\* The locals before the loop.  0: None.
Fresh == [entity |-> 0, inEntity |-> FALSE, inSp |-> FALSE, use |-> "none", acs |-> <<>>, signing |-> 0,
          fallback |-> 0, name |-> 0, org |-> 0, done |-> FALSE]

\* Option::get_or_insert
OrInsert(x, i) == IF x = 0 THEN i ELSE x

\* Event::Start of an element with children.
OnStart(s, e, i) ==
    CASE e.el = "Entity" /\ s.entity = 0 -> [s EXCEPT !.entity = IF e.attr = "none" THEN 0 ELSE i, !.inEntity = TRUE]
      [] e.el = "Sp" /\ s.inEntity -> [s EXCEPT !.inSp = TRUE]
      [] e.el = "Key" /\ s.inEntity /\ s.inSp -> [s EXCEPT !.use = e.attr]
      [] OTHER -> s

\* Event::Empty: nothing is entered, but the use of a key stays.
OnEmpty(s, e, i) ==
    CASE e.el = "Entity" /\ s.entity = 0 -> [s EXCEPT !.entity = IF e.attr = "none" THEN 0 ELSE i]
      [] e.el = "Key" /\ s.inEntity /\ s.inSp -> [s EXCEPT !.use = e.attr]
      [] OTHER -> s

\* Mutant of OnLeaf: the certificate for encryption is taken as well.
OnLeafAnyUse(s, e, i) ==
    CASE e.attr = "blank" -> s
      [] e.el = "Acs" /\ s.inEntity /\ s.inSp -> [s EXCEPT !.acs = Append(@, [binding |-> e.attr, location |-> i])]
      [] e.el = "Cert" /\ s.inEntity /\ s.inSp ->
            IF s.use = "signing" THEN [s EXCEPT !.signing = OrInsert(@, i)] ELSE [s EXCEPT !.fallback = OrInsert(@, i)]
      [] e.el = "NameIdFormat" /\ s.inEntity /\ s.inSp -> [s EXCEPT !.name = OrInsert(@, i)]
      [] e.el = "Organization" /\ s.inEntity -> [s EXCEPT !.org = OrInsert(@, i)]
      [] OTHER -> s

\* An element whose attributes or text are collected: Event::Start, Text and
\* End, or Event::Empty.  A blank one leaves nothing.
OnLeaf(s, e, i) ==
    CASE e.attr = "blank" -> s
      [] e.el = "Acs" /\ s.inEntity /\ s.inSp -> [s EXCEPT !.acs = Append(@, [binding |-> e.attr, location |-> i])]
      [] e.el = "Cert" /\ s.inEntity /\ s.inSp /\ s.use # "encryption" ->
            IF s.use = "signing" THEN [s EXCEPT !.signing = OrInsert(@, i)] ELSE [s EXCEPT !.fallback = OrInsert(@, i)]
      [] e.el = "NameIdFormat" /\ s.inEntity /\ s.inSp -> [s EXCEPT !.name = OrInsert(@, i)]
      [] e.el = "Organization" /\ s.inEntity -> [s EXCEPT !.org = OrInsert(@, i)]
      [] OTHER -> s

\* Event::End: the loop ends with the first entity.
OnEnd(s, e) ==
    CASE e.el = "Entity" /\ s.inEntity -> [s EXCEPT !.done = TRUE]
      [] e.el = "Sp" -> [s EXCEPT !.inSp = FALSE]
      [] e.el = "Key" -> [s EXCEPT !.use = "none"]
      [] OTHER -> s

\* pick_acs_url: the first with POST, then with Redirect, then the first.
PickAcs(acs) ==
    LET Find(b) == SelectInSeq(acs, LAMBDA a : a.binding = b)
    IN IF Find("post") # 0 THEN acs[Find("post")].location
       ELSE IF Find("redirect") # 0 THEN acs[Find("redirect")].location
       ELSE IF acs # <<>> THEN acs[1].location ELSE 0

NotImported == [entity |-> 0, acs |-> 0, cert |-> 0, name |-> 0, org |-> 0]

\* After the loop: a blank entity id is none.
Imported ==
    IF st.entity = 0 \/ PickAcs(st.acs) = 0 THEN NotImported
    ELSE IF doc[st.entity].attr = "blank" THEN NotImported
    ELSE [entity |-> st.entity, acs |-> PickAcs(st.acs), cert |-> OrInsert(st.signing, st.fallback),
          name |-> st.name, org |-> st.org]

MetaInit == doc = <<>> /\ open = <<"Document">> /\ st = Fresh

\* One turn of the loop.
ReadEvent(e) ==
    LET i == Len(doc) + 1 IN
    /\ i <= MaxDoc /\ Nested(e)
    /\ doc' = Append(doc, e)
    /\ open' = CASE e.ev = "start" -> Append(open, e.el) [] e.ev = "end" -> Front(open) [] OTHER -> open
    /\ st' = IF st.done THEN st
             ELSE CASE e.ev = "start" -> OnStart(st, e, i) [] e.ev = "empty" -> OnEmpty(st, e, i)
                    [] e.ev = "leaf" -> OnLeaf(st, e, i) [] e.ev = "end" -> OnEnd(st, e)
-----------------------------------------------------------------------------
(* What the document says, without reading it event by event.               *)

\* The element that starts at i encloses place j.
Encloses(i, j) ==
    /\ i < j /\ doc[i].ev = "start"
    /\ \A k \in i + 1 .. j - 1 : ~(doc[k].ev = "end" /\ doc[k].el = doc[i].el)

Within(i, el, attrs) == \E j \in 1 .. i - 1 : doc[j].el = el /\ doc[j].attr \in attrs /\ Encloses(j, i)

\* The first of a set of places, or 0.
Earliest(P) == IF P = {} THEN 0 ELSE CHOOSE i \in P : \A j \in P : i <= j

\* The entity that is described: the first one, unless that is empty and has no
\* id.  Its leaves, and those of its SPSSODescriptors.
First == Earliest({i \in DOMAIN doc : doc[i].el = "Entity" /\ (doc[i].ev = "start" \/ (doc[i].ev = "empty" /\ doc[i].attr # "none"))})
LeavesOf(el) ==
    {i \in DOMAIN doc : doc[i].el = el /\ doc[i].ev = "leaf" /\ doc[i].attr # "blank" /\ First # 0 /\ Encloses(First, i)}
SpLeaves(el) == {i \in LeavesOf(el) : Within(i, "Sp", {"none"})}

Preferred(P, i) == IF P # {} THEN Earliest(P) ELSE i
AcsOf(b) == {i \in SpLeaves("Acs") : doc[i].attr = b}

\* Certificates of the keys with such a use, and those that belong to no key.
CertsOf(uses) == {i \in SpLeaves("Cert") : Within(i, "Key", uses)}
Loose == SpLeaves("Cert") \ CertsOf({"signing", "encryption", "none"})

Incomplete == First = 0 \/ SpLeaves("Acs") = {} \/ doc[First].attr # "id"

\* KeyDescriptors without anything in them.
Hollow == {i \in DOMAIN doc : doc[i] \in KeyDescriptors("empty")}
=============================================================================
