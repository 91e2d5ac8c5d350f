------------------------------- MODULE XmlMaps -------------------------------
(***************************************************************************)
(* How a plugin's settings, a map of strings, travel in XML (util.go): an  *)
(* element with one empty <entry key="k" value="v"/> for every key.  An    *)
(* element is the sequence of the tokens an encoder writes and a decoder   *)
(* delivers, from its start to its end.                                    *)
(***************************************************************************)
EXTENDS Naturals, SequencesExt

Empty == ""         \* the empty string: an attribute that is not there

StartElement(name, attrs) == [kind |-> "start", name |-> name, attrs |-> attrs]
EndElement(name)          == [kind |-> "end", name |-> name, attrs |-> <<>>]
CharData                  == [kind |-> "text", name |-> Empty, attrs |-> <<>>]

Entry(k, v) == StartElement("entry", [key |-> k, value |-> v])
Attr(t, a)  == IF a \in DOMAIN t.attrs THEN t.attrs[a] ELSE Empty

MapUnclosed(c, start) ==            \* mutant: the element is left open
  LET keys == SetToSeq(DOMAIN c)
  IN IF DOMAIN c = {} THEN <<>>
     ELSE [i \in 1 .. 2 * Len(keys) + 1 |->
             IF i = 1          THEN StartElement(start, <<>>)
             ELSE IF i % 2 = 0 THEN Entry(keys[i \div 2], c[keys[i \div 2]])
             ELSE EndElement("entry")]

(* Nothing at all is written of an empty map.  The keys are written in one *)
(* and the same order every time.                                          *)
marshalMapToXML(c, start) ==
  LET keys == SetToSeq(DOMAIN c)
      last == 2 * Len(keys) + 2
  IN IF DOMAIN c = {} THEN <<>>
     ELSE [i \in 1 .. last |->
             IF i = 1          THEN StartElement(start, <<>>)
             ELSE IF i = last  THEN EndElement(start)
             ELSE IF i % 2 = 0 THEN Entry(keys[i \div 2], c[keys[i \div 2]])
             ELSE EndElement("entry")]

----------------------------------------------------------------------------
(* unmarshalMapFromXML, which fails at the first start of anything but an  *)
(* entry, or of an entry without a key, and returns at the first end of    *)
(* the element; other tokens are passed over.                              *)

Fails(t) == t.kind = "start" /\ (t.name # "entry" \/ Attr(t, "key") = Empty)

Stops(tokens, start) ==
  {i \in 2 .. Len(tokens) : Fails(tokens[i]) \/ (tokens[i].kind = "end" /\ tokens[i].name = start)}

Readable(tokens, start) ==
  /\ Stops(tokens, start) # {}
  /\ ~Fails(tokens[Min(Stops(tokens, start))])

(* A later entry overwrites an earlier one of the same key. *)
unmarshalMapFromXML(tokens, start) ==
  LET entries   == {i \in 2 .. Min(Stops(tokens, start)) : tokens[i].kind = "start"}
      Key(i)    == Attr(tokens[i], "key")
      LastOf(k) == Max({i \in entries : Key(i) = k})
  IN [k \in {Key(i) : i \in entries} |-> Attr(tokens[LastOf(k)], "value")]
=============================================================================
