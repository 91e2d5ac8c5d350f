--------------------------- MODULE XmlMaps_proofs ---------------------------
(* That the settings of a plugin survive their way through XML.            *)
EXTENDS XmlMaps, FiniteSetTheorems, TLAPS

(* The keys are written one after the other, each of them once.            *)
LEMMA KeysListed ==
  ASSUME NEW S, IsFiniteSet(S)
  PROVE  LET keys == SetToSeq(S) IN
           /\ Len(keys) \in Nat /\ keys \in [1 .. Len(keys) -> S]
           /\ IsInjective(keys)
           /\ \A k \in S : \E j \in 1 .. Len(keys) : keys[j] = k
<1> DEFINE keys == SetToSeq(S)
           n    == Cardinality(S)
<1>1. n \in Nat /\ \E f \in [1 .. n -> S] : IsInjective(f)
  BY FS_CardinalityType, Zenon DEF ExistsBijection, Bijection, Injection
<1>2. keys \in [1 .. n -> S] /\ IsInjective(keys)
  BY <1>1, Zenon DEF SetToSeq
<1>3. Len(keys) = n
  BY <1>1, <1>2
<1>4. keys \in Injection(1 .. n, S)
  BY <1>2 DEF Injection
<1>5. Cardinality(1 .. n) = n
  BY <1>1, FS_Interval
<1>6. keys \in Surjection(1 .. n, S)
  BY <1>4, <1>5, FS_Injection
<1>7. \A k \in S : \E j \in 1 .. n : keys[j] = k
  BY <1>6 DEF Surjection
<1> QED
  BY <1>1, <1>2, <1>3, <1>7

(* Of a map with n keys, the tokens between the first and the last are n   *)
(* entries at the even places and their ends at the odd ones.              *)
LEMMA Halves ==
  ASSUME NEW j \in Nat
  PROVE  /\ (2 * j) % 2 = 0 /\ (2 * j) \div 2 = j
         /\ (2 * j + 1) % 2 = 1 /\ (2 * j + 1) \div 2 = j
<1>1. (2 * j) \div 2 = j
  BY SMTT(30)
<1>2. (2 * j) % 2 = 0
  BY SMTT(30)
<1>3. (2 * j + 1) \div 2 = j
  BY SMTT(30)
<1>4. (2 * j + 1) % 2 = 1
  BY SMTT(30)
<1> QED
  BY <1>1, <1>2, <1>3, <1>4

LEMMA Places ==
  ASSUME NEW n \in Nat, NEW j \in 1 .. n
  PROVE  /\ 2 * j \in 2 .. 2 * n + 2     /\ 2 * j # 1     /\ 2 * j # 2 * n + 2
         /\ 2 * j + 1 \in 2 .. 2 * n + 2 /\ 2 * j + 1 # 1 /\ 2 * j + 1 # 2 * n + 2
         /\ 2 * j \in 1 .. 2 * n + 2     /\ 2 * j + 1 \in 1 .. 2 * n + 2
  OBVIOUS

LEMMA EvenOrOdd ==
  ASSUME NEW n \in Nat, NEW i \in 2 .. 2 * n + 2, i # 2 * n + 2
  PROVE  \E j \in 1 .. n : i = 2 * j \/ i = 2 * j + 1
<1>1. i \div 2 \in Nat /\ (i = 2 * (i \div 2) \/ i = 2 * (i \div 2) + 1)
  BY SMTT(30)
<1>2. i \div 2 \in 1 .. n
  BY <1>1
<1> QED
  BY <1>1, <1>2

(* What is read of the element written for a map is that map, whatever its *)
(* keys and values are: no entry is taken for the end or for something     *)
(* foreign, none is lost and none overwrites another (marshalMapToXML,     *)
(* unmarshalMapFromXML).                                                   *)
THEOREM MapSurvives ==
  ASSUME NEW start, start # "entry",
         NEW c, c = [k \in DOMAIN c |-> c[k]],
         IsFiniteSet(DOMAIN c), DOMAIN c # {}, Empty \notin DOMAIN c
  PROVE  LET tokens == marshalMapToXML(c, start) IN
           /\ Readable(tokens, start)
           /\ unmarshalMapFromXML(tokens, start) = c
<1> DEFINE keys   == SetToSeq(DOMAIN c)
           n      == Len(keys)
           last   == 2 * n + 2
           tokens == marshalMapToXML(c, start)
<1>1. /\ n \in Nat /\ keys \in [1 .. n -> DOMAIN c]
      /\ \A i, j \in 1 .. n : keys[i] = keys[j] => i = j
      /\ \A k \in DOMAIN c : \E j \in 1 .. n : keys[j] = k
  BY KeysListed DEF IsInjective
<1>2. tokens = [i \in 1 .. last |->
                 IF i = 1          THEN StartElement(start, <<>>)
                 ELSE IF i = last  THEN EndElement(start)
                 ELSE IF i % 2 = 0 THEN Entry(keys[i \div 2], c[keys[i \div 2]])
                 ELSE EndElement("entry")]
  BY Zenon DEF marshalMapToXML
<1> HIDE DEF keys, tokens
<1>3. Len(tokens) = last /\ last \in Nat /\ last \in 2 .. last
  BY <1>1, <1>2
<1>4. tokens[last] = EndElement(start)
  BY <1>1, <1>2
<1>5. \A j \in 1 .. n : /\ 2 * j \in 2 .. last /\ 2 * j + 1 \in 2 .. last
                       /\ tokens[2 * j] = Entry(keys[j], c[keys[j]])
                       /\ tokens[2 * j + 1] = EndElement("entry")
  <2> TAKE j \in 1 .. n
  <2>1. /\ 2 * j \in 1 .. last /\ 2 * j # 1 /\ 2 * j # last
        /\ (2 * j) % 2 = 0 /\ (2 * j) \div 2 = j
        /\ 2 * j + 1 \in 1 .. last /\ 2 * j + 1 # 1 /\ 2 * j + 1 # last
        /\ (2 * j + 1) % 2 # 0 /\ 2 * j \in 2 .. last /\ 2 * j + 1 \in 2 .. last
    <3>1. n \in Nat /\ j \in Nat
      BY <1>1
    <3>2. /\ (2 * j) % 2 = 0 /\ (2 * j) \div 2 = j
          /\ (2 * j + 1) % 2 = 1 /\ (2 * j + 1) \div 2 = j
      BY <3>1, Halves, Zenon
    <3>3. /\ 2 * j \in 2 .. last     /\ 2 * j # 1     /\ 2 * j # last
          /\ 2 * j + 1 \in 2 .. last /\ 2 * j + 1 # 1 /\ 2 * j + 1 # last
          /\ 2 * j \in 1 .. last     /\ 2 * j + 1 \in 1 .. last
      BY <3>1, Places, Zenon
    <3>4. (2 * j + 1) % 2 # 0
      BY <3>2
    <3> QED
      BY <3>2, <3>3, <3>4, Zenon
  <2>2. /\ tokens[2 * j] = Entry(keys[j], c[keys[j]])
        /\ tokens[2 * j + 1] = EndElement("entry")
    BY <1>2, <2>1, Zenon
  <2> QED
    BY <2>1, <2>2
<1>6. \A i \in 2 .. last : i = last \/ \E j \in 1 .. n : i = 2 * j \/ i = 2 * j + 1
  BY <1>1, EvenOrOdd
<1>7. \A k, v : Entry(k, v).kind = "start" /\ EndElement(k).kind = "end" /\ EndElement(k).name = k
  BY DEF Entry, StartElement, EndElement
<1>8. \A k, v : Attr(Entry(k, v), "key") = k /\ Attr(Entry(k, v), "value") = v
  BY DEF Entry, StartElement, Attr
<1>9. \A j \in 1 .. n : ~Fails(tokens[2 * j]) /\ ~Fails(tokens[2 * j + 1])
  <2> TAKE j \in 1 .. n
  <2>1. keys[j] # Empty
    BY <1>1
  <2>2. Entry(keys[j], c[keys[j]]).name = "entry"
    BY DEF Entry, StartElement
  <2> QED
    BY <1>5, <1>7, <1>8, <2>1, <2>2 DEF Fails
<1>10. ~Fails(tokens[last])
  BY <1>4, <1>7 DEF Fails
<1>11. Stops(tokens, start) = {last}
  <2>1. last \in Stops(tokens, start)
    BY <1>3, <1>4, <1>7 DEF Stops
  <2>2. ASSUME NEW i \in Stops(tokens, start), i # last PROVE FALSE
    <3>1. PICK j \in 1 .. n : i = 2 * j \/ i = 2 * j + 1
      BY <1>3, <1>6, <2>2 DEF Stops
    <3> QED
      BY <1>5, <1>7, <1>9, <2>2, <3>1 DEF Stops
  <2> QED
    BY <2>1, <2>2
<1>12. Min(Stops(tokens, start)) = last
  BY <1>3, <1>11 DEF Min
<1>13. Readable(tokens, start)
  BY <1>10, <1>11, <1>12 DEF Readable
<1> DEFINE entries == {i \in 2 .. last : tokens[i].kind = "start"}
           key(i)  == Attr(tokens[i], "key")
           of(k)   == {i \in entries : key(i) = k}
<1>14. entries = {2 * j : j \in 1 .. n}
  <2>1. ASSUME NEW i \in entries PROVE \E j \in 1 .. n : i = 2 * j
    BY <1>4, <1>5, <1>6, <1>7, <2>1
  <2>2. ASSUME NEW j \in 1 .. n PROVE 2 * j \in entries
    BY <1>5, <1>7, <2>2
  <2> QED
    BY <2>1, <2>2
<1>15. \A j \in 1 .. n : key(2 * j) = keys[j] /\ Attr(tokens[2 * j], "value") = c[keys[j]]
  BY <1>5, <1>8
<1>16. unmarshalMapFromXML(tokens, start)
         = [k \in {key(i) : i \in entries} |-> Attr(tokens[Max(of(k))], "value")]
  BY <1>12, Zenon DEF unmarshalMapFromXML
<1> HIDE DEF entries, key
<1>17. {key(i) : i \in entries} = DOMAIN c
  <2>1. ASSUME NEW i \in entries PROVE key(i) \in DOMAIN c
    BY <1>1, <1>14, <1>15
  <2>2. ASSUME NEW k \in DOMAIN c PROVE \E i \in entries : key(i) = k
    <3>1. PICK j \in 1 .. n : keys[j] = k
      BY <1>1
    <3>2. 2 * j \in entries /\ key(2 * j) = k
      BY <1>14, <1>15, <3>1
    <3> QED
      BY <3>2
  <2> QED
    BY <2>1, <2>2
<1>18. \A k \in DOMAIN c : Attr(tokens[Max(of(k))], "value") = c[k]
  <2> TAKE k \in DOMAIN c
  <2>1. PICK j \in 1 .. n : keys[j] = k
    BY <1>1
  <2>2. of(k) = {2 * j}
    BY <1>1, <1>14, <1>15, <2>1
  <2>3. Max(of(k)) = 2 * j
    BY <2>2 DEF Max
  <2> QED
    BY <1>15, <2>1, <2>3
<1> QED
  <2>1. unmarshalMapFromXML(tokens, start) = [k \in DOMAIN c |-> c[k]]
    BY <1>16, <1>17, <1>18
  <2> QED
    BY <1>13, <2>1 DEF tokens
=============================================================================
