---------------------------- MODULE ProjectConfig ----------------------------
(***************************************************************************)
(* The two translations of a rundeck_project: the raw configuration that   *)
(* UpdateProject makes of a block, and the object that ReadProject makes   *)
(* of a raw configuration.                                                 *)
(*                                                                         *)
(* A key is a sequence of words with separators between them, as in        *)
(* <<"project", ".", "label">>; a raw configuration is a function from     *)
(* keys to values.  A block, or an object, is a record of                  *)
(*   attributes   a value for each attribute of its own, "" for none       *)
(*   sources      the resource_model_source blocks, in order               *)
(*   extra        extra_config, a function from keys to values             *)
(***************************************************************************)
EXTENDS Naturals, SequencesExt

(* Each attribute of its own and the key that it is kept under.            *)
projectConfigAttributes ==
  [name                            |-> <<"project", ".", "name">>,
   description                     |-> <<"project", ".", "description">>,
   default_node_file_copier_plugin |-> <<"service", ".", "FileCopier", ".", "default", ".", "provider">>,
   default_node_executor_plugin    |-> <<"service", ".", "NodeExecutor", ".", "default", ".", "provider">>,
   ssh_authentication_type         |-> <<"project", ".", "ssh-authentication">>,
   ssh_key_storage_path            |-> <<"project", ".", "ssh-key-storage-path">>,
   ssh_key_file_path               |-> <<"project", ".", "ssh-keypath">>]
Attribute     == DOMAIN projectConfigAttributes
AttributeKeys == Range(projectConfigAttributes)

Replace(old, new, k) == [i \in DOMAIN k |-> IF k[i] = old THEN new ELSE k[i]]
slashReplacer(k) == Replace("/", ".", k)
dotReplacer(k)   == Replace(".", "/", k)

(* The maps that copying m, each key under the name it has in names, can   *)
(* end with: where two meet, the order of Go's iteration says which stays. *)
Renamed(m, names) ==
  {r \in [Range(names) -> Range(m)] :
     \A n \in DOMAIN r : \E k \in DOMAIN m : names[k] = n /\ m[k] = r[n]}

Without(m, keys) == Restrict(m, DOMAIN m \ keys)

----------------------------------------------------------------------------
(* From a block to the raw configuration. *)

Numerals     == <<"1", "2", "3", "4">>
SourcePrefix == <<"resources", ".", "source", ".">>

OwnProperties(b) ==
  LET given == {a \in Attribute : b.attributes[a] # ""}
  IN [k \in {projectConfigAttributes[a] : a \in given} |->
        b.attributes[CHOOSE a \in given : projectConfigAttributes[a] = k]]

SourceProperties(i, source) ==
  LET prefix  == SourcePrefix \o <<Numerals[i], ".">>
      key(p)  == prefix \o <<"config", ".">> \o p
      setting == {key(p) : p \in DOMAIN source.config}
  IN (prefix \o <<"type">>) :> source.type
     @@ [k \in setting |-> source.config[SubSeq(k, Len(prefix) + 3, Len(k))]]

AllSourceProperties(sources) ==
  FoldLeftDomain(LAMBDA m, i : SourceProperties(i, sources[i]) @@ m, <<>>, sources)

(* What is assigned later wins: sources over attributes over extra_config. *)
UpdateMaps(b) ==
  {AllSourceProperties(b.sources) @@ OwnProperties(b) @@ extra :
     extra \in Renamed(b.extra, [k \in DOMAIN b.extra |-> slashReplacer(k)])}

----------------------------------------------------------------------------
(* From a raw configuration to the object. *)

(* Split at the dots the key has at least four parts, a number third.      *)
NamesSource(k) ==
  /\ Len(k) > 6 /\ SubSeq(k, 1, 4) = SourcePrefix /\ k[6] = "."
  /\ k[5] \in Range(Numerals)
Index(k) == CHOOSE i \in DOMAIN Numerals : Numerals[i] = k[5]

IsSourceType(k)   == NamesSource(k) /\ SubSeq(k, 7, Len(k)) = <<"type">>
IsSourceConfig(k) ==
  /\ NamesSource(k) /\ Len(k) > 8
  /\ SubSeq(k, 7, 8) = <<"config", ".">>
  /\ "." \notin Range(SubSeq(k, 9, Len(k)))

(* A source that only a key of some other form mentions has no type. *)
SourceAt(i, p) ==
  LET ofType   == {k \in DOMAIN p : IsSourceType(k) /\ Index(k) = i}
      ofConfig == {k \in DOMAIN p : IsSourceConfig(k) /\ Index(k) = i}
  IN [type   |-> IF ofType = {} THEN "" ELSE p[CHOOSE k \in ofType : TRUE],
      config |-> [s \in {SubSeq(k, 9, Len(k)) : k \in ofConfig} |->
                    p[SourcePrefix \o <<Numerals[i], ".", "config", ".">> \o s]]]

Indices(p) == {Index(k) : k \in {k \in DOMAIN p : NamesSource(k)}}

AttributesKept(p, old) ==               \* mutant: no d.Set(attrKey, nil)
  [a \in Attribute |-> IF projectConfigAttributes[a] \in DOMAIN p
                         THEN p[projectConfigAttributes[a]] ELSE old.attributes[a]]

(* An attribute the project lacks is cleared, but for the name: it is set  *)
(* again from the answer, which is about the project asked for.            *)
AttributesOf(p, old) ==
  [a \in Attribute |-> IF a = "name" THEN old.attributes.name
                       ELSE IF projectConfigAttributes[a] \in DOMAIN p
                         THEN p[projectConfigAttributes[a]] ELSE ""]

(* What neither an attribute nor a source takes is extra_config. *)
ProjectRead(p, old) ==
  LET indices == SetToSortSeq(Indices(p), <)
      taken   == AttributeKeys
                 \cup {k \in DOMAIN p : IsSourceType(k) \/ IsSourceConfig(k)}
      others  == Without(p, taken)
  IN {[attributes |-> AttributesOf(p, old),
       sources    |-> [j \in DOMAIN indices |-> SourceAt(indices[j], p)],
       extra      |-> extra] :
        extra \in Renamed(others, [k \in DOMAIN others |-> dotReplacer(k)])}
=============================================================================
