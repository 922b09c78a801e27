--------------------------- MODULE GeneratedTypes ---------------------------
(***************************************************************************)
(* Which Go types the protocol generator emits, and under which names: the *)
(* walk over the schemas that the manifest's roots reach, the names of the *)
(* definitions it marks, and the selection of the structs whose fields     *)
(* have a type.                                                            *)
(*                                                                         *)
(* A schema is the root of a document or one of its definitions; it is an  *)
(* object with a label, which stands for the fields without a reference,   *)
(* a note, its documentation, and at most one field that refers to a       *)
(* definition of the same document, by name. The schemas of `T' describe   *)
(* a type that is named like a definition of the other documents. The      *)
(* roots of the manifest are visited in any order (a Go map).              *)
(***************************************************************************)
EXTENDS Integers, Sequences, FiniteSets
LOCAL INSTANCE SequencesExt

CONSTANT Labels   \* the shapes of objects

ASSUME LabelsAssumption == Labels \subseteq Nat

VARIABLES
  text,       \* the schemas
  manifest,   \* documents that the manifest names
  typesDone,  \* visitedTypes
  generated,  \* GeneratedDefinitions, of all documents
  walking,    \* the reference that is followed
  tpc,        \* where construction is
  names,      \* namesByPath
  chosen      \* the types that are emitted

typeVars == <<text, manifest, typesDone, generated, walking, tpc, names, chosen>>

Documents == <<"A", "B", "T">>    \* in the order of their paths
DocSet == {"A", "B", "T"}
TypeName(d) == IF d = "T" THEN "X" ELSE d
Root(d) == <<d, "root">>
SchemaIds == DocSet \X {"root", "X", "Y"}

NoRef == "none"
NoSchema == [label |-> -1, note |-> 0, ref |-> NoRef]
Objects(labels, notes, refs) == [label : labels, note : notes, ref : refs]
First == CHOOSE l \in Labels : \A m \in Labels : l <= m

\* What upstream may hand over. One of the documents may be recursive, and two
\* may lack what they refer to.
Upstream ==
  {[i \in SchemaIds |-> CASE i \in {Root("A"), Root("B")} -> [label |-> First, note |-> 0, ref |-> "X"]
                          [] i = <<"A", "X">> -> ax
                          [] i = <<"A", "Y">> -> ay
                          [] i = <<"B", "X">> -> bx
                          [] i = <<"B", "Y">> -> by
                          [] i = Root("T") -> t
                          [] i = <<"T", "Y">> -> ty
                          [] OTHER -> NoSchema] :
     ax \in Objects(Labels, {0, 1}, {NoRef, "X", "Y"}),
     ay \in Objects(Labels, {0}, {NoRef, "X"}) \cup {NoSchema},
     bx \in Objects(Labels, {0}, {NoRef, "Y"}),
     by \in Objects(Labels, {0}, {NoRef}),
     t \in Objects(Labels, {0}, {NoRef, "Y"}),
     ty \in Objects({First}, {0}, {NoRef}) \cup {NoSchema}}

TypesOK ==
  /\ \A i \in SchemaIds : text[i] \in Objects(Labels \cup {-1}, {0, 1}, {NoRef, "X", "Y"})
  /\ manifest \subseteq DocSet /\ typesDone \subseteq manifest
  /\ generated \subseteq SchemaIds
  /\ walking \in SchemaIds \cup {<<>>}
  /\ tpc \in {"walk", "select", "done", "failed"}
  /\ DOMAIN names \subseteq SchemaIds

TypesBegin(schemas, roots) ==
  /\ text = schemas /\ manifest = roots
  /\ typesDone = {} /\ generated = {} /\ walking = <<>>
  /\ tpc = "walk" /\ names = <<>> /\ chosen = {}

TypesInit == \E s \in Upstream, roots \in {{"A", "B"}, DocSet} : TypesBegin(s, roots)

-----------------------------------------------------------------------------
(* markReachableGeneratedDefinitions.                                      *)

\* absoluteRefPath: a reference is to a definition of the document it is in.
Target(i) == IF text[i].ref = NoRef THEN <<>> ELSE <<i[1], text[i].ref>>

Shape(i) == <<text[i].label, text[i].ref>>   \* without documentation

Definitions(d) == {n \in {"X", "Y"} : text[<<d, n>>] # NoSchema}

\* Mutant: the definitions that the top-level schema brings along are not compared.
sameGeneratedRootShapeOnly(i, d) == Shape(i) = Shape(Root(d))

sameGeneratedRootShape(i, d) ==
  /\ Shape(i) = Shape(Root(d))
  /\ \A n \in Definitions(d) : text[<<i[1], n>>] # NoSchema /\ Shape(<<i[1], n>>) = Shape(<<d, n>>)

\* isGeneratedTopLevelType: references are local, so only roots of the manifest are.
TopLevel(d) == d \in manifest

\* The top-level types that take the place of a definition.
Instead(i) == {d \in DocSet : TypeName(d) = i[2] /\ d # i[1] /\ TopLevel(d) /\ sameGeneratedRootShape(i, d)}

WalkRoot(d) ==
  /\ tpc = "walk" /\ walking = <<>> /\ d \in manifest \ typesDone
  /\ typesDone' = typesDone \cup {d}
  /\ walking' = Target(Root(d))
  /\ UNCHANGED <<text, manifest, generated, tpc, names, chosen>>

\* Mutant: a definition is followed, and not marked when it is the last one.
MarkedInner(i) == IF Target(i) = <<>> THEN {} ELSE {i}

\* Mutant: the document of a definition is forgotten.
MarkedName(i) == {i[2]}

Marked(i) == {i}

walkRef ==
  /\ tpc = "walk" /\ walking # <<>>
  /\ \/ /\ text[walking] = NoSchema   \* resolves missing definition
        /\ tpc' = "failed" /\ walking' = <<>> /\ UNCHANGED <<generated, typesDone>>
     \/ /\ text[walking] # NoSchema /\ Instead(walking) # {}
        /\ \E d \in Instead(walking) :
             /\ typesDone' = typesDone \cup {d}
             /\ walking' = IF d \in typesDone THEN <<>> ELSE Target(Root(d))
        /\ UNCHANGED <<generated, tpc>>
     \/ /\ text[walking] # NoSchema /\ Instead(walking) = {}
        /\ generated' = generated \cup Marked(walking)
        /\ walking' = IF walking \in generated THEN <<>> ELSE Target(walking)
        /\ UNCHANGED <<typesDone, tpc>>
  /\ UNCHANGED <<text, manifest, names, chosen>>

-----------------------------------------------------------------------------
(* newGeneratedDefinitionNameResolver. A name is its prefix, its base and  *)
(* the number after it.                                                    *)

GoName(prefix, base) == <<prefix, base, 1>>
TopLevelName(d) == GoName("", TypeName(d))

Signature(i) == text[i]   \* with documentation

\* The definitions of a base name that no top-level type of this name equals,
\* its own definitions included, in the order of their paths.
Sources(n) ==
  LET reused(i) == \E d \in manifest : TypeName(d) = n /\ Definitions(d) = {} /\ Shape(i) = Shape(Root(d))
  IN  SelectSeq([k \in DOMAIN Documents |-> <<Documents[k], n>>], LAMBDA i : i \in generated /\ ~reused(i))

Equals(s, i) == {j \in ToSet(s) : Signature(j) = Signature(i)}
Firsts(s) == SelectSeq(s, LAMBDA i : \A k \in DOMAIN s : s[k] \in Equals(s, i) => \E l \in DOMAIN s : l <= k /\ s[l] = i)

\* Mutant: all that have the name share a type.
NameClaimsShared(n) == IF Sources(n) = <<>> THEN <<>> ELSE <<[who |-> ToSet(Sources(n)), name |-> GoName("", n)]>>

\* One claim for each signature; the names are scoped when there are several.
NameClaims(n) ==
  LET s == Sources(n)
      one == \A i, j \in ToSet(s) : Signature(i) = Signature(j)
  IN  IF s = <<>> THEN <<>>
      ELSE IF one THEN <<[who |-> ToSet(s), name |-> GoName("", n)]>>
      ELSE [k \in DOMAIN Firsts(s) |->
              [who |-> Equals(s, Firsts(s)[k]), name |-> GoName(TypeName(Firsts(s)[k][1]), n)]]

\* Mutant: a name is given away again.
claimGeneratedDefinitionTypeNameAgain(preferred, used) == preferred

claimGeneratedDefinitionTypeName(preferred, used) ==
  LET numbered(k) == <<preferred[1], preferred[2], k>>
  IN  numbered(CHOOSE k \in 1..Cardinality(used) + 1 :
                 numbered(k) \notin used /\ \A j \in 1..(k - 1) : numbered(j) \in used)

Grant(state, claim) ==
  LET name == claimGeneratedDefinitionTypeName(claim.name, state.used)
  IN  [used |-> state.used \cup {name},
       names |-> [i \in DOMAIN state.names \cup claim.who |-> IF i \in claim.who THEN name ELSE state.names[i]]]

ResolveName ==
  /\ tpc = "walk" /\ walking = <<>> /\ typesDone = manifest
  /\ names' = FoldLeft(Grant, [used |-> {TopLevelName(d) : d \in manifest}, names |-> <<>>],
                       NameClaims("X") \o NameClaims("Y")).names
  /\ tpc' = "select"
  /\ UNCHANGED <<text, manifest, typesDone, generated, walking, chosen>>

-----------------------------------------------------------------------------
(* SelectFirstPassGeneratedTypes.                                          *)

\* generatedDefinitionTypeName: a definition without a name is called as upstream does.
NameOf(i) == IF i[2] = "root" THEN TopLevelName(i[1]) ELSE IF i \in DOMAIN names THEN names[i] ELSE GoName("", i[2])

\* dedupeDefinitionTypeCandidates keeps the first definition of a name.
Candidates ==
  {Root(d) : d \in manifest}
    \cup {i \in DOMAIN names : \A j \in DOMAIN names : names[j] = names[i] =>
            \E k, l \in DOMAIN Documents : k <= l /\ Documents[k] = i[1] /\ Documents[l] = j[1]}

Conflict ==
  \/ \E i \in DOMAIN names, d \in manifest : names[i] = TopLevelName(d)
  \/ \E i, j \in DOMAIN names : names[i] = names[j] /\ Signature(i) # Signature(j)

Emitted == {NameOf(i) : i \in chosen}

\* Mutant: fields are not looked at.
canGenerateFirstPassAny(i) == TRUE

\* The type of every field has been selected.
canGenerateFirstPassType(i) == Target(i) # <<>> => NameOf(Target(i)) \in Emitted

Choose(i) ==
  /\ tpc = "select" /\ ~Conflict
  /\ i \in Candidates \ chosen /\ canGenerateFirstPassType(i)
  /\ chosen' = chosen \cup {i}
  /\ UNCHANGED <<text, manifest, typesDone, generated, walking, tpc, names>>

\* No candidate was selected in a whole pass, or two types have one name.
Chosen ==
  /\ tpc = "select"
  /\ Conflict \/ \A i \in Candidates \ chosen : ~canGenerateFirstPassType(i)
  /\ tpc' = IF Conflict THEN "failed" ELSE "done"
  /\ UNCHANGED <<text, manifest, typesDone, generated, walking, names, chosen>>

TypesNext ==
  \/ \E d \in DocSet : WalkRoot(d)
  \/ walkRef \/ ResolveName
  \/ \E i \in SchemaIds : Choose(i)
  \/ Chosen

TypesSpec == TypesInit /\ [][TypesNext]_typeVars

-----------------------------------------------------------------------------
(* What the types should be.                                               *)

Depth == 6   \* no reference leads further than there are schemas with one

\* The labels along the references of a schema, as far as they can differ.
Means[n \in 0..Depth] ==
  [i \in SchemaIds |-> IF n = 0 \/ Target(i) = <<>> THEN <<text[i].label>>
                 ELSE <<text[i].label>> \o Means[n - 1][Target(i)]]

\* The definitions that are reached from roots, where a definition whose meaning
\* a top-level type has leads on to that type's.
Reaches[n \in 0..Depth] ==
  IF n = 0 THEN {Target(Root(d)) : d \in manifest} \ {<<>>}
  ELSE LET before == Reaches[n - 1]
           on(i) == IF Instead(i) # {} THEN Target(Root(CHOOSE d \in Instead(i) : TRUE)) ELSE Target(i)
       IN  before \cup ({on(i) : i \in before} \ {<<>>})

\* In whatever order the roots are visited, exactly the definitions that they reach
\* are marked: the output of the generator does not depend on the order of a map.
ReachedExactly ==
  tpc = "select" => generated = {i \in Reaches[Depth] : Instead(i) = {}}

\* A definition that a top-level type takes the place of means the same, in depth:
\* its references may lead into another document than those of the top-level type
\* ("wire-identical local/top-level definitions may reuse an identity").
ReuseIsExact ==
  tpc = "select" => \A i \in Reaches[Depth] :
    \A d \in Instead(i) : Means[Depth][i] = Means[Depth][Root(d)]

\* Definitions of one name and different texts get names of their own, which no
\* top-level type has: names never make selection fail.
NamesApart == tpc \in {"select", "done"} => ~Conflict

\* Each way to follow a candidate's fields ends after finitely many types.
Ends[n \in 0..Depth] ==
  LET before == IF n = 0 THEN {} ELSE {NameOf(i) : i \in Ends[n - 1]}
  IN  {i \in Candidates : Target(i) = <<>> \/ NameOf(Target(i)) \in before}

\* Emitted are exactly the types whose fields end, each with the types of its fields:
\* no emitted field lacks its type, and only recursive structs are left out.
SelectedExactly == tpc = "done" => chosen = Ends[Depth]

\* Definitions that share an emitted type mean the same, in depth ("Proven identical
\* definitions may share a generated type"). The texts that are compared name what
\* they refer to, and two documents may define that name differently.
SharedMeansSame ==
  tpc = "done" => \A i, j \in DOMAIN names :
    names[i] = names[j] /\ names[i] \in Emitted => Means[Depth][i] = Means[Depth][j]

\* What is marked, named and emitted depends on the schemas alone, and is what they
\* call for.
TypesSound == TypesOK /\ ReachedExactly /\ ReuseIsExact /\ NamesApart /\ SelectedExactly
=============================================================================
