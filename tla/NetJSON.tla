------------------------------ MODULE NetJSON ------------------------------
(***************************************************************************)
(* Configuration documents, and what internal/render/netjson does to them: *)
(* merging one document over another, replacing the objects that name a    *)
(* variable, expanding the strings that are templates.                     *)
(*                                                                         *)
(* A value is a function from the paths in it to what is there: an object, *)
(* a list or a leaf (a string).  A path is the sequence of steps, to a     *)
(* field of an object or to an item of a list, that leads there from the   *)
(* root <<>>.  The code recurses over values; here every operation says at *)
(* once which paths its result has, and what is there.  That the two are   *)
(* the same, step by step, is a property of RenderingAsWritten.            *)
(***************************************************************************)
EXTENDS Integers, FiniteSets, SequencesExt

CONSTANTS
  VarField, DefaultField,   \* "$var" and "default"
  Vars,        \* the variables of the device: a function from paths to strings
  Expansion    \* what a string that is a template expands to

ASSUME StringsAssumption ==
  /\ VarField \in STRING /\ DefaultField \in STRING
  /\ \A x \in DOMAIN Vars : Vars[x] \in STRING
  /\ \A x \in DOMAIN Expansion : Expansion[x] \in STRING

\* A string without "{{" is not a template.
ASSUME TemplatesAssumption == "" \notin DOMAIN Expansion

Field(k) == <<k, 0>>
Item(n) == <<"", n>>
Path == Seq(STRING \X Nat)

AnObject == [node |-> "object"]
AList == [node |-> "list"]
ALeaf(x) == [node |-> "leaf", text |-> x]
Node == [node : {"object", "list"}] \cup [node : {"leaf"}, text : STRING]

\* Values are finite, and what leads to a path is there: objects before fields,
\* lists before items.
IsValue(v) ==
  /\ v = [p \in DOMAIN v |-> v[p]]
  /\ IsFiniteSet(DOMAIN v)
  /\ <<>> \in DOMAIN v
  /\ \A p \in DOMAIN v :
       /\ p \in Path /\ v[p] \in Node
       /\ \A n \in 1 .. Len(p) :
            /\ SubSeq(p, 1, n - 1) \in DOMAIN v
            /\ v[SubSeq(p, 1, n - 1)] =
                 IF p[n][2] = 0 THEN AnObject ELSE AList

IsObject(v, p) == p \in DOMAIN v /\ v[p].node = "object"
IsList(v, p) == p \in DOMAIN v /\ v[p].node = "list"
IsLeaf(v, p) == p \in DOMAIN v /\ v[p].node = "leaf"
IsDocument(v) == IsValue(v) /\ IsObject(v, <<>>)

\* Go's nil map, JSON's null at the top of a template: nothing is there.
Nil == <<>>
EmptyObject == [p \in {<<>>} |-> AnObject]
LeafValue(x) == [p \in {<<>>} |-> ALeaf(x)]

\* The value at path q of v.
ValueAt(v, q) ==
  [r \in {SubSeq(p, Len(q) + 1, Len(p)) : p \in {p \in DOMAIN v : IsPrefix(q, p)}}
     |-> v[q \o r]]

\* The numbers in S by ascending key, those with one key in their own order.
Sorted(S, key) ==
  [n \in 1 .. Cardinality(S) |->
     CHOOSE x \in S :
       Cardinality({y \in S : \/ key[y] < key[x]
                              \/ key[y] = key[x] /\ y < x}) = n - 1]

\* sort.SliceStable by ascending priority
ByPriority(list) ==
  LET order == Sorted(DOMAIN list, [n \in DOMAIN list |-> list[n].priority])
  IN [n \in 1 .. Len(list) |-> list[order[n]]]

\* Slips, each the next operation as a plausible mistake would have it: the
\* run is shown to notice every one of them.  Here fields are replaced whole.
ShallowMerge(dst, src) ==
  LET kept == {p \in DOMAIN dst : \A q \in DOMAIN src \ {<<>>} : ~IsPrefix(q, p)}
  IN [p \in kept \cup DOMAIN src |-> IF p \in DOMAIN src THEN src[p] ELSE dst[p]]

\* All of src is there, and of dst what src has nothing in the way of: where
\* both have something on the way to it, both have objects.  Over a nil map
\* that is src.
DeepMerge(dst, src) ==
  LET kept == {p \in DOMAIN dst :
                 \A q \in DOMAIN src :
                   IsPrefix(q, p) => IsObject(dst, q) /\ IsObject(src, q)}
  IN [p \in kept \cup DOMAIN src |-> IF p \in DOMAIN src THEN src[p] ELSE dst[p]]

\* There is an object at q, and it names a variable.
IsVar(v, q) == IsObject(v, q) /\ IsLeaf(v, Append(q, Field(VarField)))
PathOf(v, q) == v[Append(q, Field(VarField))].text

\* The objects that are replaced: in one that names a variable no other is
\* looked for, whatever becomes of it.
Outermost(v) ==
  {q \in DOMAIN v : /\ IsVar(v, q)
                    /\ \A r \in DOMAIN v : IsVar(v, r) /\ IsPrefix(r, q) => r = q}

\* The variable, or else the default, or else the object as it is.
Replacement(v, q) ==
  LET default == Append(q, Field(DefaultField))
  IN IF PathOf(v, q) \in DOMAIN Vars THEN LeafValue(Vars[PathOf(v, q)])
     ELSE IF default \in DOMAIN v THEN ValueAt(v, default) ELSE ValueAt(v, q)

\* v with the value new[q] at each path q of those in tops
Replaced(v, tops, new) ==
  LET kept == {p \in DOMAIN v : \A q \in tops : ~IsPrefix(q, p)}
      put == UNION {{q \o r : r \in DOMAIN new[q]} : q \in tops}
      top(p) == CHOOSE q \in tops : IsPrefix(q, p)
  IN [p \in kept \cup put |->
        IF p \in kept THEN v[p]
        ELSE new[top(p)][SubSeq(p, Len(top(p)) + 1, Len(p))]]

\* Slip: what is in a list is not looked at.
WalkObjects(v) ==
  LET tops == {q \in Outermost(v) : \A p \in DOMAIN v : IsPrefix(p, q) => ~IsList(v, p)}
  IN Replaced(v, tops, [q \in tops |-> Replacement(v, q)])

Walk(v) == Replaced(v, Outermost(v), [q \in Outermost(v) |-> Replacement(v, q)])

\* Slip: the strings of an object that still names a variable are left alone.
ExpandReplaced(v) ==
  [p \in DOMAIN v |->
     IF /\ IsLeaf(v, p) /\ v[p].text \in DOMAIN Expansion
        /\ \A q \in DOMAIN v : IsPrefix(q, p) => ~IsVar(v, q)
     THEN ALeaf(Expansion[v[p].text]) ELSE v[p]]

\* Parsing and execution errors leave the string as it is.
Expand(v) ==
  [p \in DOMAIN v |-> IF IsLeaf(v, p) /\ v[p].text \in DOMAIN Expansion
                      THEN ALeaf(Expansion[v[p].text]) ELSE v[p]]

\* What does not come out as an object becomes the nil map.
AsObject(v) == IF v = Nil THEN EmptyObject ELSE v
OrNil(v) == IF IsObject(v, <<>>) THEN v ELSE Nil

\* What the documentation of Merge says, of the first k templates at once.  A
\* path of the n-th stands if no later template has something in its way: on
\* the way to it, wherever both have something, both have objects.
Stands(list, k, n, p) ==
  /\ n \in 1 .. k
  /\ p \in DOMAIN list[n].json
  /\ \A m \in n + 1 .. k : \A q \in DOMAIN list[m].json :
       IsPrefix(q, p) => IsObject(list[n].json, q) /\ IsObject(list[m].json, q)
MergedAtOnce(list, k) ==
  [p \in UNION {{p \in DOMAIN list[n].json : Stands(list, k, n, p)} : n \in 1 .. k}
     |-> list[CHOOSE n \in 1 .. k : Stands(list, k, n, p)].json[p]]
=============================================================================
