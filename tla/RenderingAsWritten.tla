------------------------- MODULE RenderingAsWritten -------------------------
(***************************************************************************)
(* The recursive functions of internal/render/netjson/merge.go as they are *)
(* written, field by field and item by item, as a reference for the        *)
(* operators of NetJSON.                                                   *)
(***************************************************************************)
EXTENDS Rendering

\* The keys and indices of a value, and what is below one of them.
Steps(v) == {p[1] : p \in DOMAIN v \ {<<>>}}
Child(v, s) == ValueAt(v, <<s>>)

\* A value from what it is and from the values below it.
Assembled(node, children) ==
  [p \in {<<>>} \cup UNION {{<<s>> \o r : r \in DOMAIN children[s]} : s \in DOMAIN children}
     |-> IF p = <<>> THEN node ELSE children[Head(p)][Tail(p)]]

\* What one call returns, from its arguments and from what the calls it makes
\* return (below).
Shared(dst, src) ==
  {s \in Steps(dst) \cap Steps(src) : IsObject(dst, <<s>>) /\ IsObject(src, <<s>>)}
deepMergeCall(dst, src, below) ==
  IF dst = Nil THEN src
  ELSE Assembled(AnObject, [s \in Steps(dst) \cup Steps(src) |->
         IF s \notin Steps(src) THEN Child(dst, s)
         ELSE IF s \in Shared(dst, src) THEN below[s] ELSE Child(src, s)])

\* A default is put in place, and an object that names an unknown variable is
\* kept, without a look at what is in it.
walkCall(x, below) ==
  IF IsVar(x, <<>>)
  THEN IF PathOf(x, <<>>) \in DOMAIN Vars THEN LeafValue(Vars[PathOf(x, <<>>)])
       ELSE IF Field(DefaultField) \in Steps(x) THEN Child(x, Field(DefaultField))
       ELSE x
  ELSE IF IsLeaf(x, <<>>) THEN x
  ELSE Assembled(x[<<>>], below)

renderCall(x, below) ==
  IF ~IsLeaf(x, <<>>) THEN Assembled(x[<<>>], below)
  ELSE IF x[<<>>].text \in DOMAIN Expansion THEN LeafValue(Expansion[x[<<>>].text])
  ELSE x

\* The recursion is over what is in a value.
Parts(x) == {ValueAt(x, q) : q \in DOMAIN x}

deepMerge(dst, src) ==
  LET call[z \in (Parts(dst) \cup {dst}) \X Parts(src)] ==
        deepMergeCall(z[1], z[2],
          [s \in Shared(z[1], z[2]) |-> call[<<Child(z[1], s), Child(z[2], s)>>]])
  IN call[<<dst, src>>]

walk(x) ==
  LET call[y \in Parts(x)] == walkCall(y, [s \in Steps(y) |-> call[Child(y, s)]])
  IN call[x]

render(x) ==
  LET call[y \in Parts(x)] == renderCall(y, [s \in Steps(y) |-> call[Child(y, s)]])
  IN call[x]

-----------------------------------------------------------------------------
\* Merging, replacing and expanding are what the recursive functions compute,
\* on every document that is met on the way.
AsWritten ==
  [][/\ MergeNext => out' = IF sources[i].json = Nil THEN out
                            ELSE deepMerge(out, sources[i].json)
     /\ ApplyVarObjects => out' = OrNil(walk(AsObject(out)))
     /\ ApplyStringTemplates => out' = render(AsObject(out))
     /\ MergeOverlay => out' = IF OverlayOf[mode] = Nil THEN out
                               ELSE deepMerge(out, OverlayOf[mode])]_vars
=============================================================================
