----------------------------- MODULE Rendering -----------------------------
(***************************************************************************)
(* From the templates to the archive: what Reconcile does between reading  *)
(* a row and comparing checksums (internal/controller/reconcile.go).  The  *)
(* templates are overlaid from the lowest priority up, one at a time;      *)
(* variables are replaced and strings expanded; the overlay of the         *)
(* management VPN is merged over the result; the files are rendered and    *)
(* packed.  NetJSON and UCI say what each of these does to a document.     *)
(***************************************************************************)
EXTENDS UCI

CONSTANTS
  SourceLists,   \* the lists of templates to start from
  Modes,         \* modes of the management VPN
  OverlayOf,     \* per mode, the document it merges in; Nil for "none"
  DeviceNames

\* Templates are decoded into maps: objects, or the nil map.
ASSUME SourcesAssumption ==
  \A list \in SourceLists :
    /\ Len(list) \in Nat /\ DOMAIN list = 1 .. Len(list)
    /\ \A n \in DOMAIN list : /\ list[n].priority \in Int
                              /\ list[n].json = Nil \/ IsDocument(list[n].json)

\* No overlay speaks of the system.
ASSUME OverlayAssumption ==
  \A m \in Modes :
    \/ OverlayOf[m] = Nil
    \/ IsDocument(OverlayOf[m]) /\ <<Field("system")>> \notin DOMAIN OverlayOf[m]

\* The names of devices are strings, as the names of fields are.
ASSUME NamesAssumption == DeviceNames \cup {"system", "hostname"} \subseteq STRING

ASSUME ModesAssumption ==
  Modes \subseteq {"none", "wireguard", "openvpn", "zerotier"}

VARIABLES sources,   \* the templates, in the order they are merged
          mode, name,
          pc, i,
          out,       \* the document as it is now
          files, archive

vars == <<sources, mode, name, pc, i, out, files, archive>>

Init ==
  /\ \E list \in SourceLists : sources = ByPriority(list)
  /\ mode \in Modes /\ name \in DeviceNames
  /\ pc = "merge" /\ i = 1
  /\ out = IF sources = <<>> THEN EmptyObject ELSE Nil
  /\ files = <<>> /\ archive = <<>>

\* One turn of the loop of Merge.
MergeNext ==
  /\ pc = "merge" /\ i <= Len(sources)
  /\ out' = IF sources[i].json = Nil THEN out
            ELSE DeepMerge(out, sources[i].json)
  /\ i' = i + 1
  /\ UNCHANGED <<sources, mode, name, pc, files, archive>>

Merged ==
  /\ pc = "merge" /\ i > Len(sources)
  /\ pc' = "vars"
  /\ UNCHANGED <<sources, mode, name, i, out, files, archive>>

ApplyVarObjects ==
  /\ pc = "vars"
  /\ out' = OrNil(Walk(AsObject(out)))
  /\ pc' = "strings"
  /\ UNCHANGED <<sources, mode, name, i, files, archive>>

ApplyStringTemplates ==
  /\ pc = "strings"
  /\ out' = Expand(AsObject(out))
  /\ pc' = "overlay"
  /\ UNCHANGED <<sources, mode, name, i, files, archive>>

\* Slip: the templates are merged over the overlay.
MergeUnderOverlay ==
  /\ pc = "overlay"
  /\ out' = IF OverlayOf[mode] = Nil THEN out ELSE DeepMerge(OverlayOf[mode], out)
  /\ pc' = "render"
  /\ UNCHANGED <<sources, mode, name, i, files, archive>>

MergeOverlay ==
  /\ pc = "overlay"
  /\ out' = IF OverlayOf[mode] = Nil THEN out ELSE DeepMerge(out, OverlayOf[mode])
  /\ pc' = "render"
  /\ UNCHANGED <<sources, mode, name, i, files, archive>>

RenderFiles ==
  /\ pc = "render"
  /\ files' = RenderAll(out, name)
  /\ pc' = "build"
  /\ UNCHANGED <<sources, mode, name, i, out, archive>>

ExtraOf == CASE mode = "wireguard" -> {"wg0.conf"}
             [] mode = "openvpn" -> {"ca.crt", "client.crt", "client.key"}
             [] OTHER -> {}

BuildArchive ==
  /\ pc = "build"
  /\ archive' = Build(files, ExtraOf)
  /\ pc' = "done"
  /\ UNCHANGED <<sources, mode, name, i, out, files>>

Done == pc = "done" /\ UNCHANGED vars

Next == \/ MergeNext \/ Merged \/ ApplyVarObjects \/ ApplyStringTemplates
        \/ MergeOverlay \/ RenderFiles \/ BuildArchive \/ Done

Spec == Init /\ [][Next]_vars

-----------------------------------------------------------------------------
Merge == MergedAtOnce(sources, Len(sources))

Templated == Expand(AsObject(OrNil(Walk(AsObject(Merge)))))
Overlaid == IF OverlayOf[mode] = Nil THEN Templated
            ELSE DeepMerge(Templated, OverlayOf[mode])

\* The templates are in the order of their priorities; what there is of the
\* document has everything that leads to what is in it; out, files and archive
\* are, at every point of the way, the merge of the templates met so far, and
\* then what each step makes of the one before.
Inv ==
  /\ mode \in Modes /\ name \in DeviceNames
  /\ Len(sources) \in Nat /\ (sources = <<>> <=> Len(sources) = 0)
  /\ \A n \in 1 .. Len(sources) : sources[n].json = Nil \/ IsDocument(sources[n].json)
  /\ \A n \in 1 .. Len(sources) : \A m \in 1 .. n :
       sources[m].priority <= sources[n].priority
  /\ i \in 1 .. Len(sources) + 1
  /\ out = Nil \/ IsDocument(out)
  /\ pc = "merge" =>
       out = IF sources = <<>> THEN EmptyObject ELSE MergedAtOnce(sources, i - 1)
  /\ pc = "vars" => AsObject(out) = AsObject(Merge)
  /\ pc = "strings" => out = OrNil(Walk(AsObject(Merge)))
  /\ pc = "overlay" => out = Templated
  /\ pc \in {"render", "build", "done"} => out = Overlaid
  /\ pc \in {"build", "done"} => files = RenderAll(Overlaid, name)
  /\ pc = "done" => archive = Build(RenderAll(Overlaid, name), ExtraOf)

\* Overlaying the templates one by one gives the document in which, wherever
\* templates conflict, the one with the greatest priority has won, and the
\* later of two with the same priority.
PriorityWins == pc = "vars" => AsObject(out) = AsObject(Merge)

\* After the objects that name a variable are replaced, one that names a
\* variable the device has is left only where walk does not look: in an object
\* of the templates that names an unknown one, or in its default, or where the
\* name itself came out of a variable or a default.
VarsReplaced ==
  pc = "strings" =>
    \A p \in DOMAIN out : IsVar(out, p) /\ PathOf(out, p) \in DOMAIN Vars =>
      \E q \in DOMAIN Merge :
        /\ IsVar(Merge, q)
        /\ \/ IsPrefix(q, p) /\ PathOf(Merge, q) \notin DOMAIN Vars
           \/ q = Append(p, Field(VarField))

\* Every template string is expanded, those that came in with a variable or a
\* default included; what an expansion gives is not expanded again.
StringsExpanded ==
  pc = "overlay" =>
    \A p \in DOMAIN out : IsLeaf(out, p) /\ out[p].text \in DOMAIN Expansion =>
      \E x \in DOMAIN Expansion : out[p].text = Expansion[x]

\* Whatever the templates say, the parameters of the management VPN are those
\* of the server's configuration when the files are rendered, and where these
\* have a list or a string there is nothing else.
OverlayWins ==
  pc = "render" =>
    \A p \in DOMAIN OverlayOf[mode] :
      /\ p \in DOMAIN out /\ out[p] = OverlayOf[mode][p]
      /\ ~IsObject(OverlayOf[mode], p) =>
           \A q \in DOMAIN out : IsPrefix(p, q) => q \in DOMAIN OverlayOf[mode]

System == <<Field("system")>>
HostnameIs(hostname) ==
  Unpacked(archive, "system") =
    <<[type |-> "system", options |-> {<<"hostname", hostname>>}]>>
Expanded(s) == IF s \in DOMAIN Expansion THEN Expansion[s] ELSE s
NoVarAt(path) == \A n \in 1 .. Len(sources) :
                   Append(path, Field(VarField)) \notin DOMAIN sources[n].json

\* Of the templates that speak of the system, none with an object that names a
\* variable, the last one decides the hostname the device unpacks if it has
\* one; the name of the device is used when none of them speaks of it, and
\* "OpenWrt" when it has no name.  A template that names a variable at its top
\* is replaced as a whole.
HostnameDecided ==
  pc = "done" /\ NoVarAt(<<>>) =>
    LET given == {n \in 1 .. Len(sources) : System \in DOMAIN sources[n].json}
        last == CHOOSE n \in given : \A m \in given : m <= n
        hostname == Expanded(StringAt(sources[last].json, <<"system", "hostname">>))
    IN IF given = {} THEN HostnameIs(IF name = "" THEN "OpenWrt" ELSE name)
       ELSE NoVarAt(System) /\ hostname # "" => HostnameIs(hostname)

\* In each file the device unpacks are the sections of one object of the
\* document: where two are written to one path, of the one that is looked for
\* last.  Nothing comes from an object the document does not have.
FilesUnpacked ==
  pc = "done" =>
    \A file \in {FileOf(Roots[n]) : n \in DOMAIN Roots} :
      LET writers == {n \in DOMAIN Roots : FileOf(Roots[n]) = file
                                           /\ ObjectAt(out, <<Roots[n]>>)}
      IN Unpacked(archive, file) =
           IF writers = {} THEN <<>> ELSE Sections(out, Roots[Max(writers)])

\* An interface the document names has its section in the network file of the
\* device.
NamedInterfacesRendered ==
  pc = "done" =>
    \A n \in DOMAIN Elements(out, <<"network", "interfaces">>) :
      LET interface == StringAt(Elements(out, <<"network", "interfaces">>)[n],
                                <<"name">>)
      IN interface # "" =>
           \E m \in DOMAIN Unpacked(archive, "network") :
             <<"name", interface>> \in Unpacked(archive, "network")[m].options
=============================================================================
