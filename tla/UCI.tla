-------------------------------- MODULE UCI --------------------------------
(***************************************************************************)
(* The files of a device, rendered from its document (internal/render/uci),*)
(* and their order in the archive (internal/tarball).                      *)
(*                                                                         *)
(* A file is its path and its sections; a section is its type and the      *)
(* string options that are not empty.  Numbers, booleans and lists of      *)
(* strings within a section are left out.                                  *)
(***************************************************************************)
EXTENDS NetJSON

\* getString and strAt: go down the path, and expect a string there.
Names(names) == [n \in 1 .. Len(names) |-> Field(names[n])]
StringAt(v, names) ==
  IF IsLeaf(v, Names(names)) THEN v[Names(names)].text ELSE ""
ObjectAt(v, names) == IsObject(v, Names(names))

\* The elements of the list at the path, none when there is no list.
Elements(v, names) ==
  LET path == Names(names)
      items == {p \in DOMAIN v : Len(p) = Len(path) + 1 /\ IsPrefix(path, p)}
  IN IF IsList(v, path)
     THEN [n \in 1 .. Cardinality(items) |-> ValueAt(v, Append(path, Item(n)))]
     ELSE <<>>

\* getString takes a path.  The calls that mean to give a default give it as
\* the last name of the path.
Options(m, calls) ==
  {<<call[1], StringAt(m, call)>> : call \in {c \in calls : StringAt(m, c) # ""}}
Section(type, m, calls) == [type |-> type, options |-> Options(m, calls)]

\* One section for each element of a list; some are left out without a name.
Each(list, type, calls) ==
  [n \in 1 .. Len(list) |-> Section(type, list[n], calls)]
EachNamed(list, name, type, calls) ==
  Each(SelectSeq(list, LAMBDA m : StringAt(m, name) # ""), type, calls)

\* What the eight render functions make of the object they look for.
Sections(nj, root) ==
  LET at(field) == Elements(nj, <<root, field>>)
      object == ValueAt(nj, Names(<<root>>))
  IN CASE root = "network" ->
            EachNamed(at("interfaces"), <<"name", "">>, "interface",
              {<<"name", "">>, <<"proto", "static">>, <<"ipaddr", "">>,
               <<"netmask", "">>, <<"gateway", "">>})
       [] root = "wireless" ->
            EachNamed(at("radios"), <<"name", "">>, "wifi-device",
              {<<"name", "">>, <<"hwmode", "">>, <<"channel", "auto">>,
               <<"country", "">>})
            \o Each(at("interfaces"), "wifi-iface",
                 {<<"device", "">>, <<"mode", "ap">>, <<"ssid", "">>,
                  <<"encryption", "psk2">>, <<"key", "">>,
                  <<"network", "lan">>})
       [] root = "dhcp" ->
            EachNamed(at("servers"), <<"interface", "">>, "dhcp",
              {<<"interface", "">>, <<"leasetime", "12h">>})
       [] root = "firewall" ->
            EachNamed(at("zones"), <<"name", "">>, "zone",
              {<<"name", "">>, <<"input", "ACCEPT">>, <<"output", "ACCEPT">>,
               <<"forward", "REJECT">>})
            \o Each(at("rules"), "rule",
                 {<<"name", "rule">>, <<"src", "">>, <<"dest", "">>,
                  <<"proto", "tcpudp">>, <<"target", "ACCEPT">>,
                  <<"dest_port", "">>, <<"family", "">>})
       [] root = "wireguard" ->
            <<Section("interface", object,
                {<<"interface", "wg0">>, <<"private_key", "">>,
                 <<"address", "">>})>>
            \o Each(at("peers"), "wireguard_peer",
                 {<<"public_key", "">>, <<"preshared_key", "">>,
                  <<"endpoint", "">>})
       [] root = "openvpn" ->
            Each(at("clients"), "openvpn",
              {<<"name", "client">>, <<"remote", "">>, <<"proto", "udp">>,
               <<"cipher", "AES-256-GCM">>, <<"auth", "SHA256">>,
               <<"config_file", "">>})
       [] root = "zerotier" -> <<Section("zerotier", object, {})>>

\* The objects looked for, in this order, and the file each is written to.
Roots == <<"network", "wireless", "dhcp", "firewall", "wireguard", "openvpn",
           "zerotier">>
FileOf(root) == IF root = "wireguard" THEN "network" ELSE root

\* Slip: the name of the device comes first.
HostnameOfDevice(nj, name) ==
  IF name # "" THEN name ELSE StringAt(nj, <<"system", "hostname">>)

\* The hostname is the document's, or the name of the device, or a default.
Hostname(nj, name) ==
  LET given == StringAt(nj, <<"system", "hostname">>)
  IN IF given # "" THEN given ELSE IF name # "" THEN name ELSE "OpenWrt"

RenderSystem(nj, name) ==
  [name |-> "system",
   sections |-> <<[type |-> "system",
                   options |-> {<<"hostname", Hostname(nj, name)>>}]>>]

\* Slip: from the last to the first.
PickedLastFirst(list, places) ==
  LET order == Sorted(places, [n \in places |-> -n])
  IN [n \in 1 .. Cardinality(places) |-> list[order[n]]]

\* Those elements of list whose places are given, in their order.
Picked(list, places) ==
  LET order == Sorted(places, [n \in places |-> n])
  IN [n \in 1 .. Cardinality(places) |-> list[order[n]]]

RenderAll(nj, name) ==
  LET present == Picked(Roots, {n \in DOMAIN Roots : ObjectAt(nj, <<Roots[n]>>)})
  IN <<RenderSystem(nj, name)>>
     \o [n \in 1 .. Len(present) |->
           [name |-> FileOf(present[n]), sections |-> Sections(nj, present[n])]]

\* The order of paths: UCI files are sorted, the other files come after them,
\* sorted as well.  With less than a dozen files, sort.Slice leaves those with
\* the same path in the order they had.
PathOrder == <<"dhcp", "firewall", "network", "openvpn", "system", "wireless",
               "zerotier">>
ExtraOrder == <<"ca.crt", "client.crt", "client.key", "wg0.conf">>

Build(files, extra) ==
  LET rank == [n \in DOMAIN files |-> CHOOSE r \in DOMAIN PathOrder :
                                         PathOrder[r] = files[n].name]
      order == Sorted(DOMAIN files, rank)
      others == Picked(ExtraOrder, {n \in DOMAIN ExtraOrder : ExtraOrder[n] \in extra})
  IN [n \in 1 .. Len(files) |-> files[order[n]]]
     \o [n \in 1 .. Len(others) |-> [name |-> others[n], sections |-> <<>>]]

\* The device unpacks the archive: of two files with one path the last stays.
Unpacked(archive, path) ==
  LET places == {n \in DOMAIN archive : archive[n].name = path}
  IN IF places = {} THEN <<>> ELSE archive[Max(places)].sections
=============================================================================
