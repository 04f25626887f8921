---------------------------- MODULE MCRendering ----------------------------
(***************************************************************************)
(* Documents for TLC: up to three templates that speak of the system, of   *)
(* the network and of the VPN, with variables, defaults and template       *)
(* strings at every level the code treats differently.                     *)
(***************************************************************************)
EXTENDS RenderingAsWritten

\* Values, written as they are nested.
Str(s) == LeafValue(s)
Obj(fields) == Assembled(AnObject, [s \in {Field(k) : k \in DOMAIN fields} |-> fields[s[1]]])
Seqn(items) == Assembled(AList, [s \in {Item(n) : n \in DOMAIN items} |-> items[s[2]]])

Known == VarField :> Str("device_name")
UnknownVar == VarField :> Str("site")

Systems == {Str("device_name"), EmptyObject,
            Obj("hostname" :> Str("gw")),
            Obj("hostname" :> Obj(Known)),
            Obj("hostname" :> Str("{{ x }}") @@ UnknownVar),
            Obj(Known),
            Obj(UnknownVar @@ DefaultField :> Str("{{ x }}")),
            Obj(UnknownVar @@ DefaultField :> Obj(Known)),
            Obj(VarField :> Obj(VarField :> Str("model"))),
            Seqn(<<Str("{{ x }}"), Obj(Known)>>)}
Network == Obj("interfaces" :> Seqn(<<Obj("name" :> Str("lan"))>>))
Tunnel == Obj("interface" :> Str("tun9") @@ "mtu" :> Str("1400"))

Documents1 == {Obj("system" :> s) : s \in Systems}
              \cup {Obj("system" :> Obj("zone" :> Str("utc"))
                        @@ "network" :> Network),
                    Obj("wireguard" :> Tunnel), Obj("zerotier" :> Str("off")),
                    Obj(UnknownVar @@ DefaultField :> Obj("system" :> Obj("hostname" :> Str("top")))),
                    EmptyObject, Nil}
Template == [priority : {1, 2}, json : Documents1]
Lists == UNION {[1 .. n -> Template] : n \in 0 .. 2}
         \cup {l \in [1 .. 3 -> Template] : \A n \in 1 .. 3 :
                                              l[n].priority = IF n = 1 THEN 2 ELSE 1}

\* Every list of section the renderer knows, once.
Everything ==
  {<<[priority |-> 1, json |-> Obj(
        "network" :> Network
        @@ "wireless" :> Obj("radios" :> Seqn(<<Obj("name" :> Str("radio0"))>>)
                           @@ "interfaces" :> Seqn(<<Obj("ssid" :> Str("net"))>>))
        @@ "dhcp" :> Obj("servers" :> Seqn(<<Obj("interface" :> Str("lan"))>>))
        @@ "firewall" :> Obj("zones" :> Seqn(<<Obj("name" :> Str("lan"))>>)
                           @@ "rules" :> Seqn(<<Obj("target" :> Str("DROP"))>>)))]>>}
AllLists == Lists \cup Everything

\* A device may have the name of a variable as its model, and its name may be
\* a template string.
DeviceVars == "device_name" :> "{{ x }}" @@ "model" :> "device_name"
Expansions == "{{ x }}" :> "ap-1"

Overlays ==
  "none" :> Nil
  @@ "wireguard" :> Obj("wireguard" :> Obj(
       "interface" :> Str("wg0") @@ "private_key" :> Str("secret")
       @@ "peers" :> Seqn(<<Obj("public_key" :> Str("server"))>>)))
  @@ "openvpn" :> Obj("openvpn" :> Obj(
       "clients" :> Seqn(<<Obj("name" :> Str("client"))>>)))
  @@ "zerotier" :> Obj("zerotier" :> Obj("networks" :> Seqn(<<Str("8056")>>)))
=============================================================================
