------------------------------ MODULE HotspotIp ------------------------------
(***************************************************************************)
(* The address on which the host announces itself: detect_hotspot_ip       *)
(* guesses the network adapter of the hotspot, compute_broadcast takes its *)
(* network to be a /24.                                                    *)
(*                                                                         *)
(* An IPv4 address is a sequence of four octets.  An adapter is a record   *)
(* [up, wireless, addresses]: OperStatus, whether the description holds    *)
(* one of the words looked for, and the unicast addresses.                 *)
(***************************************************************************)
EXTENDS Integers, Sequences

Octets   == 0..255
Adapters == Seq([up : BOOLEAN, wireless : BOOLEAN, addresses : Seq([1..4 -> Octets])])

Limited == <<255, 255, 255, 255>>     \* no adapter was found

Network(ip) == <<ip[1], ip[2], ip[3]>>

is_private_ip(ip) ==
  \/ ip[1] = 10
  \/ ip[1] = 172 /\ ip[2] \in 16..31
  \/ ip[1] = 192 /\ ip[2] = 168

WindowsHotspot == <<192, 168, 137>>
VirtualBox     == <<192, 168, 56>>

\* Where the nested loops come by: the place of an address is its adapter and
\* its number there.
Places(adapters) ==
  UNION {{<<i, j>> : j \in DOMAIN adapters[i].addresses} : i \in DOMAIN adapters}

Address(adapters, place) == adapters[place[1]].addresses[place[2]]
Addresses(adapters)      == {Address(adapters, place) : place \in Places(adapters)}

UpPlaces(adapters) == {place \in Places(adapters) : adapters[place[1]].up}

Before(p, q)  == p[1] < q[1] \/ (p[1] = q[1] /\ p[2] <= q[2])
First(places) == CHOOSE p \in places : \A q \in places : Before(p, q)

\* A pass that returns at the first of the places, or goes on.
FirstOr(adapters, places, otherwise) ==
  IF places = {} THEN otherwise ELSE Address(adapters, First(places))

Private(adapters, places) ==
  {place \in places : is_private_ip(Address(adapters, place))}

\* Mutation: the passes over descriptions and private addresses come first.
detect_on_windows_last(adapters) ==
  FirstOr(adapters, Private(adapters, UpPlaces(adapters)), Limited)

\* Three passes over the adapters that are up: the network of Windows' own
\* hotspot, a private address of a wireless adapter, and any private address
\* but VirtualBox's.
detect_on_windows(adapters) ==
  LET up       == UpPlaces(adapters)
      hotspot  == {place \in up : Network(Address(adapters, place)) = WindowsHotspot}
      wireless == {place \in up : adapters[place[1]].wireless}
      fallback == {place \in up : Network(Address(adapters, place)) /= VirtualBox}
  IN  FirstOr(adapters, hotspot,
        FirstOr(adapters, Private(adapters, wireless),
          FirstOr(adapters, Private(adapters, fallback), Limited)))

\* The first private address, of an adapter that is up or down.
detect_on_linux(adapters) ==
  FirstOr(adapters, Private(adapters, Places(adapters)), Limited)

detect_hotspot_ip(machine) ==
  IF machine.os = "windows" THEN detect_on_windows(machine.adapters)
                            ELSE detect_on_linux(machine.adapters)

compute_broadcast(ip) == [ip EXCEPT ![4] = 255]
=============================================================================
