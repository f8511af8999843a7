----------------------------- MODULE NetworkPlan -----------------------------
(***************************************************************************)
(* The network of a gateway, checked three times by code that shares       *)
(* nothing: when settings are saved (lib.rs), when the launch plan of the  *)
(* VM is built (vfkit.rs), and in the VM, from the kernel command line     *)
(* that plan carries (guest-agent/boot_config.rs).  A check that is        *)
(* stricter downstream costs a start: the VM boots and its agent never     *)
(* comes up.                                                               *)
(*                                                                         *)
(* Addresses have Width bits where the code has 32; the bounds 0, 1 and 30 *)
(* of a prefix become 0, 1 and Width - 2.                                  *)
(***************************************************************************)
EXTENDS Naturals, FiniteSets

CONSTANTS
  Width,           \* bits of an address
  Cidrs,           \* the networks that are entered: <<address, prefix>>
  Physical,        \* the network of the physical interface, by ifconfig
  LanSelectors,    \* what is entered as the selector of the LAN card ...
  HostSelectors,   \* ... and of the host-only card
  Extras,          \* what else is entered for the kernel command line
  Blank            \* an empty field

Addr == 0..(2 ^ Width - 1)
LanDefault == [by |-> "if", value |-> "eth0"]
HostDefault == [by |-> "if", value |-> "eth1"]
LanMac == "02:00:00:00:00:11"
HostMac == "02:00:00:00:00:22"

ASSUME NetworkAssumption ==
  /\ Width \in Nat /\ Width >= 3
  /\ Cidrs \subseteq Addr \X (0..Width)
  /\ Physical \in Addr \X (0..Width)
  /\ Extras \subseteq {"none", "reserved", "ifnames"}

VARIABLES
  stage,           \* how far the settings have come
  lan,             \* gateway_cidr, gateway_ip, gateway_upstream_gateway
  host,            \* gateway_host_cidr, gateway_host_ip, gateway_guest_host_ip
  plan,            \* VfkitGatewayPlan: the command lines
  guest            \* ResolvedGuestNetwork

vars == <<stage, lan, host, plan, guest>>

-------------------------------------------------------------------------------
(* Networks.                                                               *)

Size(prefix) == 2 ^ (Width - prefix)
Net(cidr) == cidr[1] - (cidr[1] % Size(cidr[2]))
Broadcast(cidr) == Net(cidr) + Size(cidr[2]) - 1

\* Of two sizes the smaller divides the larger: they are powers of two.
ASSUME SizesAssumption ==
  \A p \in 0..Width :
    /\ Size(p) \in Nat \ {0}
    /\ \A q \in p..Width : \E k \in 1..Size(p) : Size(p) = k * Size(q)

\* address & prefix_mask(prefix) == network
Contains(cidr, a) == Net(<<a, cidr[2]>>) = Net(cidr)

Unicast(cidr, a) == Contains(cidr, a) /\ a \notin {Net(cidr), Broadcast(cidr)}

\* Mutant: only the wider network is looked for in the narrower one.
OverlapsOneWay(c, d) == Contains(c, Net(d))

\* cidr_overlaps and Ipv4Cidr::overlaps: one contains the base of the other.
Overlaps(c, d) == Contains(c, Net(d)) \/ Contains(d, Net(c))

\* parse_ipv4_cidr and Ipv4Cidr::parse take 1-30, parse_cidr of vfkit.rs 0-30.
PrefixAccepted(cidr, least) == cidr[2] \in least..(Width - 2)

-------------------------------------------------------------------------------
(* Saving settings: lib.rs.                                                *)

\* gateway_cidr_for_runtime
LanCidr(l) == IF l.cidr = Blank THEN Physical ELSE l.cidr

\* validate_gateway_network: the upstream gateway is not looked at here.
GatewayNetworkValid(l) ==
  /\ PrefixAccepted(LanCidr(l), 1)
  /\ Unicast(LanCidr(l), l.ip)

\* validate_vfkit_settings
VfkitSettingsValid(h) ==
  /\ h.ip # h.guest
  /\ PrefixAccepted(h.cidr, 1)
  /\ Contains(h.cidr, h.ip) /\ Contains(h.cidr, h.guest)

-------------------------------------------------------------------------------
(* The launch plan: vfkit.rs.                                              *)

\* Mutant: the upstream gateway may be the address of the gateway itself.
AddressesValidCareless(l, h) ==
  /\ Unicast(l.cidr, l.ip) /\ Unicast(l.cidr, l.up)
  /\ Unicast(h.cidr, h.ip) /\ Unicast(h.cidr, h.guest)
  /\ ~Overlaps(l.cidr, h.cidr)

\* validate_network_addresses
AddressesValid(l, h) ==
  /\ Unicast(l.cidr, l.ip) /\ Unicast(l.cidr, l.up) /\ l.ip # l.up
  /\ Unicast(h.cidr, h.ip) /\ Unicast(h.cidr, h.guest)
  /\ ~Overlaps(l.cidr, h.cidr)

\* effective_selector
Effective(sel, default) == IF sel = Blank THEN default ELSE sel

\* validate: what build_runtime_plan may be given.  The checks of one value alone
\* (files, processors, memory, port, DNS server, socket paths) are left out.
PlanValid(l, h, lanSel, hostSel) ==
  /\ l.cidr # Blank
  /\ PrefixAccepted(l.cidr, 0) /\ PrefixAccepted(h.cidr, 0)
  /\ AddressesValid(l, h)
  /\ Effective(lanSel, LanDefault) # Effective(hostSel, HostDefault)
  /\ h.ip # h.guest

\* Mutant: the pinned addresses are swapped.
SelectorMacSwapped(sel, default, mac) ==
  IF Effective(sel, default).by = "mac" THEN Effective(sel, default).value
  ELSE IF mac = LanMac THEN HostMac ELSE LanMac

\* selector_mac: a card keeps the MAC that selects it, or a pinned one.
SelectorMac(sel, default, mac) ==
  IF Effective(sel, default).by = "mac" THEN Effective(sel, default).value ELSE mac

\* host_network_options: the range vmnet leases from starts at the host.
LeaseRange(h) == <<h.ip, Broadcast(h.cidr) - 1>>

\* guest_lan_mac: the MAC the host derives the guest's global IPv6 address from.
GlobalMac(sel) == IF sel = Blank \/ sel.by = "if" THEN LanMac ELSE sel.value

\* guest_cmdline: an extra token may not override what songsterx says; unless the
\* naming is overridden, the cards are called eth0 and eth1.
CmdlineAllowed(extra) == extra # "reserved"
GuestCmdline(lanSel, hostSel, extra) ==
  [names |-> IF extra = "ifnames" THEN <<"ens1", "ens2">> ELSE <<"eth0", "eth1">>,
   lanSel |-> Effective(lanSel, LanDefault), hostSel |-> Effective(hostSel, HostDefault)]

\* build_plan: the devices are in the order in which the guest will number them.
BuiltPlan(l, h, lanSel, hostSel, extra) ==
  [lanMac |-> SelectorMac(lanSel, LanDefault, LanMac),
   hostMac |-> SelectorMac(hostSel, HostDefault, HostMac),
   lease |-> LeaseRange(h),
   cmdline |-> GuestCmdline(lanSel, hostSel, extra),
   v6 |-> GlobalMac(lanSel)]

-------------------------------------------------------------------------------
(* In the guest: boot_config.rs.                                           *)

\* parse_cmdline: the guest is told its own host-only address, not the host's.
CmdlineValid(l, h) ==
  /\ PrefixAccepted(l.cidr, 1) /\ PrefixAccepted(h.cidr, 1)
  /\ Contains(l.cidr, l.ip) /\ Contains(l.cidr, l.up) /\ l.ip # l.up
  /\ Contains(h.cidr, h.guest)
  /\ ~Overlaps(l.cidr, h.cidr)

\* read_interface_inventory: the first card hangs on the LAN socket.
Cards == {[wire |-> "lan", name |-> plan.cmdline.names[1], mac |-> plan.lanMac],
          [wire |-> "host", name |-> plan.cmdline.names[2], mac |-> plan.hostMac]}

\* resolve_selector: exactly one card matches.
Matching(sel) == {c \in Cards : IF sel.by = "if" THEN c.name = sel.value ELSE c.mac = sel.value}

\* resolve_interfaces
Resolved ==
  {pair \in Cards \X Cards :
     /\ Matching(plan.cmdline.lanSel) = {pair[1]} /\ Matching(plan.cmdline.hostSel) = {pair[2]}
     /\ pair[1] # pair[2]}

-------------------------------------------------------------------------------
(* From the form to the guest.                                             *)

Init ==
  /\ stage = "blank"
  /\ lan = Blank /\ host = Blank /\ plan = Blank /\ guest = Blank

EnterLan ==
  /\ stage = "blank" /\ stage' = "entered"
  /\ \E c \in Cidrs \cup {Blank}, ip \in Addr, up \in Addr :
       lan' = [cidr |-> c, ip |-> ip, up |-> up]
  /\ UNCHANGED <<host, plan, guest>>

Accepted(l, h) == GatewayNetworkValid(l) /\ VfkitSettingsValid(h)

\* persist_settings fills in the network; a configuration that was edited by hand
\* is only validated.
Save ==
  /\ stage = "entered" /\ stage' = "accepted"
  /\ \E c \in Cidrs, ip \in Addr, g \in Addr :
       LET h == [cidr |-> c, ip |-> ip, guest |-> g]
           l == [lan EXCEPT !.cidr = LanCidr(lan)]
       IN Accepted(l, h) /\ lan' = l /\ host' = h
  /\ UNCHANGED <<plan, guest>>
Load ==
  /\ stage = "entered" /\ stage' = "accepted"
  /\ \E c \in Cidrs, ip \in Addr, g \in Addr :
       LET h == [cidr |-> c, ip |-> ip, guest |-> g]
       IN Accepted(lan, h) /\ lan' = lan /\ host' = h
  /\ UNCHANGED <<plan, guest>>
Refuse ==
  /\ stage = "entered" /\ stage' = "refused"
  /\ \E c \in Cidrs, ip \in Addr, g \in Addr :
       ~Accepted(lan, [cidr |-> c, ip |-> ip, guest |-> g])
  /\ lan' = Blank
  /\ UNCHANGED <<host, plan, guest>>

\* build_plan: the VM is started with what the settings say, or not at all.
BuildPlan ==
  /\ stage = "accepted" /\ stage' = "planned"
  /\ \E s \in LanSelectors, t \in HostSelectors, x \in Extras :
       /\ PlanValid(lan, host, s, t) /\ CmdlineAllowed(x)
       /\ LeaseRange(host)[1] < LeaseRange(host)[2]
       /\ plan' = BuiltPlan(lan, host, s, t, x)
  /\ UNCHANGED <<lan, host, guest>>
RejectPlan ==
  /\ stage = "accepted" /\ stage' = "refused"
  /\ \E s \in LanSelectors, t \in HostSelectors, x \in Extras :
       \/ ~PlanValid(lan, host, s, t) \/ ~CmdlineAllowed(x)
       \/ LeaseRange(host)[1] >= LeaseRange(host)[2]
  /\ lan' = Blank /\ host' = Blank
  /\ UNCHANGED <<plan, guest>>

\* load_guest_network: without a network the agent answers nobody.
Boot ==
  /\ stage = "planned"
  /\ IF CmdlineValid(lan, host) /\ Resolved # {}
     THEN /\ stage' = "booted"
          /\ \E pair \in Resolved : guest' = [lan |-> pair[1], host |-> pair[2]]
     ELSE stage' = "unreachable" /\ UNCHANGED guest
  /\ UNCHANGED <<lan, host, plan>>

Next == EnterLan \/ Save \/ Load \/ Refuse \/ BuildPlan \/ RejectPlan \/ Boot
Spec == Init /\ [][Next]_vars

-------------------------------------------------------------------------------
(* What the three checks promise together.                                 *)

\* No VM is started whose agent then refuses its own command line: what vfkit.rs
\* lets through, boot_config.rs accepts, number for number and card for card.
PlannedBoots == stage # "unreachable"

\* In every VM that is started the four addresses are distinct, no address belongs
\* to both networks, and the range vmnet leases from stays inside the host-only
\* network and leaves its broadcast address out.
AddressesApart ==
  stage \in {"planned", "booted"} =>
    /\ Cardinality({lan.ip, lan.up, host.ip, host.guest}) = 4
    /\ {a \in Addr : Contains(lan.cidr, a) /\ Contains(host.cidr, a)} = {}
    /\ \A a \in plan.lease[1]..plan.lease[2] : Unicast(host.cidr, a)

\* The guest routes the LAN over the card on the bridged socket and serves the host
\* on the other, and the global IPv6 address the host derived for it carries the
\* MAC address that card really has.
RightWires ==
  stage = "booted" => /\ guest.lan.wire = "lan" /\ guest.host.wire = "host"
                      /\ plan.v6 = guest.lan.mac
===============================================================================
