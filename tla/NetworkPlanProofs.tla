-------------------------- MODULE NetworkPlanProofs --------------------------
(***************************************************************************)
(* The network of NetworkPlan for addresses of any width, any networks     *)
(* entered and any selectors: the addresses of a planned VM are apart, and *)
(* where the cards can be told apart a planned VM boots, on the right      *)
(* wires.                                                                  *)
(***************************************************************************)
EXTENDS NetworkPlan, FiniteSetTheorems, TLAPS

USE NetworkAssumption

-------------------------------------------------------------------------------
(* Networks as blocks of addresses.                                        *)

\* Multiples of one size are in the order of their factors.
LEMMA Multiples ==
  ASSUME NEW S \in Nat \ {0}, NEW q \in Nat, NEW j \in Nat, S * q < S * (j + 1)
  PROVE  q <= j
OBVIOUS

\* An address is its block's first one and a remainder.
LEMMA Division ==
  ASSUME NEW a \in Nat, NEW S \in Nat \ {0}
  PROVE  \E q \in Nat : a - (a % S) = S * q /\ S * q <= a /\ a < S * (q + 1)
<1>1. a = S * (a \div S) + (a % S) /\ a \div S \in Nat
  OBVIOUS
<1>2. a % S \in 0..(S - 1)
  OBVIOUS
<1> DEFINE q == a \div S
           m == a % S
<1> HIDE DEF q, m
<1>3. q \in Nat /\ m \in 0..(S - 1) /\ a = S * q + m
  BY <1>1, <1>2 DEF q, m
<1>4. S * (q + 1) = S * q + S /\ S * q \in Nat
  BY <1>3
<1>5. a - m = S * q /\ S * q <= a /\ a < S * (q + 1)
  BY <1>3, <1>4
<1> QED
  BY <1>3, <1>5 DEF m

\* An address between two neighbouring multiples is in the block of the first.
LEMMA InBlock ==
  ASSUME NEW a \in Nat, NEW S \in Nat \ {0}, NEW q \in Nat, S * q <= a, a < S * (q + 1)
  PROVE  a - (a % S) = S * q
<1>1. PICK j \in Nat : a - (a % S) = S * j /\ S * j <= a /\ a < S * (j + 1)
  BY Division
<1>2. S * q \in Nat /\ S * j \in Nat /\ S * (j + 1) \in Nat /\ S * (q + 1) \in Nat
  OBVIOUS
<1>3. S * q < S * (j + 1) /\ S * j < S * (q + 1)
  BY <1>1, <1>2
<1>4. q <= j /\ j <= q
  BY <1>3, Multiples
<1> QED
  BY <1>1, <1>4

\* The first address of a small block is in the large block of every address of it.
LEMMA Nested ==
  ASSUME NEW a \in Nat, NEW T \in Nat \ {0}, NEW k \in Nat \ {0}
  PROVE  LET b == a - (a % T)
         IN b \in Nat /\ b - (b % (k * T)) = a - (a % (k * T))
<1> DEFINE S == k * T
           b == a - (a % T)
<1>1. S \in Nat \ {0}
  OBVIOUS
<1>2. PICK q \in Nat : a - (a % S) = S * q /\ S * q <= a /\ a < S * (q + 1)
  BY <1>1, Division
<1>3. PICK j \in Nat : b = T * j /\ T * j <= a /\ a < T * (j + 1)
  BY Division
<1>4. S * q = T * (k * q) /\ k * q \in Nat /\ S * q \in Nat /\ T * j \in Nat
      /\ S * (q + 1) \in Nat /\ T * (j + 1) \in Nat
  OBVIOUS
<1> HIDE DEF S
<1>5. T * (k * q) < T * (j + 1)
  BY <1>2, <1>3, <1>4
<1>6. k * q <= j
  BY <1>4, <1>5, Multiples
<1>7. T * (k * q) <= T * j
  BY <1>4, <1>6
<1> HIDE DEF b
<1>8. b \in Nat /\ S * q <= b /\ b < S * (q + 1)
  BY <1>2, <1>3, <1>4, <1>7
<1>9. b - (b % S) = S * q
  BY <1>1, <1>8, InBlock
<1> QED
  BY <1>2, <1>8, <1>9 DEF S, b

\* What the checks let through: a network and addresses of it.
Cidr == Nat \X (0..Width)

\* The size of a network is positive, and the smaller of two divides the larger.
LEMMA SizeOf ==
  ASSUME NEW c \in Cidr, NEW d \in Cidr, c[2] <= d[2]
  PROVE  /\ Size(c[2]) \in Nat \ {0} /\ Size(d[2]) \in Nat \ {0}
         /\ \E k \in Nat \ {0} : Size(c[2]) = k * Size(d[2])
<1>1. c[2] \in 0..Width /\ d[2] \in 0..Width /\ d[2] \in c[2]..Width
  BY DEF Cidr
<1>2. Size(c[2]) \in Nat \ {0} /\ Size(d[2]) \in Nat \ {0}
  BY <1>1, SizesAssumption
<1>3. PICK k \in 1..Size(c[2]) : Size(c[2]) = k * Size(d[2])
  BY <1>1, SizesAssumption
<1>4. k \in Nat \ {0}
  BY <1>2, <1>3
<1> QED
  BY <1>2, <1>3, <1>4

\* An address in two networks puts the base of the smaller into the larger.
LEMMA Share ==
  ASSUME NEW c \in Cidr, NEW d \in Cidr, c[2] <= d[2], NEW a \in Nat,
         Contains(c, a), Contains(d, a)
  PROVE  Contains(c, Net(d))
<1>1. PICK k \in Nat \ {0} : Size(c[2]) = k * Size(d[2]) /\ Size(d[2]) \in Nat \ {0}
  BY SizeOf
<1>2. <<a, d[2]>>[1] = a /\ <<a, d[2]>>[2] = d[2] /\ <<a, c[2]>>[1] = a /\ <<a, c[2]>>[2] = c[2]
  OBVIOUS
<1>3. Net(d) = a - (a % Size(d[2])) /\ Net(c) = a - (a % Size(c[2]))
  BY <1>2 DEF Contains, Net
<1>4. Net(d) - (Net(d) % Size(c[2])) = a - (a % Size(c[2]))
  BY <1>1, <1>3, Nested
<1>5. Net(<<Net(d), c[2]>>) = Net(d) - (Net(d) % Size(c[2]))
  BY DEF Net
<1> QED
  BY <1>3, <1>4, <1>5 DEF Contains

\* cidr_overlaps finds every overlap: networks it lets pass share no address.
THEOREM NoAddressInBoth ==
  ASSUME NEW c \in Cidr, NEW d \in Cidr, ~Overlaps(c, d), NEW a \in Nat
  PROVE  ~(Contains(c, a) /\ Contains(d, a))
<1>1. c[2] \in Nat /\ d[2] \in Nat
  BY DEF Cidr
<1>2. c[2] <= d[2] \/ d[2] <= c[2]
  BY <1>1
<1> QED
  BY <1>2, Share DEF Overlaps

\* From a usable address up to the one before the broadcast address all are usable.
LEMMA Lease ==
  ASSUME NEW c \in Cidr, NEW ip \in Nat, Unicast(c, ip),
         NEW a \in ip..(Broadcast(c) - 1)
  PROVE  Unicast(c, a)
<1> DEFINE S == Size(c[2])
<1>1. S \in Nat \ {0}
  BY SizeOf DEF Cidr
<1>2. Net(<<ip, c[2]>>) = ip - (ip % S) /\ Net(<<a, c[2]>>) = a - (a % S)
  BY DEF Net
<1> HIDE DEF S
<1>3. PICK q \in Nat : Net(c) = S * q /\ S * q <= ip
  BY <1>1, <1>2, Division DEF Unicast, Contains
<1>4. Broadcast(c) = S * q + S - 1
  BY <1>3 DEF Broadcast, S
<1>5. S * q \in Nat /\ S * (q + 1) = S * q + S /\ S * q # ip
  BY <1>1, <1>3 DEF Unicast
<1>6. a \in Nat /\ S * q < a /\ a < Broadcast(c) /\ a < S * (q + 1)
  BY <1>1, <1>3, <1>4, <1>5
<1>7. a - (a % S) = S * q
  <2>1. S * q <= a
    BY <1>5, <1>6
  <2> QED
    BY <1>1, <1>6, <2>1, InBlock
<1> QED
  BY <1>2, <1>3, <1>5, <1>6, <1>7 DEF Unicast, Contains

-------------------------------------------------------------------------------
(* The pipeline.                                                           *)

\* What is entered are networks and addresses.
LanForm == [cidr : Cidrs \cup {Physical, Blank}, ip : Addr, up : Addr]
HostForm == [cidr : Cidrs, ip : Addr, guest : Addr]
Forms ==
  /\ stage \in {"entered", "accepted", "planned", "booted", "unreachable"} => lan \in LanForm
  /\ stage \in {"accepted", "planned", "booted", "unreachable"} => host \in HostForm

\* What passed the settings has prefixes the agent accepts.
Narrow ==
  stage \in {"accepted", "planned", "booted", "unreachable"} =>
    /\ lan.cidr # Blank => PrefixAccepted(lan.cidr, 1)
    /\ PrefixAccepted(host.cidr, 1)

\* What was planned passed the checks of the plan, whose lease follows the host.
Planned ==
  stage \in {"planned", "booted", "unreachable"} =>
    /\ lan.cidr # Blank /\ AddressesValid(lan, host) /\ host.ip # host.guest
    /\ plan.lease = LeaseRange(host)

Checked == Forms /\ Narrow /\ Planned

\* Every step leaves the forms as they were checked.
LEMMA CheckedStep == Checked /\ [Next]_vars => Checked'
<1> SUFFICES ASSUME Checked, [Next]_vars PROVE Checked'
  OBVIOUS
<1> USE DEF Checked, Forms, Narrow, Planned
<1>1. CASE EnterLan
  <2>1. PICK c \in Cidrs \cup {Blank}, ip \in Addr, up \in Addr :
          lan' = [cidr |-> c, ip |-> ip, up |-> up]
    BY <1>1 DEF EnterLan
  <2>2. lan' \in LanForm
    BY <2>1 DEF LanForm
  <2> QED
    BY <1>1, <2>2 DEF EnterLan
<1>2. CASE Save
  <2>1. PICK c \in Cidrs, ip \in Addr, g \in Addr :
          /\ Accepted([lan EXCEPT !.cidr = LanCidr(lan)], [cidr |-> c, ip |-> ip, guest |-> g])
          /\ lan' = [lan EXCEPT !.cidr = LanCidr(lan)]
          /\ host' = [cidr |-> c, ip |-> ip, guest |-> g]
    BY <1>2 DEF Save
  <2>2. lan \in LanForm /\ LanCidr(lan) \in Cidrs \cup {Physical, Blank}
    BY <1>2 DEF Save, LanForm, LanCidr
  <2>3. lan' \in LanForm /\ host' \in HostForm
    BY <2>1, <2>2 DEF LanForm, HostForm
  <2>4. /\ lan'.cidr # Blank => PrefixAccepted(lan'.cidr, 1)
        /\ PrefixAccepted(host'.cidr, 1)
    BY <2>1 DEF Accepted, GatewayNetworkValid, VfkitSettingsValid, LanCidr
  <2> QED
    BY <1>2, <2>3, <2>4 DEF Save
<1>3. CASE Load
  <2>1. PICK c \in Cidrs, ip \in Addr, g \in Addr :
          /\ Accepted(lan, [cidr |-> c, ip |-> ip, guest |-> g])
          /\ lan' = lan
          /\ host' = [cidr |-> c, ip |-> ip, guest |-> g]
    BY <1>3 DEF Load
  <2>2. lan' \in LanForm /\ host' \in HostForm
    BY <1>3, <2>1 DEF Load, HostForm
  <2>3. /\ lan'.cidr # Blank => PrefixAccepted(lan'.cidr, 1)
        /\ PrefixAccepted(host'.cidr, 1)
    BY <2>1 DEF Accepted, GatewayNetworkValid, VfkitSettingsValid, LanCidr
  <2> QED
    BY <1>3, <2>2, <2>3 DEF Load
<1>4. CASE BuildPlan
  <2>1. PICK s \in LanSelectors, t \in HostSelectors, x \in Extras :
          PlanValid(lan, host, s, t) /\ plan' = BuiltPlan(lan, host, s, t, x)
    BY <1>4 DEF BuildPlan
  <2>2. plan'.lease = LeaseRange(host)
    BY <2>1 DEF BuiltPlan
  <2> QED
    BY <1>4, <2>1, <2>2 DEF BuildPlan, PlanValid
<1>5. CASE Refuse \/ RejectPlan
  BY <1>5 DEF Refuse, RejectPlan
<1>6. CASE Boot
  BY <1>6 DEF Boot
<1>7. CASE UNCHANGED vars
  BY <1>7 DEF vars
<1> QED
  BY <1>1, <1>2, <1>3, <1>4, <1>5, <1>6, <1>7 DEF Next

\* Nothing has been entered at first.
LEMMA CheckedInit == Init => Checked
BY DEF Init, Checked, Forms, Narrow, Planned

\* AddressesApart: whatever is entered, saved or edited by hand, the addresses of a
\* VM that is started are distinct, on two networks that share none, and its leases are
\* usable addresses.
THEOREM AddressesAreApart == Spec => []AddressesApart
<1>1. ASSUME Checked, stage \in {"planned", "booted"}
      PROVE  /\ Cardinality({lan.ip, lan.up, host.ip, host.guest}) = 4
             /\ {a \in Addr : Contains(lan.cidr, a) /\ Contains(host.cidr, a)} = {}
             /\ \A a \in plan.lease[1]..plan.lease[2] : Unicast(host.cidr, a)
  <2>1. Addr \subseteq Nat
    BY DEF Addr
  <2>2. lan.cidr \in Cidr /\ host.cidr \in Cidr
    BY <1>1, <2>1 DEF Checked, Forms, Planned, LanForm, HostForm, Cidr
  <2>3. lan.ip \in Nat /\ lan.up \in Nat /\ host.ip \in Nat /\ host.guest \in Nat
    BY <1>1, <2>1 DEF Checked, Forms, LanForm, HostForm
  <2>4. AddressesValid(lan, host) /\ host.ip # host.guest /\ plan.lease = LeaseRange(host)
    BY <1>1 DEF Checked, Planned
  <2>5. \A a \in Nat : ~(Contains(lan.cidr, a) /\ Contains(host.cidr, a))
    BY <2>2, <2>4, NoAddressInBoth DEF AddressesValid
  <2>6. /\ lan.ip # lan.up /\ lan.ip # host.ip /\ lan.ip # host.guest
        /\ lan.up # host.ip /\ lan.up # host.guest /\ host.ip # host.guest
    BY <2>3, <2>4, <2>5 DEF AddressesValid, Unicast
  <2>7. Cardinality({lan.ip, lan.up, host.ip, host.guest}) = 4
    <3> DEFINE one == {lan.ip}
               two == one \cup {lan.up}
               three == two \cup {host.ip}
               four == three \cup {host.guest}
    <3>1. lan.up \notin one /\ host.ip \notin two /\ host.guest \notin three
      BY <2>6
    <3>2. four = {lan.ip, lan.up, host.ip, host.guest}
      OBVIOUS
    <3>3. IsFiniteSet(one) /\ Cardinality(one) = 1
      BY FS_Singleton
    <3> HIDE DEF one
    <3>4. IsFiniteSet(two) /\ Cardinality(two) = 2
      BY <3>1, <3>3, FS_AddElement
    <3> HIDE DEF two
    <3>5. IsFiniteSet(three) /\ Cardinality(three) = 3
      BY <3>1, <3>4, FS_AddElement
    <3> HIDE DEF three
    <3>6. IsFiniteSet(four) /\ Cardinality(four) = 4
      BY <3>1, <3>5, FS_AddElement
    <3> QED
      BY <3>2, <3>6
  <2>8. \A a \in plan.lease[1]..plan.lease[2] : Unicast(host.cidr, a)
    BY <2>2, <2>3, <2>4, Lease DEF LeaseRange, AddressesValid
  <2> QED
    BY <2>1, <2>5, <2>7, <2>8
<1>2. Checked => AddressesApart
  BY <1>1 DEF AddressesApart
<1> QED
  BY <1>2, CheckedInit, CheckedStep, PTL DEF Spec

-------------------------------------------------------------------------------
(* The cards.                                                              *)

\* A card is selected by its default name or by its address; a name given to the other
\* card, or to none, is not an address.
Selects(sel, default) == Effective(sel, default) = default \/ Effective(sel, default).by = "mac"
Selected ==
  /\ \A s \in LanSelectors : Selects(s, LanDefault)
  /\ \A t \in HostSelectors : Selects(t, HostDefault)

\* The two cards get addresses of their own and keep the names the selectors use.
Distinct ==
  /\ \A s \in LanSelectors, t \in HostSelectors :
       SelectorMac(s, LanDefault, LanMac) # SelectorMac(t, HostDefault, HostMac)
  /\ "ifnames" \notin Extras

\* The card on the bridged socket, and the one on the other.
LanCard == [wire |-> "lan", name |-> plan.cmdline.names[1], mac |-> plan.lanMac]
HostCard == [wire |-> "host", name |-> plan.cmdline.names[2], mac |-> plan.hostMac]

\* What a plan says of the cards follows the selectors it was made from.
Carded ==
  stage \in {"planned", "booted", "unreachable"} =>
    \E s \in LanSelectors, t \in HostSelectors, x \in Extras :
      plan = BuiltPlan(lan, host, s, t, x)

\* A plan that is built, and one that is kept.
LEMMA CardedStep == Carded /\ [Next]_vars => Carded'
<1> SUFFICES ASSUME Carded, [Next]_vars PROVE Carded'
  OBVIOUS
<1>1. CASE BuildPlan
  BY <1>1 DEF BuildPlan, Carded
<1>2. CASE Boot \/ UNCHANGED vars
  BY <1>2 DEF Boot, vars, Carded
<1>3. CASE EnterLan \/ Save \/ Load \/ Refuse \/ RejectPlan
  BY <1>3 DEF EnterLan, Save, Load, Refuse, RejectPlan, Carded
<1> QED
  BY <1>1, <1>2, <1>3 DEF Next

\* What the plan made from some selectors says of the cards.
LEMMA PlanSays ==
  ASSUME NEW s, NEW t, NEW x, plan = BuiltPlan(lan, host, s, t, x)
  PROVE  /\ plan.lanMac = SelectorMac(s, LanDefault, LanMac)
         /\ plan.hostMac = SelectorMac(t, HostDefault, HostMac)
         /\ plan.cmdline.lanSel = Effective(s, LanDefault)
         /\ plan.cmdline.hostSel = Effective(t, HostDefault)
         /\ IF x = "ifnames" THEN LanCard.name = "ens1" /\ HostCard.name = "ens2"
                             ELSE LanCard.name = "eth0" /\ HostCard.name = "eth1"
         /\ plan.v6 = GlobalMac(s)
         /\ Cards = {LanCard, HostCard}
         /\ LanCard.mac = plan.lanMac /\ HostCard.mac = plan.hostMac
         /\ LanCard.wire = "lan" /\ HostCard.wire = "host" /\ LanCard # HostCard
<1>1. plan.cmdline = GuestCmdline(s, t, x)
  BY DEF BuiltPlan
<1>2. /\ plan.cmdline.names[1] = IF x = "ifnames" THEN "ens1" ELSE "eth0"
      /\ plan.cmdline.names[2] = IF x = "ifnames" THEN "ens2" ELSE "eth1"
  BY <1>1 DEF GuestCmdline
<1>3. LanCard.wire = "lan" /\ HostCard.wire = "host"
  BY DEF LanCard, HostCard
<1> QED
  BY <1>1, <1>2, <1>3 DEF BuiltPlan, GuestCmdline, Cards, LanCard, HostCard

\* A selector that matches one card matches the one it was entered for.
LEMMA Matches ==
  ASSUME NEW s, NEW t, NEW x, plan = BuiltPlan(lan, host, s, t, x),
         Selects(s, LanDefault), Selects(t, HostDefault)
  PROVE  /\ \A c : Matching(plan.cmdline.lanSel) = {c} => c = LanCard
         /\ \A c : Matching(plan.cmdline.hostSel) = {c} => c = HostCard
         /\ x # "ifnames" /\ plan.lanMac # plan.hostMac =>
              /\ Matching(plan.cmdline.lanSel) = {LanCard}
              /\ Matching(plan.cmdline.hostSel) = {HostCard}
<1> DEFINE l == Effective(s, LanDefault)
           h == Effective(t, HostDefault)
<1>1. /\ (l.by = "if" /\ l.value = "eth0") \/ (l.by = "mac" /\ plan.lanMac = l.value)
      /\ (h.by = "if" /\ h.value = "eth1") \/ (h.by = "mac" /\ plan.hostMac = h.value)
  <2>1. /\ plan.lanMac = SelectorMac(s, LanDefault, LanMac)
        /\ plan.hostMac = SelectorMac(t, HostDefault, HostMac)
    BY PlanSays
  <2>2. l = LanDefault \/ (l.by = "mac" /\ plan.lanMac = l.value)
    BY <2>1 DEF Selects, SelectorMac
  <2>3. h = HostDefault \/ (h.by = "mac" /\ plan.hostMac = h.value)
    BY <2>1 DEF Selects, SelectorMac
  <2> HIDE DEF l, h
  <2> QED
    BY <2>2, <2>3 DEF LanDefault, HostDefault
<1>2. /\ plan.cmdline.lanSel = l /\ plan.cmdline.hostSel = h
      /\ IF x = "ifnames" THEN LanCard.name = "ens1" /\ HostCard.name = "ens2"
                          ELSE LanCard.name = "eth0" /\ HostCard.name = "eth1"
      /\ Cards = {LanCard, HostCard}
      /\ LanCard.mac = plan.lanMac /\ HostCard.mac = plan.hostMac
  BY PlanSays
<1> HIDE DEF l, h
<1> QED
  BY <1>1, <1>2 DEF Matching

\* A VM that booted took the right card for each selector.
Wired ==
  stage = "booted" => guest.lan = LanCard /\ guest.host = HostCard

\* Where the selectors say what they are for, the resolution follows them.
LEMMA WiredStep ==
  ASSUME Selected, Carded, Wired, [Next]_vars
  PROVE  Wired'
<1>1. CASE Boot /\ stage' = "booted"
  <2>1. PICK pair \in Resolved : guest' = [lan |-> pair[1], host |-> pair[2]]
    BY <1>1 DEF Boot
  <2>2. PICK s \in LanSelectors, t \in HostSelectors, x \in Extras :
          plan = BuiltPlan(lan, host, s, t, x)
    BY <1>1 DEF Boot, Carded
  <2>3. pair[1] = LanCard /\ pair[2] = HostCard
    BY <2>1, <2>2, Matches DEF Selected, Resolved
  <2>4. LanCard' = LanCard /\ HostCard' = HostCard
    BY <1>1 DEF Boot, LanCard, HostCard
  <2> QED
    BY <2>1, <2>3, <2>4 DEF Wired
<1>2. CASE UNCHANGED vars
  BY <1>2 DEF vars, Wired, LanCard, HostCard
<1>3. CASE stage' # "booted"
  BY <1>3 DEF Wired
<1>4. Next => Boot \/ stage' # "booted"
  BY DEF Next, EnterLan, Save, Load, Refuse, BuildPlan, RejectPlan
<1> QED
  BY <1>1, <1>2, <1>3, <1>4

\* RightWires: where each selector names its card by the default name or by an address,
\* a VM that boots has the LAN and the host on the right wires, whatever the addresses,
\* the naming of the cards and the networks; the IPv6 address fits the card.
THEOREM WiresAreRight == Selected => (Spec => []RightWires)
<1> SUFFICES ASSUME Selected PROVE Spec => []RightWires
  OBVIOUS
<1> DEFINE I == Carded /\ Wired
<1>1. Init => I
  BY DEF Init, Carded, Wired
<1>2. I /\ [Next]_vars => I'
  BY CardedStep, WiredStep
<1>3. ASSUME I, stage = "booted"
      PROVE  guest.lan.wire = "lan" /\ guest.host.wire = "host" /\ plan.v6 = guest.lan.mac
  <2>1. PICK s \in LanSelectors, t \in HostSelectors, x \in Extras :
          plan = BuiltPlan(lan, host, s, t, x)
    BY <1>3 DEF Carded
  <2>2. /\ guest.lan.wire = "lan" /\ guest.host.wire = "host"
        /\ guest.lan.mac = SelectorMac(s, LanDefault, LanMac) /\ plan.v6 = GlobalMac(s)
    BY <1>3, <2>1, PlanSays DEF Wired
  <2>3. Selects(s, LanDefault)
    BY DEF Selected
  <2>4. SelectorMac(s, LanDefault, LanMac) = GlobalMac(s)
    <3>1. LanDefault.by = "if"
      BY DEF LanDefault
    <3> QED
      BY <2>3, <3>1 DEF Selects, Effective, SelectorMac, GlobalMac
  <2> QED
    BY <2>2, <2>4
<1>4. I => RightWires
  BY <1>3 DEF RightWires
<1> QED
  BY <1>1, <1>2, <1>4, PTL DEF Spec

\* What the plan lets through the agent accepts on its command line.
LEMMA CmdlineFollows ==
  ASSUME Checked, stage = "planned"
  PROVE  CmdlineValid(lan, host)
BY DEF Checked, Narrow, Planned, AddressesValid, Unicast, CmdlineValid

\* ... and the selectors find the cards.
LEMMA CardsFound ==
  ASSUME Selected, Distinct, Carded, stage = "planned"
  PROVE  Resolved # {}
<1>1. PICK s \in LanSelectors, t \in HostSelectors, x \in Extras :
        plan = BuiltPlan(lan, host, s, t, x)
  BY DEF Carded
<1>2. x # "ifnames" /\ plan.lanMac # plan.hostMac
  BY <1>1, PlanSays DEF Distinct
<1>3. /\ Matching(plan.cmdline.lanSel) = {LanCard}
      /\ Matching(plan.cmdline.hostSel) = {HostCard}
  BY <1>1, <1>2, Matches DEF Selected
<1>4. LanCard # HostCard /\ LanCard \in Cards /\ HostCard \in Cards
  BY <1>1, PlanSays
<1>5. <<LanCard, HostCard>> \in Resolved
  BY <1>3, <1>4 DEF Resolved
<1> QED
  BY <1>5

\* PlannedBoots: where moreover the cards get addresses of their own and keep their
\* names, no VM is started whose agent refuses its command line or misses a card.
THEOREM PlannedVmBoots == Selected /\ Distinct => (Spec => []PlannedBoots)
<1> SUFFICES ASSUME Selected, Distinct PROVE Spec => []PlannedBoots
  OBVIOUS
<1> DEFINE I == Checked /\ Carded /\ PlannedBoots
<1>1. Init => I
  BY CheckedInit DEF Init, Carded, PlannedBoots
<1>2. ASSUME I, [Next]_vars PROVE I'
  <2>1. Boot => stage' # "unreachable"
    BY <1>2, CmdlineFollows, CardsFound DEF Boot
  <2>2. PlannedBoots'
    BY <1>2, <2>1 DEF Next, EnterLan, Save, Load, Refuse, BuildPlan, RejectPlan, vars,
                      PlannedBoots
  <2> QED
    BY <1>2, <2>2, CheckedStep, CardedStep
<1> QED
  BY <1>1, <1>2, PTL DEF Spec
===============================================================================
