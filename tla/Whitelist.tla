------------------------------ MODULE Whitelist ------------------------------
(***************************************************************************)
(* The allow-list matcher of pkg/util/whitelist.go: the whitelist built by *)
(* WhitelistFromStrings/AddFromString from --bypass style patterns, and    *)
(* Contains/IsAddrAllowed, which the HTTP handler asks before it dials.    *)
(*                                                                         *)
(* Data is abstracted to what matching tells apart:                        *)
(*   - an IP literal is a family (4 or 6) and a HostBits-bit number; a     *)
(*     CIDR network is a family, a base and a prefix of 0..HostBits bits;  *)
(*   - a host name is a sequence of DNS labels (model values), so that     *)
(*     "a.b" ends with the zone ".b" exactly when <<b>> is a suffix of     *)
(*     <<a, b>>;                                                           *)
(*   - a pattern string is the record of what parseAddrPorts and           *)
(*     toAddrPorts find in it: its form, its address and its port part.    *)
(* The state is the whitelist built so far by successive AddFromString     *)
(* calls, and the patterns they were given.                                *)
(***************************************************************************)
EXTENDS Integers, Sequences, FiniteSets

Seqs == INSTANCE SequencesExt

CONSTANTS
    Labels,        \* DNS labels of host names and zones
    PortNumbers,   \* port numbers written in patterns and dialled (> 0)
    HostBits,      \* bits of an IP literal below its family
    MaxPatterns    \* bound on the patterns added

VARIABLES
    wl,            \* the Whitelist: four entry lists, in insertion order
    added          \* the patterns given to AddFromString so far

vars == <<wl, added>>

Families == {4, 6}
IPs      == [fam : Families, n : 0..(2^HostBits - 1)]
\* net.ParseCIDR masks the base, so only masked bases are enumerated.
Nets     == {nt \in [fam : Families, base : 0..(2^HostBits - 1), plen : 0..HostBits] :
                nt.base % 2^(HostBits - nt.plen) = 0}
Names    == {<<l>> : l \in Labels} \cup {<<l, m>> : l, m \in Labels}

\* The port part of a pattern: absent, "p", "lo-hi", or unparsable (a
\* non-number, an empty side of "-", or more than one "-").  A range
\* "p-p" is the single port p and is not listed twice.
PortSpecs ==
    {[kind |-> "none"], [kind |-> "bad"]}
    \cup [kind : {"one"}, lo : PortNumbers \cup {0}]
    \cup {r \in [kind : {"range"}, lo : PortNumbers, hi : PortNumbers] : r.lo # r.hi}

\* The forms of a pattern.  "ip" covers a.b.c.d and [v6]; "badcidr" is a
\* name with a "/" that net.ParseCIDR refuses; "empty" is "" or ":p".
Patterns ==
    [form : {"host", "zone"}, addr : Names, ports : PortSpecs]
    \cup [form : {"ip"}, addr : IPs, ports : PortSpecs]
    \cup [form : {"cidr"}, addr : Nets, ports : PortSpecs]
    \cup [form : {"badcidr"}, addr : Names, ports : {[kind |-> "none"]}]
    \cup {[form |-> "empty", ports |-> [kind |-> "none"]]}

\* A destination "host:port" as the handler passes it to Contains; the
\* port is -1 when strconv.Atoi fails on it.
\* A host net.ParseIP refuses is a name; one SplitHostPort refuses is
\* Unsplittable.
NameHosts == [name : Names]
Unsplittable == [unsplittable |-> TRUE]
DestHosts == IPs \cup NameHosts \cup {Unsplittable}
DestPorts == PortNumbers \cup {-1}

Entry(v, lo, hi) == [value |-> v, min |-> lo, max |-> hi]

EmptyWhitelist == [Networks |-> <<>>, IPs |-> <<>>, Zones |-> <<>>, Hosts |-> <<>>]

-----------------------------------------------------------------------------
(* Matching                                                                *)

\* Mutant: the "// return true" left in IsAddrAllowed, a match ignores ports.
IsPortAllowedAny(e, port) == TRUE

\* Entry.IsPortAllowed: (0,0) allows any port.
IsPortAllowed(e, port) ==
    \/ e.min = 0 /\ e.max = 0
    \/ e.min <= port /\ port <= e.max

\* net.IPNet.Contains: same family and the same leading plen bits.
NetContains(net, ip) ==
    /\ net.fam = ip.fam
    /\ ip.n \div 2^(HostBits - net.plen) = net.base \div 2^(HostBits - net.plen)

\* Mutant: the host == zone[1:] case dropped.
ZoneMatchesSuffixOnly(zone, host) == Len(zone) < Len(host) /\ Seqs!IsSuffix(zone, host)

\* strings.HasSuffix(host, zone) or host == zone[1:], for the stored zone
\* ".z" (kept here as z).
ZoneMatches(zone, host) ==
    \/ Len(zone) < Len(host) /\ Seqs!IsSuffix(zone, host)
    \/ host = zone

\* The entry at index i, the first that matched (0: none), decides: its port
\* check is the answer, and later entries are not looked at.
FirstDecides(seq, i, port) == i # 0 /\ IsPortAllowed(seq[i], port)

\* IsAddrAllowed: an IP literal is looked up in Networks, then IPs; a name
\* in Zones, then Hosts.  A list decides only if one of its entries matches.
IsAddrAllowed(w, host, port) ==
    IF host \in IPs
    THEN LET n == Seqs!SelectInSeq(w.Networks, LAMBDA e : NetContains(e.value, host))
             i == Seqs!SelectInSeq(w.IPs, LAMBDA e : e.value = host)
         IN IF n # 0 THEN FirstDecides(w.Networks, n, port)
                     ELSE FirstDecides(w.IPs, i, port)
    ELSE LET z == Seqs!SelectInSeq(w.Zones, LAMBDA e : ZoneMatches(e.value, host.name))
             h == Seqs!SelectInSeq(w.Hosts, LAMBDA e : e.value = host.name)
         IN IF z # 0 THEN FirstDecides(w.Zones, z, port)
                     ELSE FirstDecides(w.Hosts, h, port)

\* Contains: TRUE blocks the request.  An address SplitHostPort refuses is
\* blocked.
Contains(w, host, port) ==
    host = Unsplittable \/ ~IsAddrAllowed(w, host, port)

-----------------------------------------------------------------------------
(* Parsing                                                                 *)

\* toAddrPorts: an empty address or an unparsable port part is an error.
ToAddrPortsOk(p) == p.form # "empty" /\ p.ports.kind # "bad"

\* toAddrPorts: the [MinPort, MaxPort] of a port part; none gives (0, 0).
MinPort(ps) == IF ps.kind \in {"one", "range"} THEN ps.lo ELSE 0
MaxPort(ps) == CASE ps.kind = "one"   -> ps.lo
                 [] ps.kind = "range" -> ps.hi
                 [] OTHER             -> 0

\* Mutant: AddNetwork and AddIP swapped.
ListOfSwapped(p) == CASE p.form = "cidr" -> "IPs"
                      [] p.form = "ip"   -> "Networks"
                      [] p.form = "zone" -> "Zones"
                      [] p.form = "host" -> "Hosts"

\* The list AddFromString appends a pattern to: a "/" makes it a CIDR
\* (dropped if ParseCIDR fails), then an IP literal, then "*." a zone
\* (AddZone keeps ".z"), else a host (AddHost).
ListOf(p) == CASE p.form = "cidr" -> "Networks"
               [] p.form = "ip"   -> "IPs"
               [] p.form = "zone" -> "Zones"
               [] p.form = "host" -> "Hosts"

\* One comma-separated entry of AddFromString: skipped on a toAddrPorts
\* error, an empty address or a bad CIDR, else appended to its list.
AddEntry(w, p) ==
    IF ~ToAddrPortsOk(p) \/ p.form = "badcidr"
    THEN w
    ELSE [w EXCEPT ![ListOf(p)] =
              Append(@, Entry(p.addr, MinPort(p.ports), MaxPort(p.ports)))]

\* AddFromString: the entries of one string, left to right.
AddFromString(w, ps) == Seqs!FoldLeft(AddEntry, w, ps)

-----------------------------------------------------------------------------
(* The whitelist as the configuration builds it: WhitelistFromStrings     *)
(* calls AddFromString once per --bypass string.                           *)

TypeOK ==
    /\ wl \in [Networks : Seq([value : Nets, min : Nat, max : Nat]),
               IPs : Seq([value : IPs, min : Nat, max : Nat]),
               Zones : Seq([value : Names, min : Nat, max : Nat]),
               Hosts : Seq([value : Names, min : Nat, max : Nat])]
    /\ added \in Seq(Patterns)

Init ==
    /\ wl = EmptyWhitelist
    /\ added = <<>>

\* One --bypass string of one or two comma-separated patterns.
AddString(ps) ==
    /\ Len(added) + Len(ps) <= MaxPatterns
    /\ wl' = AddFromString(wl, ps)
    /\ added' = added \o ps

Next ==
    \/ \E p \in Patterns : AddString(<<p>>)
    \/ \E p, q \in Patterns : AddString(<<p, q>>)
    \/ Len(added) = MaxPatterns /\ UNCHANGED vars

Spec == Init /\ [][Next]_vars

-----------------------------------------------------------------------------
(* Reference: the meaning spec 4.A gives each pattern on its own.          *)

\* A pattern that parses admits a destination when its address names the
\* host (a zone "*.z" names z and every name one label longer ending in z)
\* and its port range holds the port, (0, 0) meaning any port.
PatternAdmits(p, host, port) ==
    /\ ToAddrPortsOk(p)
    /\ CASE p.form = "cidr" -> host \in IPs /\ NetContains(p.addr, host)
         [] p.form = "ip"   -> host = p.addr
         [] p.form = "host" -> host \in NameHosts /\ host.name = p.addr
         [] p.form = "zone" -> host \in NameHosts /\
                               \/ host.name = p.addr
                               \/ \E l \in Labels : host.name = <<l>> \o p.addr
         [] OTHER           -> FALSE
    /\ LET lo == MinPort(p.ports)
           hi == MaxPort(p.ports)
       IN (lo = 0 /\ hi = 0) \/ (lo <= port /\ port <= hi)

\* The patterns given so far whose address part names the host.
Naming(host) ==
    {i \in DOMAIN added :
        PatternAdmits([added[i] EXCEPT !.ports = [kind |-> "none"]], host, 0)}

Allowed(host, port) == ~Contains(wl, host, port)

\* Bypass soundness (Contains, IsAddrAllowed, IsPortAllowed): whatever
\* patterns were given and in whatever order, a destination is let through
\* only if one of the patterns admits both its host and its port.
AllowedOnlyIfAdmitted ==
    \A h \in DestHosts, port \in DestPorts :
        Allowed(h, port) => \E i \in DOMAIN added : PatternAdmits(added[i], h, port)

\* First match is harmless without overlap (IsAddrAllowed's early returns,
\* the zone's exact-name case): when at most one pattern names a host, the
\* whitelist lets it through exactly when that pattern admits it.
SingleMatchDecides ==
    \A h \in DestHosts \ {Unsplittable}, port \in DestPorts :
        Cardinality(Naming(h)) <= 1 =>
            (Allowed(h, port) <=> \E i \in DOMAIN added : PatternAdmits(added[i], h, port))

====
