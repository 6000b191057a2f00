---------------------------- MODULE MCDnsRecords ----------------------------
(* The instances of DnsRecords that TLC checks. *)
EXTENDS DnsRecords, TLC

Scope(kinds, plans, domain, stands, unbooked, taken, takes) ==
    [kinds |-> kinds, plans |-> plans, domain |-> domain, stands |-> stands, unbooked |-> unbooked, taken |-> taken, takes |-> takes,
     egress |-> TRUE, signer |-> TRUE]

NoOther == [n \in {} |-> {}]
HandWritten == (<<"spf", 1>> :> {<<"hand", 0>>, <<"note", 0>>}) @@ (<<"dmarc", 1>> :> {<<"note", 0>>})
Unbooked == (<<"spf", 1>> :> {<<"hand", 0>>}) @@ (<<"dkim", 1>> :> {<<"own", 1>>}) @@ (<<"dmarc", 1>> :> {<<"own", 2>>})
AlreadyThere == (<<"host", 2>> :> {<<"cluster", 0>>})

Beginnings ==
    {Scope({"move", "rollback"}, 3, 1, NoOther, {}, {<<"host", 2>>}, {}),
     Scope({"move"}, 2, 1, AlreadyThere, {<<"own", 0>>}, {}, {}),
     Scope({"publish", "unpublish"}, 2, 1, HandWritten, {}, {}, {<<"spf", 1>>}),
     Scope({"publish", "dmarc"}, 3, 1, NoOther, {}, {}, {}),
     Scope({"dkim", "envelope", "remove"}, 2, 1, NoOther, {}, {}, PlatformNames \cup {<<"host", 1>>}),
     Scope({"unpublish", "remove"}, 2, 1, Unbooked, {}, {}, {<<"spf", 1>>, <<"dmarc", 1>>})}

Symmetry == Permutations(Runs)
=============================================================================
