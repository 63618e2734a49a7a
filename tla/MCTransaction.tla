--------------------------- MODULE MCTransaction ---------------------------
(* Instances of Transaction, and of the composition with Configuration. *)
EXTENDS ConfiguredTransaction, TLC

Injective(s) == \A i, j \in DOMAIN s : s[i] = s[j] => i = j
AllOrders == UNION {{s \in [1..n -> Filters] : Injective(s)} : n \in 0..5}

NoCalls == {}

-----------------------------------------------------------------------------
(* Configurations: a priority list for every order of every set of filters, *)
(* and every main file of at most three nodes with one of a few files to    *)
(* include.                                                                 *)
Section(name, items, key) == [name |-> name, items |-> items, key |-> key, ranks |-> Empty]
List(ranks) == [name |-> "priority", items |-> << >>, key |-> Unset, ranks |-> ranks]
Keyed(f) == Section(f, << >>, "key")
Kafka == Section("kafka", << >>, "metadata.broker.list")
Include(files) == Section("include", files, Unset)

\* Numbers two apart, from -1 on.
Ranking(order) == [f \in Elements(order) |-> 2 * (CHOOSE i \in DOMAIN order : order[i] = f) - 3]
RankedConfigurations ==
    {(MainFile :> (<<List(Ranking(order))>> \o
        SelectSeq([i \in 1..5 |-> Keyed(FilterNames[i])], LAMBDA n : n.name \in Elements(order)))) :
        order \in AllOrders}

W(entry) == Section("white_lister", <<entry>>, Unset)
MainNodes ==
    {W("one"), Keyed("challenger"), Section("challenger", <<"rule">>, Unset), Keyed("regex_banner"),
     List("challenger" :> 2 @@ "denialator" :> 3), Kafka,
     Include(<<"d.conf">>), Include(<<"d.conf", "e.conf">>)}
IncludedFiles ==
    {<< >>, <<W("two")>>, <<Keyed("challenger"), W("two")>>, <<Keyed("denialator")>>, <<Kafka>>,
     <<W("malformed")>>, <<List("challenger" :> 1 @@ "white_lister" :> 1)>>, <<Section("other", << >>, Unset)>>,
     <<Section("report_status_interval_seconds", << >>, "5"), Section("swabber", << >>, Unset)>>,
     <<Section("remove_expired_challenges_interval_seconds", << >>, "5")>>,
     <<Include(<<"e.conf">>), Keyed("regex_banner")>>}
Mains == UNION {[1..n -> MainNodes] : n \in 0..3}
Includes(main) == \E i \in DOMAIN main : main[i].name = "include"
MixedConfigurations ==
    {(MainFile :> main) : main \in {m \in Mains : ~Includes(m)}}
    \cup {(MainFile :> main @@ "d.conf" :> d @@ "e.conf" :> <<Keyed("bot_sniffer"), W("three")>>) :
            main \in {m \in Mains : Includes(m)}, d \in IncludedFiles}
    \cup {(MainFile :> main) : main \in {m \in Mains : Includes(m) /\ Len(m) < 3}}

AllConfigurations == RankedConfigurations \cup MixedConfigurations

-----------------------------------------------------------------------------
RECURSIVE MCWalk(_, _), MCWalkFiles(_, _)
\* The walk; it goes no further through files than to one that cannot be read.
MCWalk(c, nodes) ==
    IF nodes = << >> THEN << >>
    ELSE <<Head(nodes)>>
            \o (IF Head(nodes).name = "include" THEN MCWalkFiles(c, Head(nodes).items) ELSE << >>)
            \o MCWalk(c, Tail(nodes))
MCWalkFiles(c, items) ==
    IF items = << >> \/ Head(items) \notin DOMAIN c THEN << >>
    ELSE MCWalk(c, c[Head(items)]) \o MCWalkFiles(c, Tail(items))
=============================================================================
