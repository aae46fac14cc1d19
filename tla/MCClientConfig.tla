-------------------------- MODULE MCClientConfig --------------------------
(* The configuration of the client while it runs, its geo files and the     *)
(* rules made of both, each on a small instance.  A behaviour is one of the *)
(* three; LiveConfig sees of the others that geo data and rules come in     *)
(* versions.                                                                *)
EXTENDS MCLiveConfig, Router, GeoCache

VARIABLE part

TwoMirrors == <<"m1", "m2">>

-----------------------------------------------------------------------------
Crit(field, values) == [field |-> field, values |-> values]
Entry(crits, action, invert, mode) ==
    [crits |-> crits, action |-> action, invert |-> invert, mode |-> mode]
Line(field, value, action) == [field |-> field, value |-> value, action |-> action]
Item(type, value) == [type |-> type, value |-> value]

(* A file with a code that comes twice and one behind a damaged entry.       *)
SiteA == <<[code |-> "gfw", items |-> <<Item("exact", <<"cn">>)>>],
           [code |-> "gfw", items |-> <<Item("suffix", <<"g", "com">>), Item("suffix", <<"cn">>),
                                        Item("keyword", <<"w">>), Item("exact", <<"com">>)>>],
           Bad, [code |-> "ads", items |-> <<Item("keyword", <<"g">>)>>]>>
IpA == <<[code |-> "cn", nets |-> <<<<4, 5>>, <<1, 6>>>>, inverse |-> FALSE],
         [code |-> "xx", nets |-> <<<<2, 2>>, <<1, 1>>, <<4, 6>>>>, inverse |-> TRUE]>>

CritSet ==
    {Crit("domain", <<<<"com">>>>), Crit("domain_suffix", <<<<"g", "com">>, <<"cn">>>>),
     Crit("domain_keyword", <<<<"w">>>>), Crit("domain_regex", <<<<{"g", "w"}, {"g"}, {"com"}>>>>),
     Crit("ip_cidr", <<<<2, 4>>, Bad>>), Crit("rule_set", <<<<"", "gfw">>>>),
     Crit("rule_set", <<<<"a", "ads">>>>), Crit("rule_set", <<<<"b", "gfw">>>>),
     Crit("geoip", <<<<"", "cn">>>>), Crit("geoip", <<<<"a", "xx">>>>)}
EntrySet ==
    {Entry({c}, "node", inv, "or") : c \in CritSet, inv \in BOOLEAN}
    \cup {Entry({c, d}, "direct", inv, mode) :
            c \in {Crit("rule_set", <<<<"a", "gfw">>>>), Crit("domain_suffix", <<<<"com">>>>)},
            d \in {Crit("geoip", <<<<"a", "xx">>>>), Crit("domain_keyword", <<<<"w">>>>)},
            inv \in BOOLEAN, mode \in {"or", "and"}}
    \cup {Entry({Crit("domain", <<<<"com">>>>)}, "gone", FALSE, "or"),
          Entry({Crit("geosite", <<<<"", "gfw">>>>)}, "node", FALSE, "or")}
CsvRules == <<Line("FINAL", Bad, "REJECT"), Line("domain", <<"com">>, "PROXY"),
              Line("FINAL", Bad, "DIRECT"), Line("domain_regex", Bad, "node"),
              Line("unknown", <<"com">>, "node"),
              Line("domain_suffix", <<"g", "com">>, "REJECT"), Line("geoip", <<"a", "cn">>, "gone"),
              Line("rule_set", <<"a", "gfw">>, "node")>>
SmallConfigs ==
    {[style |-> "struct", rules |-> r, final |-> "direct"] : r \in UNION {[1 .. n -> EntrySet] : n \in 1 .. 2}}
    \cup {[style |-> "struct", rules |-> <<>>, final |-> NoRule],
          [style |-> "csv", rules |-> CsvRules, final |-> NoRule],
          [style |-> "csv", rules |-> Reverse(CsvRules), final |-> NoRule]}

SmallHosts == {[name |-> n, addr |-> NoAddr] :
                 n \in {<<"com">>, <<"g", "com">>, <<"w", "g", "com">>, <<"w", "com">>, <<"g", "cn">>}}
              \cup {[name |-> <<"ip">>, addr |-> a] : a \in 0 .. 7}

SiteSources == [a |-> SiteA]
IpSources == [a |-> IpA]
AlsoYes == {<<"com">>}
Legacy == [PROXY |-> "node", DIRECT |-> "direct", REJECT |-> "block"]

-----------------------------------------------------------------------------
allVars == <<part, vars, geoVars, routerVars>>

LiveStep(A) == part = "live" /\ A /\ UNCHANGED <<part, geoVars, routerVars>>
GeoStep(A) == part = "geo" /\ A /\ UNCHANGED <<part, vars, routerVars>>
RuleStep(A) == part = "rules" /\ A /\ UNCHANGED <<part, vars, geoVars>>

MCInit == /\ part \in {"live", "geo", "rules"}
          /\ Init /\ GeoInit /\ RouterInit
          /\ part # "rules" => rest = <<>>

MCNext == LiveStep(Next) \/ GeoStep(GeoNext) \/ RuleStep(RouterNext)

(* The fairness of GeoCache.                                                 *)
MCFairness ==
    /\ WF_allVars(GeoStep(Begin)) /\ WF_allVars(GeoStep(End))
    /\ \A k \in Keys : /\ WF_allVars(GeoStep(Source(k)))
                        /\ WF_allVars(GeoStep(Age(k)))
                        /\ SF_allVars(GeoStep(Answered(k)))

MCSpec == MCInit /\ [][MCNext]_allVars /\ MCFairness

-----------------------------------------------------------------------------
(* GeoCache: every source comes to have a file as new as those being served.  *)
CacheFollows == \A k \in Keys : <>[](part = "geo" => Served(k))
=============================================================================
