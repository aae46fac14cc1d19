------------------------------- MODULE Router -------------------------------
(***************************************************************************)
(* Where a host is routed (mirage/core/router.py): the rules a configuration *)
(* is expanded into and the first one that matches.                        *)
(*                                                                         *)
(* A host is a row of labels, or an address (a number) under an opaque      *)
(* name.  A keyword is a run of labels, a regular expression a run of items *)
(* each a label or a choice of labels, a network an interval.               *)
(***************************************************************************)
EXTENDS Integers, Sequences, SequencesExt, FiniteSets

CONSTANTS
    Configs,     \* [style |-> "struct" or "csv", rules |-> sequence, final]
    SiteFiles,   \* source -> geosite.dat, a sequence of [code, items] or Bad
    IpFiles,     \* source -> geoip.dat, a sequence of [code, nets, inverse]
    DefaultSite, DefaultIp,   \* the first source of each kind
    Actions,     \* tags of the outbounds
    LegacyMap,   \* PROXY, DIRECT, REJECT -> tag
    BloomAt,     \* _BLOOM_THRESHOLD
    BloomAlso,   \* runs of labels for which a filter says yes anyway
    Hosts,       \* [name, addr]
    NoAddr, NoRule, Bad

VARIABLES config, rest, rules, default

routerVars == <<config, rest, rules, default>>

IsRow(s) == s \in Seq(ToSet(s))

(* What the parsers make: the values of a file are not empty (_parse_domain_msg), *)
(* networks have a first and a last address, patterns items.                 *)
ASSUME RouterAssumption ==
    /\ \A h \in Hosts : IsRow(h.name) /\ h.addr \in Int \cup {NoAddr}
    /\ \A s \in DOMAIN SiteFiles :
          /\ IsRow(SiteFiles[s])
          /\ \A f \in ToSet(SiteFiles[s]) \ {Bad} : \A i \in ToSet(f.items) :
                i.type = "suffix" => IsRow(i.value) /\ i.value # <<>>
    /\ \A s \in DOMAIN IpFiles :
          /\ IsRow(IpFiles[s])
          /\ \A f \in ToSet(IpFiles[s]) \ {Bad} :
                IsRow(f.nets) /\ ToSet(f.nets) \subseteq Int \X Int
    /\ \A c \in Configs :
          /\ c.style \in {"struct", "csv"} /\ IsRow(c.rules)
          /\ c.style = "struct" => \A e \in ToSet(c.rules) :
                /\ e.invert \in BOOLEAN /\ IsFiniteSet(e.crits)
                /\ \A k \in e.crits : /\ IsRow(k.values)
                                      /\ k.field = "domain_regex" =>
                                            \A v \in ToSet(k.values) \ {Bad} : IsRow(v)
          /\ c.style = "csv" => \A l \in ToSet(c.rules) :
                l.field = "domain_regex" /\ l.value # Bad => IsRow(l.value)

(* A legacy keyword is replaced by the tag it stands for.                    *)
Mapped(a) == IF a \in DOMAIN LegacyMap THEN LegacyMap[a] ELSE a

InitialDefault == IF DOMAIN LegacyMap = {} THEN "direct" ELSE Mapped("PROXY")

RouterInit ==
    /\ config \in Configs
    /\ rest = config.rules /\ rules = <<>>
    /\ default = IF config.style = "struct" /\ config.final # NoRule THEN config.final
                 ELSE InitialDefault

-----------------------------------------------------------------------------
(* _extract_literal: the longest run of plain labels of a pattern; only the   *)
(* top level of the pattern counts, and a run without a dot is of no use.     *)
Plain(p, i, j) == \A k \in i .. j : \E x \in p[k] : p[k] = {x}
Text(p, i, j) == [k \in 1 .. j - i + 1 |-> CHOOSE x \in p[i + k - 1] : TRUE]
Runs(p) == {Text(p, r[1], r[2]) :
              r \in {q \in (DOMAIN p) \X (DOMAIN p) : q[1] < q[2] /\ Plain(p, q[1], q[2])}}
ExtractLiteral(p) ==
    IF Runs(p) = {} THEN <<>>
    ELSE CHOOSE t \in Runs(p) : \A u \in Runs(p) : Len(u) <= Len(t)

Within(t, name) == \E i \in 0 .. Len(name) - Len(t) :
                      \A k \in DOMAIN t : name[i + k] = t[k]
Search(p, name) == \E i \in 0 .. Len(name) - Len(p) :
                      \A k \in DOMAIN p : name[i + k] \in p[k]

(* What is read of a file: everything before the first entry that does not   *)
(* parse; a code that comes again replaces the earlier one.  A source that is *)
(* not there is empty.                                                       *)
Read(files, source) ==
    LET f == IF source \in DOMAIN files THEN files[source] ELSE <<>>
        bad == {i \in DOMAIN f : f[i] = Bad}
        good == {i \in DOMAIN f : \A b \in bad : i < b}
        last == {i \in good : \A j \in good : f[j].code = f[i].code => j <= i}
    IN  {f[i] : i \in last}

BySource(v, first) == IF v[1] = "" THEN <<first, v[2]>> ELSE v
SiteEntry(v) == {e \in Read(SiteFiles, BySource(v, DefaultSite)[1]) : e.code = v[2]}
IpEntry(v) == {e \in Read(IpFiles, BySource(v, DefaultIp)[1]) : e.code = v[2]}

-----------------------------------------------------------------------------
(* _v4_contains: bisect the intervals, sorted by their start, for the last    *)
(* one that starts at or before the address, and look at all before it.  A    *)
(* round of the loop narrows what is left, so Len(v4) of them empty it.       *)
Before(m, n) == m[1] < n[1] \/ (m[1] = n[1] /\ m[2] <= n[2])
Sorted(nets) ==
    CHOOSE s \in [1 .. Cardinality(ToSet(nets)) -> ToSet(nets)] :
        ToSet(s) = ToSet(nets) /\ \A i, j \in DOMAIN s : i <= j => Before(s[i], s[j])

Probe(v4, a, s) ==
    LET mid == (s.lo + s.hi) \div 2 IN
    IF s.lo > s.hi THEN s
    ELSE IF v4[mid][1] <= a THEN [lo |-> mid + 1, hi |-> s.hi, best |-> mid]
                            ELSE [lo |-> s.lo, hi |-> mid - 1, best |-> s.best]
Bisect(v4, a) ==
    LET search[n \in 0 .. Len(v4)] == IF n = 0 THEN [lo |-> 1, hi |-> Len(v4), best |-> 0]
                                      ELSE Probe(v4, a, search[n - 1])
    IN  search[Len(v4)].best

(* Mutant: only the last one that starts before the address.                 *)
V4Contains_LastOnly(v4, a) ==
    LET b == Bisect(v4, a) IN b > 0 /\ v4[b][2] >= a
V4Contains(v4, a) ==
    \E i \in 1 .. Bisect(v4, a) : v4[i][1] <= a /\ v4[i][2] >= a

(* _GeositeRule: exact names; the tails of the host after each of its dots,   *)
(* through the filter if the table is large; keywords.  Regular expressions   *)
(* (type 1) are not kept.                                                     *)
Items(e, type) == {i.value : i \in {j \in ToSet(e.items) : j.type = type}}
Bloom(S, t) == Cardinality(S) >= BloomAt => t \in S \cup BloomAlso
SiteMatches(e, name) ==
    \/ name \in Items(e, "exact")
    \/ \E i \in 2 .. Len(name) : LET t == SubSeq(name, i, Len(name)) IN
          Bloom(Items(e, "suffix"), t) /\ t \in Items(e, "suffix")
    \/ \E k \in Items(e, "keyword") : Within(k, name)

IpMatches(e, a) == a # NoAddr /\ V4Contains(Sorted(e.nets), a) # e.inverse

IsTail(d, name) == Len(d) <= Len(name) /\ SubSeq(name, Len(name) - Len(d) + 1, Len(name)) = d

(* _inner of each rule.                                                      *)
Inner(field, v, h) ==
    CASE field = "domain" -> h.name = v
      [] field = "domain_suffix" -> IsTail(v, h.name)
      [] field = "domain_keyword" -> Within(v, h.name)
      [] field = "domain_regex" -> Within(ExtractLiteral(v), h.name) /\ Search(v, h.name)
      [] field = "ip_cidr" -> h.addr # NoAddr /\ v[1] <= h.addr /\ h.addr <= v[2]
      [] field = "rule_set" -> \E e \in SiteEntry(v) : SiteMatches(e, h.name)
      [] field = "geoip" -> \E e \in IpEntry(v) : IpMatches(e, h.addr)

(* A rule is a set of groups of criteria, one of each group has to hold; one  *)
(* criterion of one group but for the AND rules.                              *)
Matches(r, h) == r.invert # (\A g \in r.groups : \E c \in g : Inner(c[1], c[2], h))

First(S) == CHOOSE i \in S : \A j \in S : i <= j
Match(h) ==
    LET hits == {i \in DOMAIN rules : Matches(rules[i], h)}
    IN  IF hits = {} THEN default ELSE rules[First(hits)].action

-----------------------------------------------------------------------------
Fields == {"domain", "domain_suffix", "domain_keyword", "domain_regex", "ip_cidr",
           "rule_set", "geoip"}

(* _make_rule: unknown tags and codes make no rule, nor do values that do not *)
(* parse.                                                                    *)
Makes(field, v) == /\ v # Bad
                   /\ field = "rule_set" => SiteEntry(v) # {}
                   /\ field = "geoip" => IpEntry(v) # {}
ExpandField(c) == {<<c.field, v>> : v \in {w \in ToSet(c.values) : Makes(c.field, w)}}

Rule(groups, action, invert) == [groups |-> groups, action |-> action, invert |-> invert]
Criteria(e) == {c \in e.crits : c.field \in Fields}

UsesAnd(e) == Cardinality(Criteria(e)) > 1 /\ e.mode = "and"

(* mode "and": one rule, unless a field expands to nothing.                  *)
AndRules(e) ==
    LET groups == {ExpandField(c) : c \in Criteria(e)}
    IN  IF {} \in groups THEN <<>> ELSE <<Rule(groups, e.action, e.invert)>>

(* Otherwise every value of every field makes a rule of its own.  They only   *)
(* differ in their criterion, so that their order decides nothing.           *)
OrRules(e) == SetToSeq({Rule({{c}}, e.action, e.invert) :
                           c \in UNION {ExpandField(k) : k \in Criteria(e)}})

Usable(e) == e.action \in Actions /\ Criteria(e) # {}

ApplyStructured ==
    /\ config.style = "struct" /\ rest # <<>>
    /\ LET e == Head(rest) IN
         rules' = IF ~Usable(e) THEN rules
                  ELSE rules \o IF UsesAnd(e) THEN AndRules(e) ELSE OrRules(e)
    /\ rest' = Tail(rest)
    /\ UNCHANGED <<config, default>>

(* A line of the old format; FINAL sets the default wherever it stands.       *)
ApplyCsv ==
    /\ config.style = "csv" /\ rest # <<>>
    /\ LET l == Head(rest) IN
         \/ /\ l.field = "FINAL"
            /\ default' = Mapped(l.action)
            /\ UNCHANGED rules
         \/ /\ l.field # "FINAL"
            /\ rules' = IF l.field \in Fields /\ Mapped(l.action) \in Actions /\ Makes(l.field, l.value)
                        THEN Append(rules, Rule({{<<l.field, l.value>>}}, Mapped(l.action), FALSE))
                        ELSE rules
            /\ UNCHANGED default
    /\ rest' = Tail(rest)
    /\ UNCHANGED config

RouterNext == ApplyStructured \/ ApplyCsv
RouterSpec == RouterInit /\ [][RouterNext]_routerVars

-----------------------------------------------------------------------------
(* What the documentation promises of one criterion ...                      *)
Holds(field, v, h) ==
    CASE field \in {"domain", "domain_suffix", "domain_keyword", "ip_cidr"} -> Inner(field, v, h)
      [] field = "domain_regex" -> Search(v, h.name)
      [] field = "rule_set" -> \E e \in SiteEntry(v) : \E i \in ToSet(e.items) :
            \/ i.type = "exact" /\ h.name = i.value
            \/ i.type = "suffix" /\ IsTail(i.value, h.name)
            \/ i.type = "keyword" /\ Within(i.value, h.name)
      [] field = "geoip" -> \E e \in IpEntry(v) : h.addr # NoAddr /\
            e.inverse # \E n \in ToSet(e.nets) : n[1] <= h.addr /\ h.addr <= n[2]

(* ... and of an entry: any field or all of them, any value of a field.      *)
Says(e, h) ==
    LET F(c) == \E v \in ToSet(c.values) : Makes(c.field, v) /\ Holds(c.field, v, h)
        Made(c) == \E v \in ToSet(c.values) : Makes(c.field, v)
    IN  /\ Usable(e)
        /\ IF UsesAnd(e) THEN \A c \in Criteria(e) : Made(c) ELSE \E c \in Criteria(e) : Made(c)
        /\ e.invert # IF UsesAnd(e) THEN \A c \in Criteria(e) : F(c) ELSE \E c \in Criteria(e) : F(c)

(* Two things the code does otherwise: an inverted entry with several         *)
(* criteria, any of which is to hold, becomes several inverted rules; and the *)
(* domain of a geosite suffix entry is not a tail after a dot of itself.       *)
SplitInvert(e) == e.invert /\ ~UsesAnd(e) /\ Len(OrRules(e)) > 1
OwnSuffix(h) == \E s \in DOMAIN SiteFiles : \E e \in Read(SiteFiles, s) : h.name \in Items(e, "suffix")

(* A line of the old format says of a host what its one criterion says, and   *)
(* hosts of which nothing is said go where the last FINAL line says.         *)
LineSays(l, h) == /\ l.field \in Fields /\ Mapped(l.action) \in Actions
                  /\ Makes(l.field, l.value) /\ Holds(l.field, l.value, h)

Speaks(c, i, h) == IF c.style = "struct" THEN Says(c.rules[i], h) ELSE LineSays(c.rules[i], h)
Outbound(c, i) == IF c.style = "struct" THEN c.rules[i].action ELSE Mapped(c.rules[i].action)
Finals(c) == IF c.style = "struct" THEN {} ELSE {i \in DOMAIN c.rules : c.rules[i].field = "FINAL"}
Fallback(c) ==
    IF Finals(c) # {} THEN Outbound(c, CHOOSE i \in Finals(c) : \A j \in Finals(c) : j <= i)
    ELSE IF c.style = "struct" /\ c.final # NoRule THEN c.final ELSE InitialDefault

Plainly(c) == c.style = "struct" => \A i \in DOMAIN c.rules : ~SplitInvert(c.rules[i])

(* With the bisection, the filters, the literals and the expansion, a host   *)
(* goes where the first entry that speaks of it says, or to the default if    *)
(* none does (router.py:572-590, 743-800, 829-898).                          *)
RoutesAsWritten ==
    rest = <<>> /\ Plainly(config) =>
        \A h \in {g \in Hosts : ~OwnSuffix(g)} :
            LET said == {i \in DOMAIN config.rules : Speaks(config, i, h)}
            IN  Match(h) = IF said = {} THEN Fallback(config) ELSE Outbound(config, First(said))
=============================================================================
