----------------------------- MODULE EdgeRules ------------------------------
(***************************************************************************)
(* How the guard in front of a protected site judges one visit             *)
(* (internal/edgerules, internal/guard): whose address the forwarded       *)
(* headers give, what is looked up about it, and what the app's rules say, *)
(* with a third truth value for what is not known.                         *)
(*                                                                         *)
(* A value is a name, and a range of addresses the set of them; the        *)
(* comparisons other than equality are the relation Within.  A visit says  *)
(* who really came, through which proxies, and with which headers of its   *)
(* own; the tunnel, where there is one, adds its own about the visitor.    *)
(***************************************************************************)
EXTENDS Integers, Sequences, SequencesExt, FiniteSets

CONSTANTS
    RuleSets,    \* the rule sets judged by
    Visits,      \* [from, hops, forged, path, tunnel, named]; named: Cloudflare says the country
    Trusts,      \* [proxies, cloudflare]
    CountryOf, NetworkOf,   \* what is so, of each address
    Loaded,      \* the sets of databases the guard may have
    Within,      \* the triples <<operator, value, wanted>> that hold
    MaxDepth     \* how deep conditions may nest

VARIABLE asked   \* one visit, the rules and the verdict: [visit, set, trust, known, verdict]

edgeRuleVars == <<asked>>

-----------------------------------------------------------------------------
(* One condition.                                                          *)

Fields == {"ip.src", "ip.country", "ip.asn", "http.path"}
Looked == {"ip.src", "ip.country", "ip.asn"}
Operators == {"in", "not_in", "starts_with", "matches"}

NegateIf(negate, truth) ==
    IF ~negate \/ truth = "unknown" THEN truth ELSE IF truth = "true" THEN "false" ELSE "true"
BoolTruth(b) == IF b THEN "true" ELSE "false"

\* A pattern that does not compile makes the test one that cannot be answered.
Compare(test, value) ==
    IF test.op \notin Operators \/ (test.op = "matches" /\ "(" \in test.wanted) THEN "unknown"
    ELSE NegateIf(test.op = "not_in",
                  BoolTruth(\E want \in test.wanted : IF test.op \in {"in", "not_in"} THEN value = want
                                                      ELSE <<test.op, value, want>> \in Within))

\* What is looked up may be unknown; so is a field the guard has never heard of.
TestEvaluate(test, req) ==
    IF test.field \notin Fields \/ (test.field \in Looked /\ req[test.field] = "") THEN "unknown"
    ELSE Compare(test, req[test.field])

\* One that is not known is forgotten when another is false.
RECURSIVE ExprEvaluate_AnyForgets(_, _)
ExprEvaluate_AnyForgets(e, req) ==
    LET subs == {ExprEvaluate_AnyForgets(sub, req) : sub \in ToSet(e.subs)} IN
    CASE e.kind = "test" -> TestEvaluate(e.test, req)
      [] e.kind = "not"  -> NegateIf(TRUE, ExprEvaluate_AnyForgets(e.subs[1], req))
      [] e.kind = "any" /\ subs # {} -> BoolTruth("true" \in subs)
      [] e.kind = "all" /\ subs # {} ->
            IF "false" \in subs THEN "false" ELSE IF "unknown" \in subs THEN "unknown" ELSE "true"
      [] e.kind = "none" -> "true"
      [] OTHER -> "unknown"
RECURSIVE ExprEvaluate(_, _)
ExprEvaluate(e, req) ==
    LET subs == {ExprEvaluate(sub, req) : sub \in ToSet(e.subs)} IN
    CASE e.kind = "test" -> TestEvaluate(e.test, req)
      [] e.kind = "not"  -> NegateIf(TRUE, ExprEvaluate(e.subs[1], req))
      [] e.kind = "any" /\ subs # {} ->
            IF "true" \in subs THEN "true" ELSE IF "unknown" \in subs THEN "unknown" ELSE "false"
      [] e.kind = "all" /\ subs # {} ->
            IF "false" \in subs THEN "false" ELSE IF "unknown" \in subs THEN "unknown" ELSE "true"
      [] e.kind = "none" -> "true"
      [] OTHER -> "unknown"                  \* a group with nothing in it

\* Which databases the rules need.
RECURSIVE ExprNeeds(_)
ExprNeeds(e) ==
    IF e.kind = "test" THEN {e.test.field} \cap {"ip.country", "ip.asn"} ELSE UNION {ExprNeeds(sub) : sub \in ToSet(e.subs)}
RuleSetNeeds_First(set) == IF set.rules = <<>> THEN {} ELSE ExprNeeds(set.rules[1].expr)
RuleSetNeeds(set) == UNION {ExprNeeds(r.expr) : r \in ToSet(set.rules)}

TestValid(test) ==
    /\ test.field \in Fields /\ test.op \in Operators /\ test.wanted # {}
    /\ test.field \in Looked => test.op \in {"in", "not_in"}
    /\ test.op = "matches" => "(" \notin test.wanted
\* A group with nothing in it is let through.
RECURSIVE ExprValid_EmptyGroup(_, _)
ExprValid_EmptyGroup(e, depth) ==
    /\ depth <= MaxDepth
    /\ IF e.kind = "test" THEN TestValid(e.test) ELSE \A sub \in ToSet(e.subs) : ExprValid_EmptyGroup(sub, depth + 1)
RECURSIVE ExprValid(_, _)
ExprValid(e, depth) ==
    /\ depth <= MaxDepth
    /\ e.kind \in {"any", "all"} => e.subs # <<>>
    /\ IF e.kind = "test" THEN TestValid(e.test) ELSE \A sub \in ToSet(e.subs) : ExprValid(sub, depth + 1)
RuleSetValid(set) ==
    /\ set.default \in {"", "allow", "block"}
    /\ \A r \in ToSet(set.rules) : r.action \in {"allow", "block"} /\ ExprValid(r.expr, 0)

\* The first rule that matches decides; one that cannot be answered is skipped, and said so.
Evaluate(set, req) ==
    LET truth == [i \in DOMAIN set.rules |->
                     IF set.rules[i].enabled THEN ExprEvaluate(set.rules[i].expr, req) ELSE "false"]
        first == SelectInSeq(truth, LAMBDA t : t = "true")
        tried == IF first = 0 THEN DOMAIN truth ELSE 1..(first - 1)
    IN  [rule    |-> first,
         action  |-> IF first # 0 THEN set.rules[first].action ELSE IF set.default = "block" THEN "block" ELSE "allow",
         skipped |-> {i \in tried : truth[i] = "unknown"}]

-----------------------------------------------------------------------------
(* Whose visit it is.                                                      *)

\* Each proxy adds the address that called it; the tunnel says who came in headers of its own.
PeerAddr(visit) == IF visit.hops = <<>> THEN visit.from ELSE Last(visit.hops)
ForwardedFor(visit) == IF visit.hops = <<>> THEN visit.forged ELSE visit.forged \o <<visit.from>> \o Front(visit.hops)

\* The entry nearest to us that is not one of our proxies; one that is no address ends the search.
ClientIP_LeftMost(visit, trust) ==
    LET entries == ForwardedFor(visit) IN
    IF PeerAddr(visit) \notin trust.proxies \/ entries = <<>> THEN PeerAddr(visit)
    ELSE IF trust.cloudflare /\ visit.tunnel THEN visit.from ELSE Head(entries)
ClientIP(visit, trust) ==
    LET entries == ForwardedFor(visit)
        strange == SelectLastInSeq(entries, LAMBDA ip : ip \notin trust.proxies)
        peer == PeerAddr(visit)
    IN  IF peer \notin trust.proxies THEN peer
        ELSE IF trust.cloudflare /\ visit.tunnel THEN visit.from
        ELSE IF entries = <<>> THEN peer
        ELSE IF strange = 0 THEN Head(entries)
        ELSE IF entries[strange] = "bad" THEN peer ELSE entries[strange]

\* Cloudflare's country, unless it is one of the two that are not a country.
ClientCountry(visit, trust) ==
    IF trust.cloudflare /\ PeerAddr(visit) \in trust.proxies /\ visit.tunnel /\ visit.named THEN CountryOf[visit.from] ELSE ""

\* The databases are asked only for what the rules test and the headers did not say.
Lookup(set, visit, trust, known) ==
    LET ip == ClientIP(visit, trust)
        said == ClientCountry(visit, trust)
        needs == RuleSetNeeds(set)
        ask == ("ip.country" \in needs /\ said = "") \/ "ip.asn" \in needs
    IN  ("ip.src" :> ip) @@ ("http.path" :> visit.path)
        @@ ("ip.country" :> IF said = "" /\ ask /\ "ip.country" \in known THEN CountryOf[ip] ELSE said)
        @@ ("ip.asn" :> IF ask /\ "ip.asn" \in known THEN NetworkOf[ip] ELSE "")

EdgeRulesInit ==
    asked \in {[visit |-> v, set |-> s, trust |-> t, known |-> k, verdict |-> {}] :
               v \in Visits, s \in RuleSets, t \in Trusts, k \in Loaded}
Decide ==
    /\ asked.verdict = {}
    /\ asked' = [asked EXCEPT !.verdict =
                    {Evaluate(asked.set, Lookup(asked.set, asked.visit, asked.trust, asked.known))}]
EdgeRulesNext == Decide

-----------------------------------------------------------------------------
(* Properties.                                                             *)

\* What is so of the visitor, as far as the guard can know it.
Truly(a) ==
    LET v == a.visit
        named == a.trust.cloudflare /\ v.tunnel /\ v.named /\ PeerAddr(v) \in a.trust.proxies
    IN  ("ip.src" :> v.from) @@ ("http.path" :> v.path)
        @@ ("ip.country" :> IF "ip.country" \in a.known \/ named THEN CountryOf[v.from] ELSE "")
        @@ ("ip.asn" :> IF "ip.asn" \in a.known THEN NetworkOf[v.from] ELSE "")

\* However many entries a visitor writes into the forwarded headers, and through however many of
\* the proxies the panel trusts it comes, it is judged as itself: by its own address and by everything the databases
\* know of it that some rule tests (ClientIP, Needs and Decide together).
JudgedAsThemselves ==
    ToSet(asked.visit.hops) \subseteq asked.trust.proxies /\ asked.visit.from \notin asked.trust.proxies =>
        \A v \in asked.verdict : v = Evaluate(asked.set, Truly(asked))

\* Everything the unknown facts of a request could be.
Completions(req) ==
    {[f \in Fields |-> IF f \in Looked /\ req[f] = "" THEN guess[f] ELSE req[f]] :
     guess \in [Looked -> {"ID", "AS1", "a1"}]}
\* The third truth value is honest: a condition found true or false stays so whatever the unknown
\* facts turn out to be, so an exception inside a negation never blocks on a guess; and a rule set
\* the panel accepted skips no rule once everything is known.
OnlyTheUnknownIsSkipped ==
    \A v \in asked.verdict :
        LET req == Lookup(asked.set, asked.visit, asked.trust, asked.known) IN
        /\ \A r \in ToSet(asked.set.rules) : ExprEvaluate(r.expr, req) # "unknown" =>
               \A full \in Completions(req) : ExprEvaluate(r.expr, full) = ExprEvaluate(r.expr, req)
        /\ RuleSetValid(asked.set) => \A full \in Completions(req) : Evaluate(asked.set, full).skipped = {}
=============================================================================
