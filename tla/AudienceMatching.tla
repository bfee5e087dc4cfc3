-------------------------- MODULE AudienceMatching --------------------------
(***************************************************************************)
(* Which businesses the index offers an audience, and in which order       *)
(* (ProfileMatchService.match): a SELECT that keeps the businesses with a   *)
(* gap, orders them by what SQL can count and stops at a pool; then a       *)
(* score in Python over facts that are read again, whose best are the       *)
(* window.  Distance, confidence of the membership and id break the ties    *)
(* of both orders; here any order of equals will do.                        *)
(***************************************************************************)
EXTENDS Integers, FiniteSets, FiniteSetsExt

CONSTANTS
    Business,     \* businesses of the audience's market
    Signal,       \* signal_keys of the audience
    MissingSite,  \* the one that holds of a business without a website
    Service,      \* service_keys
    Weight,       \* weight of a signal for a service, 0 where it is not mapped
    MinScore,     \* audience_min_score
    Finding,      \* what the facts of a business may amount to: an attribute_score per signal
    PoolSize,     \* candidate_limit, which is at least 100
    WindowSize    \* limit, which is at least 100

Unknown == -1   \* no fact of the business is eligible

ASSUME MatchingAssumption ==
    /\ IsFiniteSet(Business) /\ IsFiniteSet(Signal) /\ IsFiniteSet(Service)
    /\ Signal # {}
    /\ MinScore \in Nat \ {0}
    /\ Weight \in [Service -> [Signal -> Nat]]
    /\ Finding \in (SUBSET [Signal -> Nat \cup {Unknown}]) \ {{}}
    /\ PoolSize \in Nat \ {0} /\ WindowSize \in Nat \ {0}

\* The signals that make a business a match (_signal_condition in SQL and
\* _signal_match_confidence over the loaded fact).
Gaps(f) == {s \in Signal : f[s] >= MinScore}

\* A signal counts as much as for the service it matters most to, and one if it
\* is mapped to none.
SignalWeight(s) ==
    LET mapped == {Weight[k][s] : k \in Service} \ {0}
    IN  IF mapped = {} THEN 1 ELSE Max(mapped)

\* weighted_match_score
Weighted(f) == MapThenSumSet(SignalWeight, Gaps(f))

\* website_improvement_score, in tenths: the best composite score among the services
\* that have a gap, where signals that were not evaluated count as nothing.
Improvement(f) ==
    LET total(k) == MapThenSumSet(LAMBDA s : Weight[k][s], Signal)
        weighted(k) ==
            MapThenSumSet(LAMBDA s : Weight[k][s] * f[s], {s \in Signal : f[s] # Unknown})
        matched == {k \in Service : \E s \in Gaps(f) : Weight[k][s] > 0}
    IN  Max({0} \cup {(20 * weighted(k) + total(k)) \div (2 * total(k)) : k \in matched})

\* ORDER BY of the SELECT: the number of gaps, then their weight.
SelectedBefore ==
    [f \in Finding |-> [g \in Finding |->
        \/ Cardinality(Gaps(f)) > Cardinality(Gaps(g))
        \/ Cardinality(Gaps(f)) = Cardinality(Gaps(g)) /\ Weighted(f) > Weighted(g)]]

\* _evidence_result_sort_key: a missing website is always the strongest opportunity.
ScoredBefore ==
    LET missing(f) == MissingSite \in Gaps(f)
    IN  [f \in Finding |-> [g \in Finding |->
            \/ missing(f) /\ ~missing(g)
            \/ missing(f) = missing(g) /\ Improvement(f) > Improvement(g)]]

\* The best n of S, where before(b, c) says that b is better than c.
Best(n, S, before(_, _)) ==
    {P \in SUBSET S :
        /\ Cardinality(P) = Min({n, Cardinality(S)})
        /\ \A b \in P, c \in S \ P : ~before(c, b)}

Matches(found) == {b \in Business : Gaps(found[b]) # {}}

\* The pools the SELECT may return of what is found now.
Pools(found) ==
    Best(PoolSize, Matches(found), LAMBDA b, c : SelectedBefore[found[b]][found[c]])

\* The windows of a pool, by what is found when its facts are read again.
Windows(pool, found) ==
    Best(WindowSize, pool, LAMBDA b, c : ScoredBefore[found[b]][found[c]])
=============================================================================
