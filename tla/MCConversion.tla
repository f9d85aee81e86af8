---------------------------- MODULE MCConversion ---------------------------
(* Conversion for TLC: rules over short and full versions, two hooks, one CRD or two. *)
EXTENDS Conversion

s(n) == [group |-> Short, name |-> n]
f(n) == [group |-> Group, name |-> n]
rule(a, b) == [from |-> a, to |-> b]

\* One hook converts between short versions, the other between full ones; the last two are a
\* chain of four rules, whose longer paths share an array, and two CRDs.
both(S, T) == <<[hook |-> "h1", crd |-> "crontab", rules |-> S],
                [hook |-> "h2", crd |-> "crontab", rules |-> T]>>
smallBindings ==
    {both(<<rule(s("v1"), s("v2"))>>, T) :
        T \in {<<rule(s("v2"), f("v3")), rule(s("v5"), s("v4"))>>, <<rule(f("v3"), s("v4"))>>,
               <<rule(f("v2"), f("v3")), rule(f("v3"), s("v4")), rule(s("v4"), f("v2"))>>}}
    \cup {both(<<rule(s("v1"), s("v2")), rule(s("v2"), s("v1")), rule(s("v2"), s("v3"))>>,
               <<rule(f("v3"), s("v4"))>>),
          both(<<rule(s("v1"), s("v2")), rule(s("v2"), f("v3")), rule(s("v3"), s("v4"))>>,
               <<rule(s("v4"), s("v5"))>>),
          <<[hook |-> "h1", crd |-> "crontab", rules |-> <<rule(s("v1"), s("v2"))>>],
            [hook |-> "h2", crd |-> "backup", rules |-> <<rule(s("v1"), f("v2"))>>]>>}

smallInputs ==
    {[crd |-> "crontab", objects |-> <<f("v3"), f("v1")>>, desired |-> f("v4")],
     [crd |-> "crontab", objects |-> <<f("v1")>>, desired |-> f("v5")],
     [crd |-> "backup", objects |-> <<f("v1")>>, desired |-> f("v2")]}

\* A chain of four rules that forks at its end, and names of which one is a part of another.
longBindings ==
    {<<[hook |-> "h1", crd |-> "crontab",
        rules |-> <<rule(s("v1"), s("v2")), rule(s("v2"), s("v3")), rule(s("v3"), s("v4")),
                    rule(s("v4"), s("v5")), rule(s("v4"), s("v6"))>>]>>}
longInputs == {[crd |-> "crontab", objects |-> <<f("v1")>>, desired |-> f("v5")]}

betaBindings ==
    {<<[hook |-> "h1", crd |-> "crontab",
        rules |-> <<rule(s("v2"), s("v1")), rule(s("v1"), s("v1beta1")),
                    rule(s("v1beta1"), s("v1alpha1"))>>]>>}
betaNames == {<<"v1beta1", "v1">>, <<"v1alpha1", "v1">>}
betaInputs == {[crd |-> "crontab", objects |-> <<f("v2")>>, desired |-> f("v1alpha1")]}
=============================================================================
