---------------------------- MODULE MCAdmission ----------------------------
(* Admission for TLC: two hooks, and documents that share names, ids and groups. *)
EXTENDS Admission

mcPaths == <<"h1", "h2">>

kube(n, g, inc) == [name |-> n, group |-> g, includes |-> inc, queue |-> NoQueue, wait |-> "",
                    onSynchronization |-> "", wellFormed |-> TRUE]
plain(n, g, inc) == [name |-> n, group |-> g, includes |-> inc, queue |-> "q", wellFormed |-> TRUE]

doc(k, sch, v, m) ==
    [version |-> "v1", schema |-> TRUE, settings |-> Missing, onStartup |-> Missing, kubernetes |-> k,
     schedule |-> sch, validating |-> v, mutating |-> m, conversion |-> <<>>]

\* The names a.b and a-b have the same id.
safe == ("a.b" :> "a-b") @@ ("a-b" :> "a-b") @@ ("c.d" :> "c-d")

mcDocuments ==
    { \* one validating webhook, with snapshots, and a group
      doc(<<kube("pods", "g", <<>>), kube(Unnamed, "g", <<"pods">>)>>, <<plain(Unnamed, "g", <<>>)>>,
          <<plain("a.b", NoGroup, <<"kubernetes">>)>>, <<>>),
      \* the same id and a mutating webhook
      doc(<<kube("pods", NoGroup, <<>>)>>, <<>>, <<plain("a-b", NoGroup, <<"pods">>)>>, <<plain("c.d", "g", <<>>)>>),
      \* an id for both types
      doc(<<>>, <<>>, <<>>, <<plain("a.b", NoGroup, <<>>)>>),
      \* one mutating name twice
      doc(<<kube("pods", NoGroup, <<>>)>>, <<>>, <<>>, <<plain("c.d", NoGroup, <<"pods">>), plain("c.d", NoGroup, <<>>)>>),
      \* snapshots that do not exist
      doc(<<kube("pods", NoGroup, <<>>)>>, <<>>, <<plain("a.b", NoGroup, <<"nodes">>)>>, <<>>),
      \* version 0
      [doc(<<kube(Unnamed, NoGroup, <<>>)>>, <<plain(Unnamed, NoGroup, <<>>)>>, <<>>, <<>>) EXCEPT !.version = Missing],
      Unreadable }
=============================================================================
