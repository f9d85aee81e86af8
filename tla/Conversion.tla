----------------------------- MODULE Conversion ----------------------------
(***************************************************************************)
(* Conversion webhooks: the chains of conversion rules and their cache     *)
(* (pkg/webhook/conversion/chain.go), the registration of webhooks in CRDs *)
(* (manager.go, crd_client_config.go, ConversionBindingsController) and    *)
(* ConversionReview requests, which run one hook for each rule of a chain  *)
(* (handler.go, ConversionEventHandler in shell-operator).                 *)
(*                                                                         *)
(* A version is a name with a group or, in short form, without.  Requests  *)
(* are served concurrently and share the cache, which no lock protects.    *)
(* Paths are Go slices: the append that extends a path writes to its array *)
(* while that has room, also where other paths are windows on it.          *)
(***************************************************************************)
EXTENDS Integers, Sequences, FiniteSets, SequencesExt

CONSTANTS
    Group,          \* API group of the CRDs
    BindingChoices, \* sets of conversion bindings the hooks may have, as sequences in the
                    \* order of hooks: [hook, crd, rules]
    Within,         \* pairs of different names <<a, b>> where b is a part of the string a
    Requests,       \* goroutines that serve requests
    Inputs,         \* what a request may ask: [crd, objects, desired]
    MaxReviews,     \* bound: requests in all
    PatchRetries    \* retryBudget of PatchConversion

VARIABLES
    bindings,  \* conversion bindings of the loaded hooks
    phase,     \* the main goroutine: "load", "enable", "listen", "patch", "serve", "failed"
    chains,    \* ChainStorage.Chains: base rules and cached paths by CRD
    arrays,    \* arrays made for paths of three rules and more
    links,     \* links of the ConversionBindingsControllers: {[hook, crd, rule]}
    patched,   \* CRDs whose spec.conversion points to the operator
    retries,   \* attempts left for the CRD being patched
    request,   \* state of each request
    reviews,   \* requests so far
    crashed    \* the runtime has ended the process: a map was written while in use

setup == <<bindings, phase, links, patched, retries>>
vars == <<setup, chains, arrays, request, reviews, crashed>>

Short == ""
Idle == [at |-> "idle"]
HookOrder == [i \in DOMAIN bindings |-> bindings[i].hook]
Crds == {bindings[i].crd : i \in DOMAIN bindings}

-----------------------------------------------------------------------------
(* Versions and rules.                                                     *)

\* VersionsMatched.
VersionsMatched(v, w) ==
    \/ v = w
    \/ v.name = w.name /\ (v.group = Short) # (w.group = Short)

\* Cached paths that match a rule; an exact match is the only one looked at.
SimilarKeys(chain, rule) ==
    {k \in DOMAIN chain.paths : VersionsMatched(rule.to, k.to) /\ VersionsMatched(rule.from, k.from)}

\* SearchPathForRule: keys it may return, as maps are walked in any order.
SearchPathForRule(chain, rule) ==
    LET similar == SimilarKeys(chain, rule)
        toMatches == {k \in similar : rule.to.group # Short /\ k.to = rule.to}
        fromMatches == {k \in similar : rule.from.group # Short /\ k.from = rule.from}
    IN IF rule \in DOMAIN chain.paths THEN {rule}
       ELSE IF toMatches # {} THEN toMatches
       ELSE IF fromMatches # {} THEN fromMatches
       ELSE similar

HasTargetVersion(chain, v) == \E r \in chain.base : VersionsMatched(v, r.to)

\* Mutant: only base rules are extended, not the paths found in earlier rounds.
BaseRulesToExtend(chain, rule) ==
    {k \in chain.base : VersionsMatched(k.from, rule.from) /\ k.to.name # rule.from.name}

\* RulesWithSimilarFromVersion without those that lead back.
RulesToExtend(chain, rule) ==
    {k \in DOMAIN chain.paths : /\ VersionsMatched(k.from, rule.from)
                                /\ k.to.name # rule.from.name}

\* NextRules: the short version is looked for anywhere in the string.
NextRules(chain, v) ==
    {r \in chain.base : r.from = v \/ r.from.name = v.name \/ <<r.from.name, v.name>> \in Within}

-----------------------------------------------------------------------------
(* Paths.  A full array is replaced by one of twice its size: arrays have  *)
(* room for 1, 2, 4, 8 rules.  Those of one and two rules are always full, *)
(* so that nobody writes to them again.                                    *)

Owned(rules) == [rules |-> rules, array |-> 0, len |-> Len(rules)]
Window(a, n) == [rules |-> <<>>, array |-> a, len |-> n]

RulesIn(as, p) == IF p.array = 0 THEN p.rules ELSE SubSeq(as[p.array], 1, p.len)
RulesOf(p) == RulesIn(arrays, p)

Full(p) == \E k \in 0..p.len : p.len = 2^k

\* append of a rule to a path: the arrays afterwards, and the longer path.
Extended(as, p, r) ==
    IF p.len = 1 THEN [arrays |-> as, path |-> Owned(Append(p.rules, r))]
    ELSE IF Full(p)
         THEN [arrays |-> Append(as, Append(RulesIn(as, p), r)), path |-> Window(Len(as) + 1, p.len + 1)]
         ELSE [arrays |-> [as EXCEPT ![p.array] = IF Len(@) = p.len THEN Append(@, r)
                                                  ELSE ReplaceAt(@, p.len + 1, r)],
               path |-> Window(p.array, p.len + 1)]

\* Chain.Put.
Put(chain, r) == [base |-> chain.base \cup {r},
                  paths |-> [k \in DOMAIN chain.paths \cup {r} |->
                                IF k = r THEN Owned(<<r>>) ELSE chain.paths[k]]]

NoPaths == [k \in {} |-> Owned(<<>>)]
EmptyChain == [base |-> {}, paths |-> NoPaths]

NewKey(rule, r) == [from |-> rule.from, to |-> r.to]

\* Rules that a path is extended by: those that lead back are left out.
Extensions(chain, rule, k) == {r \in NextRules(chain, k.to) : r.to.name # rule.from.name}

\* Mutant: paths discovered before are taken for new ones.
NeverDiscovered(chain, key) == FALSE

\* SearchPathForRule finds a path for the new rule.
Discovered(chain, key) == SimilarKeys(chain, key) # {}

\* One append of a round of FindConversionChain: the array of the path is written to, or another
\* is made, before the new path turns out to be discovered already; only an array that has a
\* path matters.  A key may be found again in the same round.
TryExtension(chain, rule, k, st, r) ==
    LET longer == Extended(st.arrays, chain.paths[k], r)
        key == NewKey(rule, r)
    IN IF ~Discovered(chain, key)
       THEN [arrays |-> longer.arrays,
             found |-> [x \in DOMAIN st.found \cup {key} |-> IF x = key THEN longer.path ELSE st.found[x]]]
       ELSE [st EXCEPT !.arrays = IF Len(longer.arrays) = Len(@) THEN longer.arrays ELSE @]

-----------------------------------------------------------------------------
(* Loading and registration, by the main goroutine.                        *)

\* UpdateConversionChains.
UpdateConversionChains ==
    /\ phase = "load"
    /\ LET ofCrd(c) == UNION {ToSet(bindings[i].rules) : i \in {j \in DOMAIN bindings : bindings[j].crd = c}}
       IN chains' = [c \in Crds |-> FoldSet(LAMBDA r, ch : Put(ch, r), EmptyChain, ofCrd(c))]
    /\ phase' = "enable"
    /\ UNCHANGED <<bindings, links, patched, retries, arrays, request, reviews, crashed>>

\* EnableConversionBindings for every hook; AddWebhook collects the CRDs to patch.
EnableConversionBindings ==
    /\ phase = "enable"
    /\ links' = UNION {{[hook |-> bindings[i].hook, crd |-> bindings[i].crd, rule |-> r] :
                           r \in ToSet(bindings[i].rules)} : i \in DOMAIN bindings}
    /\ phase' = "listen"
    /\ UNCHANGED <<bindings, patched, retries, chains, arrays, request, reviews, crashed>>

\* WebhookServer.Start; certificates or the port may fail it.
StartServer ==
    /\ phase = "listen"
    /\ phase' \in {"patch", "failed"}
    /\ UNCHANGED <<bindings, links, patched, retries, chains, arrays, request, reviews, crashed>>

\* One attempt to patch spec.conversion of a CRD, in any order of CRDs.
PatchConversion(c) ==
    /\ phase = "patch"
    /\ c \in Crds \ patched
    /\ \/ patched' = patched \cup {c} /\ retries' = PatchRetries /\ UNCHANGED phase
       \/ retries > 0 /\ retries' = retries - 1 /\ UNCHANGED <<patched, phase>>
       \/ retries = 0 /\ phase' = "failed" /\ UNCHANGED <<patched, retries>>
    /\ UNCHANGED <<bindings, links, chains, arrays, request, reviews, crashed>>

Registered ==
    /\ phase = "patch"
    /\ Crds \subseteq patched
    /\ phase' = "serve"
    /\ UNCHANGED <<bindings, links, patched, retries, chains, arrays, request, reviews, crashed>>

-----------------------------------------------------------------------------
(* One request.                                                            *)

\* ExtractAPIVersions: distinct versions in the order of objects.
ExtractAPIVersions(objs) ==
    FoldLeft(LAMBDA acc, v : IF v \in ToSet(acc) THEN acc ELSE Append(acc, v), <<>>, objs)

Rule(r) == [from |-> Head(request[r].sources), to |-> request[r].desired]
Chain(r) == chains[request[r].crd]
Set(r, state) == request' = [request EXCEPT ![r] = state]

\* The API server sends a review for a CRD whose conversion points to the server; the server
\* begins a goroutine for it, and the first of those that are not in use is as good as any.
Receive(r) == \E in \in Inputs :
    /\ request[r].at = "idle"
    /\ \A s \in Requests : s < r => request[s].at # "idle"
    /\ phase \in {"patch", "serve"}
    /\ in.crd \in patched
    /\ reviews < MaxReviews
    /\ reviews' = reviews + 1
    /\ Set(r, [at |-> "source", crd |-> in.crd, asked |-> in.objects, objects |-> in.objects,
               desired |-> in.desired, sources |-> ExtractAPIVersions(in.objects),
               path |-> <<>>, todo |-> {}, overtaken |-> FALSE, found |-> NoPaths, good |-> TRUE])
    /\ UNCHANGED <<setup, chains, arrays, crashed>>

\* Answers of handleReviewRequest: errors and FailedMessage give a failure.
Answer(r, ok) == Set(r, [at |-> IF ok THEN "converted" ELSE "refused", crd |-> request[r].crd,
                         asked |-> request[r].asked, objects |-> request[r].objects,
                         desired |-> request[r].desired, good |-> request[r].good])

\* The next source version; without one the conversion was not successful.
NextSource(r) ==
    /\ request[r].at = "source"
    /\ IF request[r].sources = <<>> THEN Answer(r, FALSE)
       ELSE Set(r, [request[r] EXCEPT !.at = IF HasTargetVersion(Chain(r), request[r].desired)
                                             THEN "search" ELSE "nopath"])
    /\ UNCHANGED <<setup, chains, arrays, reviews, crashed>>

\* A round of FindConversionChain that finds a path.
FindPath(r) ==
    /\ request[r].at = "search"
    /\ \E k \in SearchPathForRule(Chain(r), Rule(r)) :
          Set(r, [request[r] EXCEPT !.at = "run", !.path = <<Chain(r).paths[k], 1>>])
    /\ UNCHANGED <<setup, chains, arrays, reviews, crashed>>

\* A round that finds none looks for paths to extend.
Explore(r) ==
    LET todo == {k \in RulesToExtend(Chain(r), Rule(r)) : Extensions(Chain(r), Rule(r), k) # {}} IN
    /\ request[r].at = "search"
    /\ SearchPathForRule(Chain(r), Rule(r)) = {}
    /\ Set(r, [request[r] EXCEPT !.at = IF todo = {} THEN "nopath" ELSE "explore", !.todo = todo])
    /\ UNCHANGED <<setup, chains, arrays, reviews, crashed>>

\* One of them is extended by every rule that may follow, in any order; after the last one the
\* search ends unless the round has found a path.
Extend(r) ==
    /\ request[r].at = "explore"
    /\ \E k \in request[r].todo : \E order \in SetToSeqs(Extensions(Chain(r), Rule(r), k)) :
          LET left == request[r].todo \ {k}
              st == FoldLeft(LAMBDA acc, x : TryExtension(Chain(r), Rule(r), k, acc, x),
                             [arrays |-> arrays, found |-> request[r].found], order)
          IN /\ arrays' = st.arrays
             /\ Set(r, [request[r] EXCEPT !.todo = left, !.found = st.found,
                           !.at = IF left # {} THEN "explore"
                                  ELSE IF DOMAIN st.found = {} THEN "nopath" ELSE "fill"])
    /\ UNCHANGED <<setup, chains, reviews, crashed>>

\* New paths are put in the cache, and the search begins another round.  A request in the middle
\* of a round takes what others put there for discovered: its round may then find nothing.
Fill(r) ==
    LET found == request[r].found
        grows == ~(DOMAIN found \subseteq DOMAIN Chain(r).paths)
        after(s) == IF s = r
                    THEN [request[s] EXCEPT !.at = "search", !.found = NoPaths, !.overtaken = FALSE]
                    ELSE IF grows /\ request[s].at = "explore" /\ request[s].crd = request[r].crd
                         THEN [request[s] EXCEPT !.overtaken = TRUE]
                         ELSE request[s]
    IN
    /\ request[r].at = "fill"
    /\ chains' = [chains EXCEPT ![request[r].crd].paths =
                     [k \in DOMAIN @ \cup DOMAIN found |-> IF k \in DOMAIN found THEN found[k] ELSE @[k]]]
    /\ request' = [s \in Requests |-> after(s)]
    /\ UNCHANGED <<setup, arrays, reviews, crashed>>

\* Go ends the process when it sees a map written while another goroutine uses it.
ConcurrentMapWrite ==
    /\ \E r, s \in Requests : /\ r # s
                              /\ request[r].at = "fill" /\ request[s].at \in {"search", "explore", "fill"}
                              /\ request[r].crd = request[s].crd
    /\ crashed' = TRUE
    /\ UNCHANGED <<setup, chains, arrays, request, reviews>>

\* No path from this version: the next one is tried.
NoPath(r) ==
    /\ request[r].at = "nopath"
    /\ Set(r, [request[r] EXCEPT !.at = "source", !.sources = Tail(@), !.overtaken = FALSE,
                             !.good = @ /\ ~request[r].overtaken])
    /\ UNCHANGED <<setup, chains, arrays, reviews, crashed>>

\* Mutant: the number of versions left is not looked at.
StillToConvertFirst(objs, desired) == objs = <<>> \/ Head(ExtractAPIVersions(objs)) # desired

\* Objects have to be converted further.
StillToConvert(objs, desired) == ExtractAPIVersions(objs) # <<desired>>

\* What a hook may do with the objects for a rule: convert those of the rule's version, or
\* answer with other objects, fewer or none (also when it reports a failedMessage).
Faithful(objs, rule) ==
    [i \in DOMAIN objs |-> IF VersionsMatched(rule.from, objs[i])
                           THEN [group |-> Group, name |-> rule.to.name] ELSE objs[i]]
HookAnswers(objs, rule) ==
    {SubSeq(Faithful(objs, rule), n, Len(objs)) : n \in {1, 2, Len(objs) + 1}}

\* The hook that a rule is given to: the last of those with a link.
HookFor(c, rule) ==
    LET mine == {i \in DOMAIN HookOrder : [hook |-> HookOrder[i], crd |-> c, rule |-> rule] \in links}
    IN IF mine = {} THEN {} ELSE {HookOrder[i] : i \in {j \in mine : \A k \in mine : k <= j}}

\* The hook of the next rule runs and answers; the objects it returns replace those of the
\* request, before the number of objects is compared.
RunHook(r) ==
    LET path == RulesOf(request[r].path[1])
        i == request[r].path[2]
        objs == request[r].objects
        next(answer) ==
            LET st == [request[r] EXCEPT !.objects = answer,
                                         !.good = @ /\ answer = Faithful(objs, path[i])] IN
            IF ~StillToConvert(answer, st.desired)
            THEN [at |-> "converted", crd |-> st.crd, asked |-> st.asked, objects |-> answer,
                  desired |-> st.desired, good |-> st.good]
            ELSE IF i < Len(path) THEN [st EXCEPT !.path = <<@[1], i + 1>>]
            ELSE [st EXCEPT !.at = "source", !.sources = Tail(@), !.path = <<>>]
    IN
    /\ request[r].at = "run"
    /\ HookFor(request[r].crd, path[i]) # {}
    /\ \E answer \in HookAnswers(objs, path[i]) : Set(r, next(answer))
    /\ UNCHANGED <<setup, chains, arrays, reviews, crashed>>

\* The hook fails or writes no response, or no hook has the rule.
HookFails(r) ==
    /\ request[r].at = "run"
    /\ Set(r, [at |-> "refused", crd |-> request[r].crd, asked |-> request[r].asked,
               objects |-> request[r].objects, desired |-> request[r].desired,
               good |-> HookFor(request[r].crd, RulesOf(request[r].path[1])[request[r].path[2]]) = {}
                        /\ request[r].good])
    /\ UNCHANGED <<setup, chains, arrays, reviews, crashed>>

Respond(r) ==
    /\ request[r].at \in {"converted", "refused"}
    /\ Set(r, Idle)
    /\ UNCHANGED <<setup, chains, arrays, reviews, crashed>>

-----------------------------------------------------------------------------

Init ==
    /\ bindings \in BindingChoices
    /\ phase = "load"
    /\ chains = [c \in Crds |-> EmptyChain]
    /\ arrays = <<>>
    /\ links = {}
    /\ patched = {}
    /\ retries = PatchRetries
    /\ request = [r \in Requests |-> Idle]
    /\ reviews = 0
    /\ crashed = FALSE

SetupStep ==
    \/ UpdateConversionChains \/ EnableConversionBindings \/ StartServer \/ Registered
    \/ \E c \in Crds : PatchConversion(c)

RequestStep(r) ==
    \/ NextSource(r) \/ FindPath(r) \/ Explore(r) \/ Extend(r) \/ Fill(r) \/ NoPath(r)
    \/ RunHook(r) \/ HookFails(r) \/ Respond(r)

Next ==
    /\ ~crashed
    /\ \/ SetupStep \/ ConcurrentMapWrite
       \/ \E r \in Requests : Receive(r) \/ RequestStep(r)

Spec == Init /\ [][Next]_vars

\* Handlers go on, and hooks end: the handler of the API server's request waits for them.
FairSpec == Spec /\ \A r \in Requests : WF_vars(~crashed /\ RequestStep(r))

-----------------------------------------------------------------------------
(* Properties.                                                             *)

\* A cached path is a sequence of base rules that leads from the versions of its key to the
\* other, each rule beginning where the one before ended.
CachedPathsConnect ==
    \A c \in DOMAIN chains : \A k \in DOMAIN chains[c].paths :
        LET p == RulesOf(chains[c].paths[k]) IN
        /\ ToSet(p) \subseteq chains[c].base
        /\ p[1].from.name = k.from.name
        /\ p[Len(p)].to.name = k.to.name
        /\ \A i \in 1..(Len(p) - 1) : p[i].to.name = p[i + 1].from.name

\* Names that rules of a chain lead to from a name.
Reachable(chain, n) ==
    LET after[k \in Nat] ==
            IF k = 0 THEN {n}
            ELSE after[k - 1] \cup {r.to.name : r \in {b \in chain.base : b.from.name \in after[k - 1]}}
    IN after[Cardinality(chain.base)]

\* The versions of a request cannot be converted: they are the same, or no sequence of rules
\* leads from one to the other.
NoSequence(r) ==
    \/ Rule(r).from.name = Rule(r).to.name
    \/ Rule(r).to.name \notin Reachable(Chain(r), Rule(r).from.name)

\* The search gives up only on versions that no sequence of rules can convert, whatever other
\* requests put in the cache before its rounds or after them (during one: see below).
SearchIsComplete ==
    \A r \in Requests : request[r].at = "nopath" /\ ~request[r].overtaken => NoSequence(r)

\* The same for every request.  The code does not keep it: a request that puts paths in the cache
\* while another is in a round makes the other take them for discovered and give up, although
\* they lead to the version it looks for (chain.go:93-105).
SearchIsCompleteAlways ==
    \A r \in Requests : request[r].at = "nopath" => NoSequence(r)

\* When all versions of the objects can be converted, no other request has made the search give
\* up, and the hooks do what their rules say, the review succeeds with as many objects, all of the desired version.
FaithfulHooksConvert ==
    \A r \in Requests :
        LET q == request[r] IN
        /\ q.at \in {"converted", "refused"}
        /\ q.good
        /\ \A v \in ToSet(q.asked) :
              v.name = q.desired.name \/ q.desired.name \in Reachable(chains[q.crd], v.name)
        => /\ q.at = "converted"
           /\ Len(q.objects) = Len(q.asked)
           /\ ToSet(q.objects) = {q.desired}

\* A converted review has as many objects as were asked for, as the error of handleReviewRequest
\* says, whatever the hooks answer.  The code does not keep it: the objects of a hook's answer
\* are not counted before they replace those of the review.
ObjectsAreCounted ==
    \A r \in Requests :
        request[r].at = "converted" => Len(request[r].objects) = Len(request[r].asked)

\* Every review is answered: rounds of the search come to an end.
ReviewsAnswered ==
    \A r \in Requests : request[r].at # "idle" ~> (request[r].at = "idle" \/ crashed)
=============================================================================
