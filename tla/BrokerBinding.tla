----------------------------- MODULE BrokerBinding -----------------------------
(***************************************************************************)
(* The late binding of services to message brokers                          *)
(* (src/src/graph/mutations/broker-candidates.ts and                        *)
(* src/src/ingestion/processors/broker-consolidation.ts, steps 9 to 9b of    *)
(* src/src/ingestion/workflows/reconcile.workflow.ts).  What the            *)
(* environment of a service says of a broker is written to a ledger of      *)
(* candidates; a pass over the graph turns candidates into brokers and      *)
(* bindings; a reaper removes the bindings that this run did not confirm;   *)
(* and brokers that are the same are merged.                                *)
(*                                                                          *)
(* The module is about one host, which every lookup, group and merge of the *)
(* code is keyed by; the port, which is matched the way the virtual host    *)
(* is, is left out.                                                         *)
(***************************************************************************)
EXTENDS Naturals, FiniteSets

CONSTANTS
    Services,     \* the services of all repositories
    Repos,        \* the repositories
    RepoOf,       \* the repository of a service
    Providers,    \* broker technologies
    Vhosts,       \* known virtual hosts
    None,         \* a provider or a virtual host that is not known
    Environments, \* per service: what its configuration can be, a set of sets of hints
    OldBrokers,   \* brokers that earlier versions left under other ids
    MaxEdits,     \* bound on the changes of configuration
    MaxLost,      \* bound on the candidates that cannot be written
    MaxCrashes    \* bound on the runs that end in the middle

Grades   == {"scheme", "declared", "key-name", "shape"}
\* A hint: virtual host and provider as far as they are known, where the provider comes
\* from, and whether it is a connection of a configuration file (lane s4).
Hint     == [vhost : Vhosts \cup {None}, provider : Providers \cup {None},
             grade : Grades, config : BOOLEAN]
Candidate == [service : Services, vhost : Vhosts \cup {None},
              provider : Providers \cup {None}, grade : Grades, config : BOOLEAN]
Broker   == [provider : Providers, vhost : Vhosts \cup {None}, old : BOOLEAN]
Bond     == [service : Services, broker : Broker, source : {"env-var", "config"},
             seen : BOOLEAN]

Contract == {"scheme", "declared"}
\* A provider is missing exactly when only the shape of the value gave the hint away, and
\* a configuration file declares it.
WellFormed(h) ==
    /\ h.provider = None <=> h.grade = "shape"
    /\ h.config => h.grade = "declared"

ASSUME BrokerAssumption ==
    /\ RepoOf \in [Services -> Repos]
    /\ None \notin Providers \cup Vhosts
    /\ \A s \in Services : \A e \in Environments[s] :
        e \subseteq Hint /\ \A h \in e : WellFormed(h)
    /\ OldBrokers \subseteq Broker
    /\ IsFiniteSet(Providers) /\ IsFiniteSet(Vhosts)
    /\ MaxEdits \in Nat /\ MaxLost \in Nat /\ MaxCrashes \in Nat

Phases == {"idle", "emit", "anchor", "scheme", "converge", "config", "reanchor",
           "residual", "leftover", "reap", "exact", "melt"}

VARIABLES
    env,      \* per service: the hints its configuration holds
    ledger,   \* the live BrokerCandidate nodes
    brokers,  \* the live MessageBroker nodes: reviewed or not, declared by configuration or not
    bonds,    \* the live CONNECTS_TO edges, and whether this run stamped them
    pc,       \* the step of the run
    repos,    \* the repositories the run analyses
    todo,     \* what the step still has to look at: services, then candidates
    rest,     \* the candidates the step hands on
    target,   \* the broker of a convergence group under way, or None
    said,     \* per service: the hints the last emission wrote
    vouched,  \* the providers a contract-grade hint has named
    edits, lost, crashes

run    == <<pc, repos, todo, rest, target>>
graph  == <<ledger, brokers, bonds>>
counts == <<edits, lost, crashes>>
vars   == <<env, graph, run, said, vouched, counts>>

Init ==
    /\ env \in [Services -> UNION {Environments[s] : s \in Services}]
    /\ \A s \in Services : env[s] \in Environments[s]
    /\ ledger = {}
    /\ \E old \in {{}, OldBrokers} :
        brokers = [b \in old |-> [clean |-> FALSE, config |-> FALSE]]
    /\ bonds = {}
    /\ pc = "idle" /\ repos = {} /\ todo = {} /\ rest = {} /\ target = None
    /\ said = [s \in Services |-> {}]
    /\ vouched = {}
    /\ edits = 0 /\ lost = 0 /\ crashes = 0

--------------------------------------------------------------------------------
\* PROVIDER_SOURCE_RANK.
Rank(x) == IF x.grade = "scheme" THEN 3
           ELSE IF x.grade = "declared" THEN 2 ELSE IF x.grade = "key-name" THEN 1 ELSE 0

\* mergeBrokerCandidate(): a candidate is its service, host and virtual host; its provider
\* is replaced by one of a higher rank only, and a configuration lane sticks.
Merged(s, v, hints) ==
    LET old  == {c \in ledger : c.service = s /\ c.vhost = v}
        best == CHOOSE h \in hints : \A g \in hints : Rank(h) >= Rank(g)
        kept == {c \in old : Rank(c) >= Rank(best)}
        from == IF kept # {} THEN CHOOSE c \in kept : TRUE ELSE best
    IN  [service |-> s, vhost |-> v, provider |-> from.provider, grade |-> from.grade,
         config |-> \E x \in old \cup hints : x.config]

WithHints(s, hints) ==
    LET named == {h.vhost : h \in hints}
    IN  {c \in ledger : c.service # s \/ c.vhost \notin named}
            \cup {Merged(s, v, {h \in hints : h.vhost = v}) : v \in named}

\* pickAnchorBroker(): never a blind pick of one of several.
Anchors(c) ==
    {b \in DOMAIN brokers :
        /\ c.provider \in {None, b.provider}
        /\ c.vhost \in {None, b.vhost}}
Ambiguous(c) ==
    /\ c.provider = None
    /\ Cardinality({b.provider : b \in DOMAIN brokers}) > 1
HasAnchor(c) == ~Ambiguous(c) /\ Cardinality(Anchors(c)) = 1

\* linkServiceConnectsToBroker(): the source is part of the identity of the edge.
SourceOf(c) == IF c.config THEN "config" ELSE "env-var"
Linked(c, b) ==
    {x \in bonds : ~(x.service = c.service /\ x.broker = b /\ x.source = SourceOf(c))}
        \cup {[service |-> c.service, broker |-> b, source |-> SourceOf(c), seen |-> TRUE]}

\* mintBroker(), mergeMessageBroker(): an existing node is overwritten.
Minted(provider, vhost, clean, config) ==
    LET urn == [provider |-> provider, vhost |-> vhost, old |-> FALSE]
    IN  [b \in DOMAIN brokers \cup {urn} |->
            IF b = urn THEN [clean |-> clean, config |-> config] ELSE brokers[b]]
Own(c) == [provider |-> c.provider, vhost |-> c.vhost, old |-> FALSE]

\* Any observer clears the review.
Mutant_Corroborated_AnyGrade(c, b) ==
    [brokers EXCEPT ![b].clean = @ \/ c.provider = b.provider]

\* maybeCleanGuessBroker(): a contract-grade candidate of its provider clears the review.
Corroborated(c, b) ==
    [brokers EXCEPT ![b].clean = @ \/ (c.grade \in Contract /\ c.provider = b.provider)]

--------------------------------------------------------------------------------
\* A configuration changes between two runs.
Edit(s) ==
    /\ pc = "idle" /\ edits < MaxEdits
    /\ \E e \in Environments[s] \ {env[s]} : env' = [env EXCEPT ![s] = e]
    /\ edits' = edits + 1
    /\ UNCHANGED <<graph, run, said, vouched, lost, crashes>>

\* The commit marks the run, and every run of this pass has the same one.
Mutant_Start_OldMarker(rs) ==
    /\ pc = "idle"
    /\ pc' = "emit" /\ repos' = rs
    /\ todo' = {s \in Services : RepoOf[s] \in rs}
    /\ UNCHANGED <<env, ledger, bonds, brokers, rest, target, said, vouched, counts>>

\* A run over some repositories, or over none (an infrastructure file); its marker is new,
\* so no binding bears it yet.
Start(rs) ==
    /\ pc = "idle"
    /\ pc' = "emit" /\ repos' = rs
    /\ todo' = {s \in Services : RepoOf[s] \in rs}
    /\ bonds' = {[x EXCEPT !.seen = FALSE] : x \in bonds}
    /\ UNCHANGED <<env, ledger, brokers, rest, target, said, vouched, counts>>

\* A run ends early: the process dies, or a statement fails for good.
Stops ==
    /\ crashes < MaxCrashes
    /\ crashes' = crashes + 1
    /\ pc' = "idle" /\ repos' = {} /\ todo' = {} /\ rest' = {} /\ target' = None

Crash ==
    /\ pc # "idle" /\ Stops
    /\ UNCHANGED <<env, graph, said, vouched, edits, lost>>

\* Step 9 writes the candidates of a service; one that cannot be written is logged only.
Emit(s) ==
    /\ pc = "emit" /\ s \in todo
    /\ \E out \in {{}} \cup {{h} : h \in env[s]} :
        /\ out # {} => lost < MaxLost
        /\ ledger' = WithHints(s, env[s] \ out)
        /\ said' = [said EXCEPT ![s] = env[s] \ out]
        /\ vouched' = vouched \cup {h.provider : h \in {g \in env[s] \ out : g.grade \in Contract}}
        /\ lost' = IF out = {} THEN lost ELSE lost + 1
    /\ todo' = todo \ {s}
    /\ UNCHANGED <<env, brokers, bonds, pc, repos, rest, target, edits, crashes>>

--------------------------------------------------------------------------------
\* A bound candidate is handed on.
Mutant_Bind_HandsOn(c, b, after) ==
    /\ brokers' = after
    /\ bonds' = Linked(c, b)
    /\ ledger' = ledger \ {c}
    /\ todo' = todo \ {c} /\ rest' = rest \cup {c}
    /\ UNCHANGED <<env, pc, repos, target, said, vouched, counts>>

\* bindBrokerCandidates(), one candidate at a time: mint or find the broker, link, clear
\* the review, consume the candidate; or the run ends after some of these.
Bind(c, b, after) ==
    /\ brokers' = after
    /\ bonds' = Linked(c, b)
    /\ ledger' = ledger \ {c}
    /\ todo' = todo \ {c}
    /\ UNCHANGED <<env, pc, repos, rest, target, said, vouched, counts>>

BindCut(after, linked) ==
    /\ Stops
    /\ brokers' = after /\ bonds' = linked
    /\ UNCHANGED <<env, ledger, said, vouched, edits, lost>>

HandOn(c) ==
    /\ todo' = todo \ {c} /\ rest' = rest \cup {c}
    /\ UNCHANGED <<env, graph, pc, repos, target, said, vouched, counts>>

\* anchorSweep(): phases A, D0 and E.
Anchor(c) ==
    /\ pc \in {"anchor", "reanchor", "leftover"} /\ c \in todo
    /\ \/ ~HasAnchor(c) /\ HandOn(c)
       \/ /\ HasAnchor(c)
          /\ \E b \in Anchors(c) :
              \/ Bind(c, b, Corroborated(c, b))
              \/ BindCut(brokers, Linked(c, b))
              \/ BindCut(Corroborated(c, b), Linked(c, b))

\* A candidate that mints the broker it is bound to.
Mints(c, clean, config) ==
    LET after == Minted(c.provider, c.vhost, clean, config)
    IN  \/ Bind(c, Own(c), after)
        \/ BindCut(after, bonds)
        \/ BindCut(after, Linked(c, Own(c)))

\* selfAnchorSchemes(): the scheme of a URI is a contract.
SelfAnchor(c) ==
    /\ pc = "scheme" /\ c \in todo
    /\ IF c.grade = "scheme" THEN Mints(c, TRUE, FALSE) ELSE HandOn(c)

\* mintConfigDeclaredBrokers()
DeclareConfig(c) ==
    /\ pc = "config" /\ c \in todo
    /\ IF c.provider # None THEN Mints(c, TRUE, TRUE) ELSE HandOn(c)

\* mintResidualBrokers(): a guess, unless a declared broker of the host explains it.
Shadowed(c) ==
    /\ c.vhost = None
    /\ \E b \in DOMAIN brokers : b.provider = c.provider /\ brokers[b].config
Residual(c) ==
    /\ pc = "residual" /\ c \in todo
    /\ IF c.grade \in {"key-name", "declared"} /\ ~Shadowed(c)
       THEN Mints(c, FALSE, FALSE)
       ELSE HandOn(c)

\* convergeGroups(): two repositories that name the host agree on a provider, on a virtual
\* host where it is known, and on nothing else.
Known(group)  == {c.vhost : c \in group} \ {None}
Named(group)  == {c.provider : c \in group} \ {None}
Converges(group) ==
    /\ Cardinality({RepoOf[c.service] : c \in group}) >= 2
    /\ Cardinality(Known(group)) <= 1
    /\ Cardinality(Named(group)) = 1
Spot(group) ==
    [provider |-> CHOOSE p \in Named(group) : TRUE,
     vhost    |-> IF Known(group) = {} THEN None ELSE CHOOSE v \in Known(group) : TRUE,
     old      |-> FALSE]
CleanGroup(group) == \E c \in group : c.grade \in Contract

Converge ==
    /\ pc = "converge" /\ target = None /\ todo # {}
    /\ IF Converges(todo)
       THEN /\ target' = Spot(todo)
            /\ brokers' = Minted(Spot(todo).provider, Spot(todo).vhost, CleanGroup(todo), FALSE)
            /\ UNCHANGED <<todo, rest>>
       ELSE /\ todo' = {} /\ rest' = rest \cup todo
            /\ UNCHANGED <<target, brokers>>
    /\ UNCHANGED <<env, ledger, bonds, pc, repos, said, vouched, counts>>

BindGroup(c) ==
    /\ pc = "converge" /\ target # None /\ c \in todo
    /\ \/ Bind(c, target, brokers)
       \/ BindCut(brokers, Linked(c, target))

\* The next phase, with the candidates it gets.
After == [emit |-> "anchor", anchor |-> "scheme", scheme |-> "converge",
          converge |-> "config", config |-> "reanchor", reanchor |-> "residual",
          residual |-> "leftover", leftover |-> "reap"]
Declared(cs) == {c \in cs : c.config}

NextPhase ==
    /\ pc \in DOMAIN After /\ todo = {}
    /\ pc' = After[pc]
    /\ target' = None
    /\ CASE pc = "emit"     -> todo' = ledger /\ rest' = {}
         [] pc = "scheme"   -> todo' = rest \ Declared(rest) /\ rest' = Declared(rest)
         [] pc = "converge" -> todo' = Declared(rest) /\ rest' = rest \ Declared(rest)
         [] pc = "leftover" -> todo' = {} /\ rest' = {}
         [] OTHER           -> todo' = rest /\ rest' = {}
    /\ UNCHANGED <<env, graph, repos, said, vouched, counts>>

\* The bindings of repositories that this run did not analyse are reaped too.
Mutant_Reaped_AllRepos == {x \in bonds : x.source = "env-var" /\ ~x.seen}

\* reapStaleEnvVarBrokerBindings(): what the environment of an analysed repository no
\* longer yields.
Reaped == {x \in bonds : x.source = "env-var" /\ RepoOf[x.service] \in repos /\ ~x.seen}
Reap ==
    /\ pc = "reap"
    /\ pc' = "exact"
    /\ bonds' = bonds \ Reaped
    /\ UNCHANGED <<env, ledger, brokers, repos, todo, rest, target, said, vouched, counts>>

\* mergeSecondaryIntoPrimary(), one transaction; the properties of a moved edge win.
Merge(secondary, primary) ==
    LET moved == {[x EXCEPT !.broker = primary] : x \in {y \in bonds : y.broker = secondary}}
        met(x) == \E y \in moved : y.service = x.service /\ y.source = x.source
    IN  /\ bonds' = {x \in bonds : x.broker # secondary /\ ~(x.broker = primary /\ met(x))}
                        \cup moved
        /\ brokers' = [b \in DOMAIN brokers \ {secondary} |-> brokers[b]]
        /\ UNCHANGED <<env, ledger, run, said, vouched, counts>>

\* consolidateDuplicateBrokers(): the broker under its canonical id survives.
Duplicates == {d \in DOMAIN brokers : d.old /\ [d EXCEPT !.old = FALSE] \in DOMAIN brokers}
MergeDuplicate ==
    /\ pc = "exact"
    /\ \E d \in Duplicates : Merge(d, [d EXCEPT !.old = FALSE])

\* meltVhostNullSiblings(): a broker without a virtual host melts into the only one that
\* has one; among several it is left for review.
Siblings(b)  == {d \in DOMAIN brokers : d.provider = b.provider /\ d.vhost # None}
Melting(b)   == b.vhost = None /\ Cardinality({d.vhost : d \in Siblings(b)}) = 1
Doubtful(b)  == b.vhost = None /\ Cardinality({d.vhost : d \in Siblings(b)}) >= 2
ToReview     == {b \in DOMAIN brokers : Doubtful(b) /\ brokers[b].clean}
Melt ==
    /\ pc = "melt"
    /\ \E b \in DOMAIN brokers : Melting(b) /\ \E d \in Siblings(b) : Merge(b, d)
MarkDoubtful ==
    /\ pc = "melt"
    /\ \E b \in ToReview :
        brokers' = [brokers EXCEPT ![b].clean = FALSE]
    /\ UNCHANGED <<env, ledger, bonds, run, said, vouched, counts>>

Consolidated ==
    /\ \/ pc = "exact" /\ Duplicates = {} /\ pc' = "melt" /\ UNCHANGED repos
       \/ /\ pc = "melt" /\ ToReview = {} /\ ~\E b \in DOMAIN brokers : Melting(b)
          /\ pc' = "idle" /\ repos' = {}
    /\ UNCHANGED <<env, graph, todo, rest, target, said, vouched, counts>>

--------------------------------------------------------------------------------
OfCandidate(c) ==
    Anchor(c) \/ SelfAnchor(c) \/ DeclareConfig(c) \/ Residual(c) \/ BindGroup(c)
Step ==
    \/ \E s \in Services : Emit(s)
    \/ \E c \in todo : OfCandidate(c)
    \/ Converge \/ NextPhase \/ Reap
    \/ MergeDuplicate \/ Melt \/ MarkDoubtful \/ Consolidated
Next ==
    \/ Step \/ Crash
    \/ \E s \in Services : Edit(s)
    \/ \E rs \in SUBSET Repos : Start(rs)

Spec == Init /\ [][Next]_vars

\* A run that goes on takes its steps, and every repository is analysed again and again.
Fairness ==
    /\ WF_vars(Step)
    /\ \A r \in Repos : SF_vars(Start({r}))
FairSpec == Spec /\ Fairness

--------------------------------------------------------------------------------
\* The state has its shape.
TypeOK ==
    /\ DOMAIN env = Services /\ \A s \in Services : env[s] \in Environments[s]
    /\ ledger \subseteq Candidate
    /\ DOMAIN brokers \subseteq Broker
    /\ \A b \in DOMAIN brokers : brokers[b] \in [clean : BOOLEAN, config : BOOLEAN]
    /\ bonds \subseteq Bond
    /\ pc \in Phases /\ repos \subseteq Repos
    /\ pc = "emit" => todo \subseteq Services
    /\ pc # "emit" => todo \subseteq ledger
    /\ rest \subseteq ledger
    /\ target \in Broker \cup {None}
    /\ said \in [Services -> SUBSET Hint]
    /\ vouched \subseteq Providers
    /\ edits \in 0 .. MaxEdits /\ lost \in 0 .. MaxLost /\ crashes \in 0 .. MaxCrashes

\* A broker that is not left for review, and may therefore carry welds between services,
\* has a provider that some contract has named: the scheme of a URI or a declaration, never
\* the name of a key alone.  It survives mints over an existing node, corroboration,
\* convergence and merges (broker-candidates.ts:14-22).
CleanByContract ==
    \A b \in DOMAIN brokers : brokers[b].clean => b.provider \in vouched

\* What the last emission wrote of a service's configuration is never lost silently, in
\* whatever order candidates are bound, brokers merged, bindings reaped or runs cut short:
\* there is a candidate in the ledger or a binding to a broker with its virtual host
\* (broker-candidates.ts:24-27).  The provider may differ: a candidate that an earlier run
\* left in the ledger keeps its own against a changed configuration of the same rank.
Agrees(h, b) == h.provider \in {None, b.provider} /\ h.vhost \in {None, b.vhost}
Traced(s, h) ==
    \/ \E c \in ledger : c.service = s /\ c.vhost = h.vhost
    \/ \E x \in bonds : x.service = s /\ h.vhost \in {None, x.broker.vhost}
HintsLeaveATrace == \A s \in Services : \A h \in said[s] : Traced(s, h)

\* Once configurations stop changing and nothing fails any more, analysing every repository
\* again and again brings the bindings into line with the configurations for good: no
\* binding from the environment that no hint explains, no hint without a trace.
Unexplained ==
    {x \in bonds : x.source = "env-var" /\ ~\E h \in env[x.service] : Agrees(h, x.broker)}
InLine ==
    /\ Unexplained = {}
    /\ \A s \in Services : \A h \in env[s] : Traced(s, h)
BindingsFollowConfiguration == <>[](pc = "idle" => InLine)
================================================================================
