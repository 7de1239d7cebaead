-------------------------- MODULE BrokerBindingProofs --------------------------
(***************************************************************************)
(* Proofs about BrokerBinding, for any services, repositories, providers,   *)
(* virtual hosts and environments.                                          *)
(*                                                                          *)
(* TypeOK needs that a candidate is looked at in one place at a time, or    *)
(* the phases would hand on what they have consumed (OnePlace).             *)
(* CleanByContract rests on the ledger: the provider of a candidate of a    *)
(* contract grade has been named, and a configuration lane, which makes     *)
(* clean brokers, comes with such a grade (SoundLedger), for which a        *)
(* candidate must be the only one of its service and virtual host.          *)
(* HintsLeaveATrace is not inductive: what the reaper of a run spares must  *)
(* be known from the emission on (FirmTraces), and the group that converges *)
(* must agree with its broker (GroupAgrees).                                *)
(***************************************************************************)
EXTENDS BrokerBinding, FiniteSetTheorems, TLAPS

Binding == {"anchor", "scheme", "converge", "config", "reanchor", "residual", "leftover"}

\* A candidate is in the hands of one phase, and between runs of none; a declaration is
\* taken for one only where configuration made it.
OnePlace ==
    /\ pc \notin Binding => rest = {}
    /\ pc \notin Binding \cup {"emit"} => todo = {}
    /\ pc \in Binding => todo \cap rest = {}
    /\ pc = "config" => \A c \in todo : c.config

Sound(c, named) ==
    /\ c.provider = None <=> c.grade = "shape"
    /\ c.config => c.grade \in Contract
    /\ c.grade \in Contract => c.provider \in named
SoundLedger ==
    /\ \A c \in ledger : Sound(c, vouched)
    /\ \A c, d \in ledger : c.service = d.service /\ c.vhost = d.vhost => c = d

GroupAgrees ==
    pc = "converge" /\ target # None => \A c \in todo : c.vhost \in {None, target.vhost}

\* A trace that the reaper of this run spares.
Firm(s, h) ==
    \/ \E c \in ledger : c.service = s /\ c.vhost = h.vhost
    \/ \E x \in bonds : /\ x.service = s /\ h.vhost \in {None, x.broker.vhost}
                        /\ x.seen \/ x.source = "config"
Emitted(s) ==
    /\ RepoOf[s] \in repos
    /\ \/ pc \in Binding \cup {"reap"}
       \/ pc = "emit" /\ s \notin todo
FirmTraces == \A s \in Services : Emitted(s) => \A h \in said[s] : Firm(s, h)

IInv ==
    /\ TypeOK /\ OnePlace /\ SoundLedger /\ GroupAgrees
    /\ CleanByContract /\ HintsLeaveATrace /\ FirmTraces

\* Brokers that are ones, and clean by a provider that has been named.
Good(bs, named) ==
    /\ DOMAIN bs \subseteq Broker
    /\ \A b \in DOMAIN bs : /\ bs[b] \in [clean : BOOLEAN, config : BOOLEAN]
                            /\ bs[b].clean => b.provider \in named

--------------------------------------------------------------------------------
\* What the operators of the module return.

\* Minting over any brokers leaves good ones, if a clean mint has a contract.
LEMMA MintedIsGood ==
    ASSUME Good(brokers, vouched), NEW p \in Providers, NEW v \in Vhosts \cup {None},
           NEW clean \in BOOLEAN, NEW config \in BOOLEAN, clean => p \in vouched
    PROVE  /\ Good(Minted(p, v, clean, config), vouched)
           /\ [provider |-> p, vhost |-> v, old |-> FALSE] \in Broker
<1> DEFINE urn == [provider |-> p, vhost |-> v, old |-> FALSE]
           new == [clean |-> clean, config |-> config]
<1>1. urn \in Broker /\ urn.provider = p
    BY DEF Broker
<1>2. new \in [clean : BOOLEAN, config : BOOLEAN] /\ new.clean = clean
    OBVIOUS
<1>3. DOMAIN Minted(p, v, clean, config) = DOMAIN brokers \cup {urn}
    BY DEF Minted
<1>4. Minted(p, v, clean, config)[urn] = new
    BY DEF Minted
<1>5. \A b \in DOMAIN brokers : b # urn => Minted(p, v, clean, config)[b] = brokers[b]
    BY DEF Minted
<1> HIDE DEF urn, new
<1>6. DOMAIN brokers \subseteq Broker
    BY DEF Good
<1>7. ASSUME NEW b \in DOMAIN brokers \cup {urn}
      PROVE  /\ Minted(p, v, clean, config)[b] \in [clean : BOOLEAN, config : BOOLEAN]
             /\ Minted(p, v, clean, config)[b].clean => b.provider \in vouched
  <2>1. CASE b = urn
      BY <2>1, <1>1, <1>2, <1>4
  <2>2. CASE b # urn
    <3>1. b \in DOMAIN brokers
        BY <2>2, <1>7
    <3> QED
        BY <3>1, <2>2, <1>5 DEF Good
  <2> QED
      BY <2>1, <2>2
<1> QED
    BY <1>1, <1>3, <1>6, <1>7 DEF Good, urn

\* Corroboration clears a review by a contract only.
LEMMA CorroboratedIsGood ==
    ASSUME Good(brokers, vouched), NEW c \in ledger, Sound(c, vouched), NEW b \in DOMAIN brokers
    PROVE  Good(Corroborated(c, b), vouched)
<1> DEFINE clears == c.grade \in Contract /\ c.provider = b.provider
           new == [brokers[b] EXCEPT !.clean = @ \/ clears]
<1>1. brokers[b] \in [clean : BOOLEAN, config : BOOLEAN]
    BY DEF Good
<1>2. new \in [clean : BOOLEAN, config : BOOLEAN] /\ new.clean = (brokers[b].clean \/ clears)
    BY <1>1
<1>3. brokers[b].clean \/ clears => b.provider \in vouched
    BY DEF Good, Sound
<1>4. Corroborated(c, b) = [brokers EXCEPT ![b] = new]
    BY DEF Corroborated
<1>5. new.clean => b.provider \in vouched
    BY <1>2, <1>3
<1> HIDE DEF new, clears
<1>6. DOMAIN Corroborated(c, b) = DOMAIN brokers
    BY <1>4
<1>7. Corroborated(c, b)[b] = new
    BY <1>4
<1>8. \A d \in DOMAIN brokers : d # b => Corroborated(c, b)[d] = brokers[d]
    BY <1>4
<1>9. ASSUME NEW d \in DOMAIN brokers
      PROVE  /\ Corroborated(c, b)[d] \in [clean : BOOLEAN, config : BOOLEAN]
             /\ Corroborated(c, b)[d].clean => d.provider \in vouched
  <2>1. CASE d = b
      BY <2>1, <1>2, <1>5, <1>7
  <2>2. CASE d # b
      BY <2>2, <1>8 DEF Good
  <2> QED
      BY <2>1, <2>2
<1> QED
    BY <1>6, <1>9 DEF Good

\* Linking adds a binding of this run and takes none away.
LEMMA LinkedKeeps ==
    ASSUME bonds \subseteq Bond, NEW c \in Candidate, NEW b \in Broker
    PROVE  /\ Linked(c, b) \subseteq Bond
           /\ \E y \in Linked(c, b) : y.service = c.service /\ y.broker = b /\ y.seen
           /\ \A x \in bonds : \E y \in Linked(c, b) :
                /\ y.service = x.service /\ y.broker = x.broker
                /\ x.seen \/ x.source = "config" => y.seen \/ y.source = "config"
<1> DEFINE new == [service |-> c.service, broker |-> b, source |-> SourceOf(c), seen |-> TRUE]
<1>1. SourceOf(c) \in {"env-var", "config"}
    BY DEF SourceOf
<1>2. new \in Bond /\ new.service = c.service /\ new.broker = b /\ new.seen
    BY <1>1 DEF Bond, Candidate
<1>3. new \in Linked(c, b)
    BY DEF Linked
<1>4. \A x \in bonds : x \in Linked(c, b) \/ (x.service = c.service /\ x.broker = b)
    BY DEF Linked
<1>5. Linked(c, b) \subseteq Bond
    BY <1>2 DEF Linked
<1> HIDE DEF new
<1> QED
    BY <1>2, <1>3, <1>4, <1>5

\* The ranks are bounded, so some hint has the highest.
LEMMA BestHint ==
    ASSUME NEW hints \in SUBSET Hint, hints # {}
    PROVE  \E h \in hints : \A g \in hints : Rank(h) >= Rank(g)
<1>1. \A h \in hints : Rank(h) \in 0 .. 3
    BY DEF Rank
<1>2. CASE \E h \in hints : Rank(h) = 3
    BY <1>1, <1>2
<1>3. CASE (\A h \in hints : Rank(h) # 3) /\ \E h \in hints : Rank(h) = 2
    BY <1>1, <1>3
<1>4. CASE (\A h \in hints : Rank(h) \notin {2, 3}) /\ \E h \in hints : Rank(h) = 1
    BY <1>1, <1>4
<1>5. CASE \A h \in hints : Rank(h) \notin {1, 2, 3}
    BY <1>1, <1>5
<1> QED
    BY <1>1, <1>2, <1>3, <1>4, <1>5

\* The candidate that hints are merged into is one of their service and virtual host, and
\* sound by what they and the ledger have named.
LEMMA MergedIsSound ==
    ASSUME ledger \subseteq Candidate, SoundLedger, vouched \subseteq Providers,
           NEW s \in Services, NEW v \in Vhosts \cup {None},
           NEW hints \in SUBSET Hint, hints # {}, \A h \in hints : WellFormed(h),
           NEW named, vouched \subseteq named,
           \A h \in hints : h.grade \in Contract => h.provider \in named
    PROVE  /\ Merged(s, v, hints) \in Candidate
           /\ Merged(s, v, hints).service = s /\ Merged(s, v, hints).vhost = v
           /\ Sound(Merged(s, v, hints), named)
<1> DEFINE old  == {c \in ledger : c.service = s /\ c.vhost = v}
           best == CHOOSE h \in hints : \A g \in hints : Rank(h) >= Rank(g)
           kept == {c \in old : Rank(c) >= Rank(best)}
           from == IF kept # {} THEN CHOOSE c \in kept : TRUE ELSE best
           config == \E x \in old \cup hints : x.config
           m == [service |-> s, vhost |-> v, provider |-> from.provider, grade |-> from.grade,
                 config |-> config]
<1>1. best \in hints /\ \A g \in hints : Rank(best) >= Rank(g)
  <2>1. \E h \in hints : \A g \in hints : Rank(h) >= Rank(g)
      BY BestHint
  <2> QED
      BY <2>1
<1>2. from \in kept \/ (kept = {} /\ from = best)
    OBVIOUS
<1>3. from.provider \in Providers \cup {None} /\ from.grade \in Grades
    BY <1>1, <1>2 DEF Candidate, Hint
<1>4. from.provider = None <=> from.grade = "shape"
    BY <1>1, <1>2 DEF SoundLedger, Sound, WellFormed
<1>5. from.grade \in Contract => from.provider \in named
    BY <1>1, <1>2 DEF SoundLedger, Sound
<1>6. \A x \in hints : x.config => Rank(x) = 2
    BY DEF WellFormed, Rank
<1>7. \A x \in old : x.config => Rank(x) \in {2, 3}
    BY DEF SoundLedger, Sound, Rank, Contract
<1>8. \A c \in old : Rank(c) \in 0 .. 3
    BY DEF Rank
<1>9. Rank(best) \in 0 .. 3
    BY DEF Rank
<1>10. \A c, d \in old : c = d
    BY DEF SoundLedger
<1>17. \A c \in old : c \in kept <=> Rank(c) >= Rank(best)
    OBVIOUS
<1>18. from \in kept => from \in old
    OBVIOUS
<1> HIDE DEF old, kept, best, from
<1>11. config => Rank(from) \in {2, 3}
  <2>1. ASSUME NEW x \in hints, x.config PROVE Rank(from) \in {2, 3}
    <3>1. Rank(best) \in {2, 3}
        BY <1>1, <1>6, <1>9, <2>1
    <3> QED
        BY <1>2, <1>8, <1>9, <1>17, <1>18, <3>1
  <2>2. ASSUME NEW x \in old, x.config PROVE Rank(from) \in {2, 3}
    <3>1. CASE kept = {}
        BY <1>2, <1>7, <1>8, <1>9, <1>17, <2>2, <3>1
    <3>2. CASE kept # {}
      <4>1. from = x
          BY <1>2, <1>10, <1>18, <2>2, <3>2
      <4> QED
          BY <1>7, <2>2, <4>1
    <3> QED
        BY <3>1, <3>2
  <2> QED
      BY <2>1, <2>2
<1>12. config => from.grade \in Contract
  <2>1. ASSUME Rank(from) \in {2, 3} PROVE from.grade \in {"scheme", "declared"}
      BY <2>1 DEF Rank
  <2> QED
      BY <1>11, <2>1 DEF Contract
<1>13. config \in BOOLEAN
    OBVIOUS
<1> HIDE DEF config
<1>14. m \in Candidate /\ m.service = s /\ m.vhost = v
    BY <1>3, <1>13 DEF Candidate
<1>15. Sound(m, named)
    BY <1>4, <1>5, <1>12, <1>13 DEF Sound
<1>16. Merged(s, v, hints) = m
    BY DEF Merged, from, config, old, kept, best
<1> HIDE DEF m
<1> QED
    BY <1>14, <1>15, <1>16

--------------------------------------------------------------------------------
\* The parts of a step that the phases share.

\* Between its phases a run keeps its invariant if it neither takes a trace away nor
\* touches what has been said: the parts about traces follow.
Spares(ls, bs) ==
    \A s \in Services : \A h \in Hint :
        /\ Traced(s, h) => \/ \E c \in ls : c.service = s /\ c.vhost = h.vhost
                           \/ \E x \in bs : x.service = s /\ h.vhost \in {None, x.broker.vhost}
        /\ Firm(s, h) => \/ \E c \in ls : c.service = s /\ c.vhost = h.vhost
                         \/ \E x \in bs : /\ x.service = s /\ h.vhost \in {None, x.broker.vhost}
                                          /\ x.seen \/ x.source = "config"

\* No trace is lost by a step that spares them.
LEMMA SparedTraces ==
    ASSUME TypeOK, HintsLeaveATrace, FirmTraces, Spares(ledger', bonds'), said' = said,
           \A s \in Services : Emitted(s)' => Emitted(s)
    PROVE  HintsLeaveATrace' /\ FirmTraces'
<1>1. \A s \in Services : said[s] \subseteq Hint
    BY DEF TypeOK
<1>2. HintsLeaveATrace'
    BY <1>1 DEF HintsLeaveATrace, Spares, Traced
<1>3. FirmTraces'
    BY <1>1 DEF FirmTraces, Spares, Firm
<1> QED
    BY <1>2, <1>3

\* A candidate is bound: a trace turns into another one, of this run.
LEMMA BindKeeps ==
    ASSUME IInv, pc \in Binding, NEW c \in todo, NEW b \in Broker, NEW after,
           Good(after, vouched), c.vhost \in {None, b.vhost}, Bind(c, b, after)
    PROVE  IInv'
<1> USE DEF IInv
<1>1. c \in ledger /\ c \in Candidate /\ c \notin rest
    BY DEF TypeOK, OnePlace, Binding
<1>2. /\ bonds' \subseteq Bond
      /\ \E y \in bonds' : y.service = c.service /\ y.broker = b /\ y.seen
      /\ \A x \in bonds : \E y \in bonds' :
            /\ y.service = x.service /\ y.broker = x.broker
            /\ x.seen \/ x.source = "config" => y.seen \/ y.source = "config"
    BY <1>1, LinkedKeeps DEF Bind, TypeOK
<1>3. /\ ledger' = ledger \ {c} /\ todo' = todo \ {c} /\ brokers' = after
      /\ UNCHANGED <<env, pc, repos, rest, target, said, vouched, counts>>
    BY DEF Bind
<1>4. TypeOK'
    BY <1>1, <1>2, <1>3 DEF TypeOK, Good, counts, Binding
<1>5. OnePlace'
    BY <1>3 DEF OnePlace
<1>6. SoundLedger'
    BY <1>3 DEF SoundLedger
<1>7. GroupAgrees'
    BY <1>3 DEF GroupAgrees
<1>8. CleanByContract'
    BY <1>3 DEF CleanByContract, Good
<1>9. Spares(ledger', bonds')
    BY <1>2, <1>3 DEF Spares, Traced, Firm
<1>10. \A s \in Services : Emitted(s)' => Emitted(s)
    BY <1>3 DEF Emitted, Binding
<1> QED
    BY <1>3, <1>4, <1>5, <1>6, <1>7, <1>8, <1>9, <1>10, SparedTraces

\* A run that ends on the way leaves the candidate in the ledger.
LEMMA CutKeeps ==
    ASSUME IInv, NEW after, Good(after, vouched), NEW linked, linked \subseteq Bond,
           \A x \in bonds : \E y \in linked : y.service = x.service /\ y.broker = x.broker,
           BindCut(after, linked)
    PROVE  IInv'
<1> USE DEF IInv
<1>1. /\ pc' = "idle" /\ repos' = {} /\ todo' = {} /\ rest' = {} /\ target' = None
      /\ brokers' = after /\ bonds' = linked
      /\ UNCHANGED <<env, ledger, said, vouched, edits, lost>>
      /\ crashes < MaxCrashes /\ crashes' = crashes + 1
    BY DEF BindCut, Stops
<1>2. TypeOK'
    BY <1>1, BrokerAssumption DEF TypeOK, Good, Phases, BrokerAssumption
<1>3. OnePlace' /\ GroupAgrees'
    BY <1>1 DEF OnePlace, GroupAgrees
<1>4. SoundLedger'
    BY <1>1 DEF SoundLedger
<1>5. CleanByContract'
    BY <1>1 DEF CleanByContract, Good
<1>6. HintsLeaveATrace'
    BY <1>1 DEF HintsLeaveATrace, Traced
<1>7. FirmTraces'
    BY <1>1 DEF FirmTraces, Emitted
<1> QED
    BY <1>2, <1>3, <1>4, <1>5, <1>6, <1>7

\* A candidate is handed on.
LEMMA HandOnKeeps ==
    ASSUME IInv, pc \in Binding, NEW c \in todo, HandOn(c)
    PROVE  IInv'
<1> USE DEF IInv
<1>1. c \in ledger
    BY DEF TypeOK, Binding
<1>2. /\ todo' = todo \ {c} /\ rest' = rest \cup {c}
      /\ UNCHANGED <<env, ledger, brokers, bonds, pc, repos, target, said, vouched, counts>>
    BY DEF HandOn, graph
<1>3. TypeOK'
    BY <1>1, <1>2 DEF TypeOK, counts, Binding
<1>4. OnePlace'
    BY <1>2 DEF OnePlace
<1>5. SoundLedger' /\ GroupAgrees' /\ CleanByContract'
    BY <1>2 DEF SoundLedger, GroupAgrees, CleanByContract
<1>6. HintsLeaveATrace' /\ FirmTraces'
    BY <1>2 DEF HintsLeaveATrace, Traced, FirmTraces, Firm, Emitted, Binding
<1> QED
    BY <1>3, <1>4, <1>5, <1>6

\* A candidate mints its broker, or the run ends on the way.
LEMMA MintsKeep ==
    ASSUME IInv, pc \in Binding, NEW c \in todo, c.provider # None,
           NEW clean \in BOOLEAN, NEW config \in BOOLEAN, clean => c.provider \in vouched,
           Mints(c, clean, config)
    PROVE  IInv'
<1> DEFINE after == Minted(c.provider, c.vhost, clean, config)
<1>1. c \in Candidate /\ c.provider \in Providers /\ c.vhost \in Vhosts \cup {None}
    BY DEF IInv, TypeOK, Candidate, Binding
<1>2. Good(brokers, vouched)
    BY DEF IInv, TypeOK, CleanByContract, Good
<1>3. Good(after, vouched) /\ Own(c) \in Broker
    BY <1>1, <1>2, MintedIsGood DEF Own
<1>4. c.vhost \in {None, Own(c).vhost}
    BY DEF Own
<1>5. /\ Linked(c, Own(c)) \subseteq Bond
      /\ \A x \in bonds : \E y \in Linked(c, Own(c)) :
            y.service = x.service /\ y.broker = x.broker
    BY <1>1, <1>3, LinkedKeeps DEF IInv, TypeOK
<1>6. bonds \subseteq Bond
    BY DEF IInv, TypeOK
<1>7. \/ Bind(c, Own(c), after) \/ BindCut(after, bonds) \/ BindCut(after, Linked(c, Own(c)))
    BY DEF Mints
<1> HIDE DEF after
<1>8. CASE Bind(c, Own(c), after)
    BY <1>3, <1>4, <1>8, BindKeeps
<1>9. CASE BindCut(after, bonds)
    BY <1>3, <1>6, <1>9, CutKeeps
<1>10. CASE BindCut(after, Linked(c, Own(c)))
    BY <1>3, <1>5, <1>10, CutKeeps
<1> QED
    BY <1>7, <1>8, <1>9, <1>10

\* Phases A, D0 and E.
LEMMA AnchorKeeps ==
    ASSUME IInv, NEW c \in todo, Anchor(c)
    PROVE  IInv'
<1>1. pc \in Binding
    BY DEF Anchor, Binding
<1>2. c \in ledger /\ c \in Candidate /\ Sound(c, vouched)
    BY <1>1 DEF IInv, TypeOK, SoundLedger, Binding
<1>3. Good(brokers, vouched)
    BY DEF IInv, TypeOK, CleanByContract, Good
<1>4. CASE ~HasAnchor(c) /\ HandOn(c)
    BY <1>1, <1>4, HandOnKeeps
<1>5. ASSUME NEW b \in Anchors(c),
             \/ Bind(c, b, Corroborated(c, b))
             \/ BindCut(brokers, Linked(c, b))
             \/ BindCut(Corroborated(c, b), Linked(c, b))
      PROVE  IInv'
  <2>1. b \in DOMAIN brokers /\ b \in Broker /\ c.vhost \in {None, b.vhost}
      BY DEF Anchors, IInv, TypeOK
  <2>2. Good(Corroborated(c, b), vouched)
      BY <1>2, <1>3, <2>1, CorroboratedIsGood
  <2>3. /\ Linked(c, b) \subseteq Bond
        /\ \A x \in bonds : \E y \in Linked(c, b) :
              y.service = x.service /\ y.broker = x.broker
      BY <1>2, <2>1, LinkedKeeps DEF IInv, TypeOK
  <2>4. CASE Bind(c, b, Corroborated(c, b))
      BY <1>1, <2>1, <2>2, <2>4, BindKeeps
  <2>5. CASE BindCut(brokers, Linked(c, b))
      BY <1>3, <2>3, <2>5, CutKeeps
  <2>6. CASE BindCut(Corroborated(c, b), Linked(c, b))
      BY <2>2, <2>3, <2>6, CutKeeps
  <2> QED
      BY <1>5, <2>4, <2>5, <2>6
<1> QED
    BY <1>4, <1>5 DEF Anchor

\* Phase B: the scheme is a contract.
LEMMA SelfAnchorKeeps ==
    ASSUME IInv, NEW c \in todo, SelfAnchor(c)
    PROVE  IInv'
<1>1. pc \in Binding
    BY DEF SelfAnchor, Binding
<1>2. Sound(c, vouched)
    BY <1>1 DEF IInv, TypeOK, SoundLedger, Binding
<1>3. CASE c.grade = "scheme"
  <2>1. c.provider \in vouched /\ c.provider # None
      BY <1>2, <1>3 DEF Sound, Contract
  <2>2. Mints(c, TRUE, FALSE)
      BY <1>3 DEF SelfAnchor
  <2> QED
      BY <1>1, <2>1, <2>2, MintsKeep
<1>4. CASE c.grade # "scheme"
    BY <1>1, <1>4, HandOnKeeps DEF SelfAnchor
<1> QED
    BY <1>3, <1>4

\* Phase C0: only what a configuration file declares gets here.
LEMMA DeclareConfigKeeps ==
    ASSUME IInv, NEW c \in todo, DeclareConfig(c)
    PROVE  IInv'
<1>1. pc \in Binding
    BY DEF DeclareConfig, Binding
<1>2. Sound(c, vouched) /\ c.config
    BY <1>1 DEF IInv, TypeOK, SoundLedger, OnePlace, DeclareConfig, Binding
<1>3. c.provider \in vouched /\ c.provider # None
    BY <1>2, BrokerAssumption DEF Sound, IInv, TypeOK, BrokerAssumption
<1>4. Mints(c, TRUE, TRUE)
    BY <1>3 DEF DeclareConfig
<1> QED
    BY <1>1, <1>3, <1>4, MintsKeep

\* Phase D: what it mints is left for review.
LEMMA ResidualKeeps ==
    ASSUME IInv, NEW c \in todo, Residual(c)
    PROVE  IInv'
<1>1. pc \in Binding
    BY DEF Residual, Binding
<1>2. Sound(c, vouched)
    BY <1>1 DEF IInv, TypeOK, SoundLedger, Binding
<1>3. CASE c.grade \in {"key-name", "declared"} /\ ~Shadowed(c)
  <2>1. c.provider # None
      BY <1>2, <1>3 DEF Sound
  <2>2. Mints(c, FALSE, FALSE)
      BY <1>3 DEF Residual
  <2> QED
      BY <1>1, <2>1, <2>2, MintsKeep
<1>4. CASE ~(c.grade \in {"key-name", "declared"} /\ ~Shadowed(c))
    BY <1>1, <1>4, HandOnKeeps DEF Residual
<1> QED
    BY <1>3, <1>4

\* Of a finite set with one element at most, every element is the chosen one.
LEMMA TheOnlyOne ==
    ASSUME NEW S, IsFiniteSet(S), Cardinality(S) <= 1, NEW x \in S
    PROVE  x = CHOOSE y \in S : TRUE
<1>1. Cardinality(S) = 1
  <2>1. Cardinality(S) \in Nat
      BY FS_CardinalityType
  <2>2. Cardinality(S) # 0
      BY FS_EmptySet
  <2> QED
      BY <2>1, <2>2
<1>2. \E y : S = {y}
    BY <1>1, FS_Singleton
<1> QED
    BY <1>2

\* A group that converges gets a broker of the provider its contracts name, and of the
\* virtual host its members know.
LEMMA SpotIsSound ==
    ASSUME TypeOK, SoundLedger, pc = "converge", todo # {}, Converges(todo)
    PROVE  /\ Spot(todo).provider \in Providers /\ Spot(todo).vhost \in Vhosts \cup {None}
           /\ \A c \in todo : c.vhost \in {None, Spot(todo).vhost}
           /\ CleanGroup(todo) => Spot(todo).provider \in vouched
<1>1. todo \subseteq ledger /\ todo \subseteq Candidate
    BY DEF TypeOK
<1>2. Named(todo) \subseteq Providers /\ Known(todo) \subseteq Vhosts
    BY <1>1 DEF Named, Known, Candidate
<1>3. IsFiniteSet(Named(todo)) /\ IsFiniteSet(Known(todo))
    BY <1>2, BrokerAssumption, FS_Subset DEF BrokerAssumption
<1>4. Cardinality(Named(todo)) = 1 /\ Cardinality(Known(todo)) <= 1
    BY DEF Converges
<1>5. Named(todo) # {}
    BY <1>4, FS_EmptySet
<1>6. /\ Spot(todo).provider = CHOOSE p \in Named(todo) : TRUE
      /\ Known(todo) = {} => Spot(todo).vhost = None
      /\ Known(todo) # {} => Spot(todo).vhost = CHOOSE v \in Known(todo) : TRUE
    BY DEF Spot
<1>7. Spot(todo).provider \in Providers
    BY <1>2, <1>5, <1>6
<1>8. Spot(todo).vhost \in Vhosts \cup {None}
    BY <1>2, <1>6
<1>9. ASSUME NEW c \in todo, c.vhost # None PROVE c.vhost = Spot(todo).vhost
  <2>1. c.vhost \in Known(todo)
      BY <1>9 DEF Known
  <2> QED
      BY <2>1, <1>3, <1>4, <1>6, TheOnlyOne
<1>10. ASSUME NEW c \in todo, c.grade \in Contract PROVE Spot(todo).provider \in vouched
  <2>1. c.provider \in vouched /\ c.provider # None
      BY <1>1, <1>10, BrokerAssumption DEF SoundLedger, Sound, TypeOK, BrokerAssumption
  <2>2. c.provider \in Named(todo)
      BY <2>1 DEF Named
  <2>3. Spot(todo).provider = c.provider
      BY <2>2, <1>3, <1>4, <1>6, TheOnlyOne
  <2> QED
      BY <2>1, <2>3
<1> QED
    BY <1>7, <1>8, <1>9, <1>10 DEF CleanGroup

\* Phase C, the group: its broker is minted, or the group is handed on.
LEMMA ConvergeKeeps ==
    ASSUME IInv, Converge
    PROVE  IInv'
<1> USE DEF IInv
<1>1. /\ pc = "converge" /\ todo # {} /\ target = None
      /\ UNCHANGED <<env, ledger, bonds, pc, repos, said, vouched, counts>>
    BY DEF Converge
<1>2. pc' = "converge" /\ pc \in Binding
    BY <1>1 DEF Binding
<1>3. Spares(ledger', bonds')
    BY <1>1 DEF Spares, Traced, Firm
<1>4. HintsLeaveATrace' /\ FirmTraces'
    BY <1>1, <1>2, <1>3, SparedTraces DEF Emitted
<1>5. SoundLedger'
    BY <1>1 DEF SoundLedger
<1>6. CASE Converges(todo)
  <2> DEFINE after == Minted(Spot(todo).provider, Spot(todo).vhost, CleanGroup(todo), FALSE)
  <2>1. /\ target' = Spot(todo) /\ brokers' = after
        /\ todo' = todo /\ rest' = rest
      BY <1>6 DEF Converge
  <2>2. /\ Spot(todo).provider \in Providers /\ Spot(todo).vhost \in Vhosts \cup {None}
        /\ \A c \in todo : c.vhost \in {None, Spot(todo).vhost}
        /\ CleanGroup(todo) => Spot(todo).provider \in vouched
      BY <1>1, <1>6, SpotIsSound
  <2>3. Good(brokers, vouched)
      BY DEF TypeOK, CleanByContract, Good
  <2>4. CleanGroup(todo) \in BOOLEAN
      BY DEF CleanGroup
  <2>5. Good(after, vouched)
      BY <2>2, <2>3, <2>4, MintedIsGood
  <2>6. Spot(todo) \in Broker
      BY <2>2 DEF Spot, Broker
  <2> HIDE DEF after
  <2>7. TypeOK'
      BY <1>1, <2>1, <2>5, <2>6 DEF TypeOK, counts, Good
  <2>8. OnePlace' /\ GroupAgrees' /\ CleanByContract'
      BY <1>1, <2>1, <2>2, <2>5 DEF OnePlace, GroupAgrees, CleanByContract, Good
  <2> QED
      BY <1>4, <1>5, <2>7, <2>8
<1>7. CASE ~Converges(todo)
  <2>1. /\ todo' = {} /\ rest' = rest \cup todo
        /\ target' = target /\ brokers' = brokers
      BY <1>7 DEF Converge
  <2>2. TypeOK'
      BY <1>1, <2>1 DEF TypeOK, counts
  <2>3. OnePlace' /\ GroupAgrees' /\ CleanByContract'
      BY <1>1, <1>2, <2>1 DEF OnePlace, GroupAgrees, CleanByContract
  <2> QED
      BY <1>4, <1>5, <2>2, <2>3
<1> QED
    BY <1>6, <1>7

\* Phase C, a member of the group.
LEMMA BindGroupKeeps ==
    ASSUME IInv, NEW c \in todo, BindGroup(c)
    PROVE  IInv'
<1>1. pc = "converge" /\ pc \in Binding /\ target # None
    BY DEF BindGroup, Binding
<1>2. target \in Broker /\ c.vhost \in {None, target.vhost} /\ c \in Candidate
    BY <1>1 DEF IInv, TypeOK, GroupAgrees
<1>3. Good(brokers, vouched)
    BY DEF IInv, TypeOK, CleanByContract, Good
<1>4. /\ Linked(c, target) \subseteq Bond
      /\ \A x \in bonds : \E y \in Linked(c, target) :
            y.service = x.service /\ y.broker = x.broker
    BY <1>2, LinkedKeeps DEF IInv, TypeOK
<1>5. CASE Bind(c, target, brokers)
    BY <1>1, <1>2, <1>3, <1>5, BindKeeps
<1>6. CASE BindCut(brokers, Linked(c, target))
    BY <1>3, <1>4, <1>6, CutKeeps
<1> QED
    BY <1>5, <1>6 DEF BindGroup

--------------------------------------------------------------------------------
\* The steps outside of the phases.

\* Writing the hints of a service leaves a sound ledger that has them all, and every
\* candidate that was there or one in its place.
LEMMA WithHintsIsSound ==
    ASSUME ledger \subseteq Candidate, SoundLedger, vouched \subseteq Providers,
           NEW s \in Services, NEW hints \in SUBSET Hint, \A h \in hints : WellFormed(h),
           NEW named, vouched \subseteq named,
           \A h \in hints : h.grade \in Contract => h.provider \in named
    PROVE  /\ WithHints(s, hints) \subseteq Candidate
           /\ \A c \in WithHints(s, hints) : Sound(c, named)
           /\ \A c, d \in WithHints(s, hints) :
                c.service = d.service /\ c.vhost = d.vhost => c = d
           /\ \A h \in hints : \E c \in WithHints(s, hints) :
                c.service = s /\ c.vhost = h.vhost
           /\ \A c \in ledger : \E d \in WithHints(s, hints) :
                d.service = c.service /\ d.vhost = c.vhost
<1> DEFINE places == {h.vhost : h \in hints}
           spared == {c \in ledger : c.service # s \/ c.vhost \notin places}
           at(v)  == Merged(s, v, {h \in hints : h.vhost = v})
           new    == {at(v) : v \in places}
<1>1. WithHints(s, hints) = spared \cup new
    BY DEF WithHints
<1>2. ASSUME NEW v \in places
      PROVE  at(v) \in Candidate /\ at(v).service = s /\ at(v).vhost = v /\ Sound(at(v), named)
  <2> DEFINE here == {h \in hints : h.vhost = v}
  <2>1. v \in Vhosts \cup {None}
      BY DEF Hint
  <2>2. here \in SUBSET Hint /\ here # {} /\ \A h \in here : WellFormed(h)
      OBVIOUS
  <2>3. \A h \in here : h.grade \in Contract => h.provider \in named
      OBVIOUS
  <2> HIDE DEF here
  <2>4. /\ Merged(s, v, here) \in Candidate
        /\ Merged(s, v, here).service = s /\ Merged(s, v, here).vhost = v
        /\ Sound(Merged(s, v, here), named)
      BY <2>1, <2>2, <2>3, MergedIsSound
  <2> QED
      BY <2>4 DEF here
<1>3. \A v \in places : at(v) \in new
    OBVIOUS
<1>4. \A c \in new : \E v \in places : c = at(v)
    OBVIOUS
<1>5. \A h \in hints : h.vhost \in places
    OBVIOUS
<1>6. \A c \in ledger : c \in spared <=> c.service # s \/ c.vhost \notin places
    OBVIOUS
<1>7. spared \subseteq ledger
    OBVIOUS
<1> HIDE DEF places, spared, at, new
<1>8. \A c \in spared \cup new : c \in Candidate /\ Sound(c, named)
    BY <1>2, <1>4, <1>7 DEF SoundLedger, Sound
<1>9. ASSUME NEW c \in spared \cup new, NEW d \in spared \cup new,
             c.service = d.service, c.vhost = d.vhost
      PROVE  c = d
  <2>1. CASE c \in spared /\ d \in spared
      BY <2>1, <1>7, <1>9 DEF SoundLedger
  <2>2. CASE c \in new /\ d \in new
      BY <2>2, <1>2, <1>4, <1>9
  <2>3. CASE c \in spared /\ d \in new
      BY <2>3, <1>2, <1>4, <1>6, <1>7, <1>9
  <2>4. CASE c \in new /\ d \in spared
      BY <2>4, <1>2, <1>4, <1>6, <1>7, <1>9
  <2> QED
      BY <2>1, <2>2, <2>3, <2>4
<1>10. ASSUME NEW h \in hints PROVE \E c \in spared \cup new : c.service = s /\ c.vhost = h.vhost
    BY <1>2, <1>3, <1>5
<1>11. ASSUME NEW c \in ledger
       PROVE  \E d \in spared \cup new : d.service = c.service /\ d.vhost = c.vhost
  <2>1. CASE c \in spared
      BY <2>1
  <2>2. CASE c \notin spared
      BY <2>2, <1>2, <1>3, <1>6
  <2> QED
      BY <2>1, <2>2
<1> QED
    BY <1>1, <1>8, <1>9, <1>10, <1>11

\* The emission of a service's hints; one may fail.
LEMMA EmitKeeps ==
    ASSUME IInv, NEW s \in Services, Emit(s)
    PROVE  IInv'
<1> USE DEF IInv
<1>1. PICK out \in {{}} \cup {{h} : h \in env[s]} :
        /\ out # {} => lost < MaxLost
        /\ ledger' = WithHints(s, env[s] \ out)
        /\ said' = [said EXCEPT ![s] = env[s] \ out]
        /\ vouched' = vouched \cup {h.provider : h \in {g \in env[s] \ out : g.grade \in Contract}}
        /\ lost' = IF out = {} THEN lost ELSE lost + 1
    BY DEF Emit
<1> DEFINE hints == env[s] \ out
<1>2. /\ pc = "emit" /\ s \in todo /\ todo' = todo \ {s} /\ rest = {}
      /\ UNCHANGED <<env, brokers, bonds, pc, repos, rest, target, edits, crashes>>
    BY DEF Emit, OnePlace, Binding
<1>3. hints \in SUBSET Hint /\ \A h \in hints : WellFormed(h)
    BY BrokerAssumption DEF TypeOK, BrokerAssumption
<1>4. \A h \in hints : h.grade \in Contract => h.provider \in vouched' /\ h.provider \in Providers
  <2>1. \A h \in hints : h.grade \in Contract => h.provider \in Providers
      BY <1>3 DEF WellFormed, Hint, Contract
  <2> QED
      BY <1>1, <2>1
<1>5. vouched \subseteq vouched' /\ vouched \subseteq Providers
    BY <1>1 DEF TypeOK
<1>6. vouched' \subseteq Providers
  <2>1. \A p \in vouched' : p \in vouched \/ \E h \in hints : h.grade \in Contract /\ p = h.provider
      BY <1>1
  <2> QED
      BY <1>4, <1>5, <2>1
<1>7. ledger' = WithHints(s, hints) /\ said' = [said EXCEPT ![s] = hints]
    BY <1>1
<1> HIDE DEF hints
<1>8. /\ ledger' \subseteq Candidate
      /\ \A c \in ledger' : Sound(c, vouched')
      /\ \A c, d \in ledger' : c.service = d.service /\ c.vhost = d.vhost => c = d
      /\ \A h \in hints : \E c \in ledger' : c.service = s /\ c.vhost = h.vhost
      /\ \A c \in ledger : \E d \in ledger' : d.service = c.service /\ d.vhost = c.vhost
  <2>1. ledger \subseteq Candidate /\ SoundLedger
      BY DEF TypeOK
  <2>2. \A h \in hints : h.grade \in Contract => h.provider \in vouched'
      BY <1>4
  <2> DEFINE ws == WithHints(s, hints)
  <2>3. ASSUME NEW named, vouched \subseteq named,
               \A h \in hints : h.grade \in Contract => h.provider \in named
        PROVE  /\ ws \subseteq Candidate
               /\ \A c \in ws : Sound(c, named)
               /\ \A c, d \in ws : c.service = d.service /\ c.vhost = d.vhost => c = d
               /\ \A h \in hints : \E c \in ws : c.service = s /\ c.vhost = h.vhost
               /\ \A c \in ledger : \E d \in ws : d.service = c.service /\ d.vhost = c.vhost
      BY <2>1, <2>3, <1>3, <1>5, WithHintsIsSound
  <2>4. ledger' = ws
      BY <1>7
  <2> HIDE DEF ws
  <2>5. \A c \in ws : Sound(c, vouched')
      BY <2>2, <2>3, <1>5
  <2> QED
      BY <2>2, <2>3, <2>4, <2>5, <1>5
<1>9. lost' \in 0 .. MaxLost
    BY <1>1, BrokerAssumption DEF TypeOK, BrokerAssumption
<1>10. said' \in [Services -> SUBSET Hint]
    BY <1>3, <1>7 DEF TypeOK
<1>11. TypeOK'
    BY <1>2, <1>6, <1>8, <1>9, <1>10 DEF TypeOK
<1>12. OnePlace' /\ GroupAgrees'
    BY <1>2 DEF OnePlace, GroupAgrees, Binding
<1>13. SoundLedger'
    BY <1>8 DEF SoundLedger
<1>14. CleanByContract'
    BY <1>2, <1>5 DEF CleanByContract
<1>15. /\ said'[s] = hints
       /\ \A t \in Services : t # s => said'[t] = said[t]
    BY <1>7 DEF TypeOK
<1>16. HintsLeaveATrace'
  <2> SUFFICES ASSUME NEW t \in Services, NEW h \in said'[t] PROVE Traced(t, h)'
      BY DEF HintsLeaveATrace
  <2>1. CASE t = s
      BY <2>1, <1>8, <1>15 DEF Traced
  <2>2. CASE t # s
    <3>1. Traced(t, h)
        BY <2>2, <1>15 DEF HintsLeaveATrace
    <3> QED
        BY <3>1, <1>2, <1>8 DEF Traced
  <2> QED
      BY <2>1, <2>2
<1>17. FirmTraces'
  <2> SUFFICES ASSUME NEW t \in Services, Emitted(t)', NEW h \in said'[t] PROVE Firm(t, h)'
      BY DEF FirmTraces
  <2>1. CASE t = s
      BY <2>1, <1>8, <1>15 DEF Firm
  <2>2. CASE t # s
    <3>1. Emitted(t)
        BY <2>2, <1>2 DEF Emitted
    <3>2. Firm(t, h)
        BY <2>2, <3>1, <1>15 DEF FirmTraces
    <3> QED
        BY <3>2, <1>2, <1>8 DEF Firm
  <2> QED
      BY <2>1, <2>2
<1> QED
    BY <1>11, <1>12, <1>13, <1>14, <1>16, <1>17

\* A run starts: its bindings are unstamped, and nothing has been emitted yet.
LEMMA StartKeeps ==
    ASSUME IInv, NEW rs \in SUBSET Repos, Start(rs)
    PROVE  IInv'
<1> USE DEF IInv
<1>1. /\ pc = "idle" /\ pc' = "emit" /\ repos' = rs /\ rest = {}
      /\ todo' = {s \in Services : RepoOf[s] \in rs}
      /\ bonds' = {[x EXCEPT !.seen = FALSE] : x \in bonds}
      /\ UNCHANGED <<env, ledger, brokers, rest, target, said, vouched, counts>>
    BY DEF Start, OnePlace, Binding
<1>2. /\ bonds' \subseteq Bond
      /\ \A x \in bonds : \E y \in bonds' : y.service = x.service /\ y.broker = x.broker
  <2>1. ASSUME NEW x \in bonds
        PROVE  /\ [x EXCEPT !.seen = FALSE] \in Bond
               /\ [x EXCEPT !.seen = FALSE].service = x.service
               /\ [x EXCEPT !.seen = FALSE].broker = x.broker
      BY DEF TypeOK, Bond
  <2>2. \A x \in bonds : [x EXCEPT !.seen = FALSE] \in bonds'
      BY <1>1
  <2>3. \A y \in bonds' : \E x \in bonds : y = [x EXCEPT !.seen = FALSE]
      BY <1>1
  <2> QED
      BY <2>1, <2>2, <2>3
<1>3. TypeOK'
    BY <1>1, <1>2 DEF TypeOK, counts, Phases
<1>4. OnePlace' /\ GroupAgrees'
    BY <1>1 DEF OnePlace, GroupAgrees, Binding
<1>5. SoundLedger' /\ CleanByContract'
    BY <1>1 DEF SoundLedger, CleanByContract
<1>6. HintsLeaveATrace'
  <2>1. ledger' = ledger /\ said' = said
      BY <1>1
  <2> QED
      BY <2>1, <1>2 DEF HintsLeaveATrace, Traced
<1>7. FirmTraces'
    BY <1>1 DEF FirmTraces, Emitted, Binding
<1> QED
    BY <1>3, <1>4, <1>5, <1>6, <1>7

\* The candidates of the next phase.
LEMMA NextPhaseKeeps ==
    ASSUME IInv, NextPhase
    PROVE  IInv'
<1> USE DEF IInv
<1>1. /\ pc \in Binding \cup {"emit"} /\ todo = {} /\ pc' = After[pc] /\ target' = None
      /\ UNCHANGED <<env, ledger, brokers, bonds, repos, said, vouched, counts>>
    BY DEF NextPhase, After, Binding, graph
<1>2. pc' \in Binding \cup {"reap"} /\ pc' \in Phases
    BY <1>1 DEF After, Binding, Phases
<1>3. /\ todo' \subseteq ledger /\ rest' \subseteq ledger /\ todo' \cap rest' = {}
      /\ pc' = "config" => \A c \in todo' : c.config
      /\ pc' = "reap" => todo' = {} /\ rest' = {}
  <2>1. rest \subseteq ledger
      BY DEF TypeOK
  <2>2. CASE pc = "emit"
      BY <2>2, <1>1 DEF NextPhase, After
  <2>3. CASE pc = "scheme"
      BY <2>1, <2>3, <1>1 DEF NextPhase, After, Declared
  <2>4. CASE pc = "converge"
      BY <2>1, <2>4, <1>1 DEF NextPhase, After, Declared
  <2>5. CASE pc = "leftover"
      BY <2>5, <1>1 DEF NextPhase
  <2>6. CASE pc \in {"anchor", "config", "reanchor", "residual"}
    <3>1. todo' = rest /\ rest' = {} /\ pc' \notin {"config", "reap"}
        BY <2>6, <1>1 DEF NextPhase, After
    <3> QED
        BY <2>1, <3>1
  <2> QED
      BY <1>1, <2>2, <2>3, <2>4, <2>5, <2>6 DEF Binding
<1>4. TypeOK'
    BY <1>1, <1>2, <1>3 DEF TypeOK, counts, Binding
<1>5. OnePlace' /\ GroupAgrees'
    BY <1>1, <1>2, <1>3 DEF OnePlace, GroupAgrees, Binding
<1>6. SoundLedger' /\ CleanByContract'
    BY <1>1 DEF SoundLedger, CleanByContract
<1>7. \A s \in Services : Emitted(s)' => Emitted(s)
    BY <1>1 DEF Emitted
<1>8. Spares(ledger', bonds')
    BY <1>1 DEF Spares, Traced, Firm
<1> QED
    BY <1>1, <1>4, <1>5, <1>6, <1>7, <1>8, SparedTraces

\* The reaper takes what this run has not confirmed, and every hint of the repositories
\* it analysed has a firm trace.
LEMMA ReapKeeps ==
    ASSUME IInv, Reap
    PROVE  IInv'
<1> USE DEF IInv
<1>1. /\ pc = "reap" /\ pc' = "exact" /\ bonds' = bonds \ Reaped /\ todo = {} /\ rest = {}
      /\ UNCHANGED <<env, ledger, brokers, repos, todo, rest, target, said, vouched, counts>>
    BY DEF Reap, OnePlace, Binding
<1>2. TypeOK'
    BY <1>1 DEF TypeOK, counts, Phases
<1>3. OnePlace' /\ GroupAgrees'
    BY <1>1 DEF OnePlace, GroupAgrees, Binding
<1>4. SoundLedger' /\ CleanByContract'
    BY <1>1 DEF SoundLedger, CleanByContract
<1>5. FirmTraces'
    BY <1>1 DEF FirmTraces, Emitted, Binding
<1>6. HintsLeaveATrace'
  <2> SUFFICES ASSUME NEW s \in Services, NEW h \in said[s] PROVE Traced(s, h)'
      BY <1>1 DEF HintsLeaveATrace
  <2>1. CASE RepoOf[s] \in repos
    <3>1. Firm(s, h)
        BY <2>1, <1>1 DEF FirmTraces, Emitted
    <3> QED
        BY <3>1, <1>1 DEF Firm, Traced, Reaped
  <2>2. CASE RepoOf[s] \notin repos
    <3>1. Traced(s, h)
        BY DEF HintsLeaveATrace
    <3> QED
        BY <2>2, <3>1, <1>1 DEF Traced, Reaped
  <2> QED
      BY <2>1, <2>2
<1> QED
    BY <1>2, <1>3, <1>4, <1>5, <1>6

\* Merging a broker into one that has its virtual host, where it has one, moves traces.
LEMMA MergeKeeps ==
    ASSUME IInv, pc \in {"exact", "melt"}, NEW secondary \in Broker, NEW primary \in Broker,
           secondary.vhost \in {None, primary.vhost}, Merge(secondary, primary)
    PROVE  IInv'
<1> USE DEF IInv
<1> DEFINE moved == {[x EXCEPT !.broker = primary] : x \in {y \in bonds : y.broker = secondary}}
           met(x) == \E y \in moved : y.service = x.service /\ y.source = x.source
<1>1. /\ bonds' = {x \in bonds : x.broker # secondary /\ ~(x.broker = primary /\ met(x))}
                        \cup moved
      /\ brokers' = [b \in DOMAIN brokers \ {secondary} |-> brokers[b]]
      /\ UNCHANGED <<env, ledger, run, said, vouched, counts>>
    BY DEF Merge
<1>2. UNCHANGED <<pc, repos, todo, rest, target>> /\ todo = {} /\ rest = {}
    BY <1>1 DEF run, OnePlace, Binding
<1>3. moved \subseteq Bond /\ \A y \in moved : y.broker = primary
    BY DEF TypeOK, Bond
<1>4. ASSUME NEW x \in bonds, x.broker = secondary
      PROVE  \E y \in moved : y.service = x.service
  <2>1. [x EXCEPT !.broker = primary].service = x.service
      BY DEF TypeOK, Bond
  <2>2. [x EXCEPT !.broker = primary] \in moved
      BY <1>4
  <2> QED
      BY <2>1, <2>2
<1> HIDE DEF moved
<1>5. bonds' \subseteq Bond
    BY <1>1, <1>3 DEF TypeOK
<1>6. \A x \in bonds : \E y \in bonds' :
        y.service = x.service /\ x.broker.vhost \in {None, y.broker.vhost}
  <2> SUFFICES ASSUME NEW x \in bonds
               PROVE  \E y \in bonds' : /\ y.service = x.service
                                        /\ x.broker.vhost \in {None, y.broker.vhost}
      OBVIOUS
  <2>1. CASE x.broker = secondary
      BY <2>1, <1>1, <1>3, <1>4
  <2>2. CASE x.broker = primary /\ met(x)
      BY <2>2, <1>1, <1>3
  <2>3. CASE x.broker # secondary /\ ~(x.broker = primary /\ met(x))
      BY <2>3, <1>1
  <2> QED
      BY <2>1, <2>2, <2>3
<1>7. TypeOK'
    BY <1>1, <1>2, <1>5 DEF TypeOK, counts
<1>8. OnePlace' /\ GroupAgrees' /\ SoundLedger' /\ CleanByContract'
    BY <1>1, <1>2 DEF OnePlace, GroupAgrees, SoundLedger, CleanByContract, Binding
<1>9. HintsLeaveATrace'
    BY <1>1, <1>6 DEF HintsLeaveATrace, Traced
<1>10. FirmTraces'
    BY <1>2 DEF FirmTraces, Emitted, Binding
<1> QED
    BY <1>7, <1>8, <1>9, <1>10

\* Duplicates share a virtual host.
LEMMA MergeDuplicateKeeps ==
    ASSUME IInv, MergeDuplicate
    PROVE  IInv'
<1>1. PICK d \in Duplicates : pc = "exact" /\ Merge(d, [d EXCEPT !.old = FALSE])
    BY DEF MergeDuplicate
<1>2. d \in Broker /\ [d EXCEPT !.old = FALSE] \in Broker
    BY DEF Duplicates, IInv, TypeOK
<1>3. [d EXCEPT !.old = FALSE].vhost = d.vhost
    BY <1>2 DEF Broker
<1> QED
    BY <1>1, <1>2, <1>3, MergeKeeps

\* What melts has no virtual host.
LEMMA MeltKeeps ==
    ASSUME IInv, Melt
    PROVE  IInv'
<1>1. PICK b \in DOMAIN brokers : Melting(b) /\ \E d \in Siblings(b) : Merge(b, d)
    BY DEF Melt
<1>2. PICK d \in Siblings(b) : Merge(b, d)
    BY <1>1
<1>3. b \in Broker /\ d \in Broker /\ b.vhost = None /\ pc = "melt"
    BY <1>1 DEF Siblings, Melting, Melt, IInv, TypeOK
<1> QED
    BY <1>2, <1>3, MergeKeeps

\* Marking for review clears nothing.
LEMMA MarkDoubtfulKeeps ==
    ASSUME IInv, MarkDoubtful
    PROVE  IInv'
<1> USE DEF IInv
<1>1. PICK b \in ToReview : brokers' = [brokers EXCEPT ![b].clean = FALSE]
    BY DEF MarkDoubtful
<1>2. /\ pc = "melt"
      /\ UNCHANGED <<env, ledger, bonds, pc, repos, todo, rest, target, said, vouched, counts>>
    BY DEF MarkDoubtful, run
<1>3. b \in DOMAIN brokers
    BY DEF ToReview
<1> DEFINE new == [brokers[b] EXCEPT !.clean = FALSE]
<1>4. new \in [clean : BOOLEAN, config : BOOLEAN] /\ ~new.clean
    BY <1>3 DEF TypeOK
<1>5. /\ DOMAIN brokers' = DOMAIN brokers /\ brokers'[b] = new
      /\ \A d \in DOMAIN brokers : d # b => brokers'[d] = brokers[d]
    BY <1>1, <1>3
<1> HIDE DEF new
<1>6. TypeOK'
    BY <1>2, <1>4, <1>5 DEF TypeOK, counts
<1>7. CleanByContract'
    BY <1>2, <1>4, <1>5 DEF CleanByContract
<1>8. OnePlace' /\ GroupAgrees' /\ SoundLedger'
    BY <1>2 DEF OnePlace, GroupAgrees, SoundLedger
<1>9. HintsLeaveATrace' /\ FirmTraces'
    BY <1>2 DEF HintsLeaveATrace, Traced, FirmTraces, Firm, Emitted
<1> QED
    BY <1>6, <1>7, <1>8, <1>9

\* The end of a run, and a change between two runs.
LEMMA ConsolidatedKeeps ==
    ASSUME IInv, Consolidated
    PROVE  IInv'
<1> USE DEF IInv
<1>1. /\ pc \in {"exact", "melt"} /\ pc' \in {"melt", "idle"} /\ repos' \subseteq repos
      /\ todo = {} /\ rest = {}
      /\ UNCHANGED <<env, ledger, brokers, bonds, todo, rest, target, said, vouched, counts>>
    BY DEF Consolidated, graph, OnePlace, Binding
<1>2. TypeOK'
    BY <1>1 DEF TypeOK, counts, Phases
<1>3. OnePlace' /\ GroupAgrees' /\ SoundLedger' /\ CleanByContract'
    BY <1>1 DEF OnePlace, GroupAgrees, SoundLedger, CleanByContract, Binding
<1>4. HintsLeaveATrace' /\ FirmTraces'
    BY <1>1 DEF HintsLeaveATrace, Traced, FirmTraces, Emitted, Binding
<1> QED
    BY <1>2, <1>3, <1>4

\* A change of configuration touches neither the graph nor what has been said.
LEMMA EditKeeps ==
    ASSUME IInv, NEW s \in Services, Edit(s)
    PROVE  IInv'
<1> USE DEF IInv
<1>1. PICK e \in Environments[s] : env' = [env EXCEPT ![s] = e]
    BY DEF Edit
<1>2. /\ edits < MaxEdits /\ edits' = edits + 1
      /\ UNCHANGED <<ledger, brokers, bonds, pc, repos, todo, rest, target, said, vouched,
                     lost, crashes>>
    BY DEF Edit, graph, run
<1>3. DOMAIN env' = Services /\ \A t \in Services : env'[t] \in Environments[t]
    BY <1>1 DEF TypeOK
<1>4. edits' \in 0 .. MaxEdits
    BY <1>2, BrokerAssumption DEF TypeOK, BrokerAssumption
<1>5. TypeOK'
    BY <1>2, <1>3, <1>4 DEF TypeOK
<1>6. OnePlace' /\ GroupAgrees' /\ SoundLedger' /\ CleanByContract'
    BY <1>2 DEF OnePlace, GroupAgrees, SoundLedger, CleanByContract
<1>7. HintsLeaveATrace' /\ FirmTraces'
    BY <1>2 DEF HintsLeaveATrace, Traced, FirmTraces, Firm, Emitted
<1> QED
    BY <1>5, <1>6, <1>7

--------------------------------------------------------------------------------
\* The initial states.
LEMMA InitIsFirm ==
    ASSUME Init
    PROVE  IInv
<1>1. PICK old \in {{}, OldBrokers} : brokers = [b \in old |-> [clean |-> FALSE, config |-> FALSE]]
    BY DEF Init
<1>2. DOMAIN brokers = old /\ \A b \in old : brokers[b] = [clean |-> FALSE, config |-> FALSE]
    BY <1>1
<1>3. old \subseteq Broker
    BY BrokerAssumption DEF BrokerAssumption
<1>4. TypeOK
    BY <1>2, <1>3, BrokerAssumption DEF Init, TypeOK, BrokerAssumption, Phases
<1>5. OnePlace /\ SoundLedger /\ GroupAgrees
    BY DEF Init, OnePlace, SoundLedger, GroupAgrees
<1>6. CleanByContract
    BY <1>2 DEF CleanByContract
<1>7. HintsLeaveATrace /\ FirmTraces
    BY DEF Init, HintsLeaveATrace, FirmTraces, Emitted
<1> QED
    BY <1>4, <1>5, <1>6, <1>7 DEF IInv

\* Every step keeps the invariant.
LEMMA StepKeeps ==
    ASSUME IInv, [Next]_vars
    PROVE  IInv'
<1>1. ASSUME NEW s \in Services, Emit(s) PROVE IInv'
    BY <1>1, EmitKeeps
<1>2. ASSUME NEW c \in todo, OfCandidate(c) PROVE IInv'
    BY <1>2, AnchorKeeps, SelfAnchorKeeps, DeclareConfigKeeps, ResidualKeeps, BindGroupKeeps
        DEF OfCandidate
<1>3. CASE Converge
    BY <1>3, ConvergeKeeps
<1>4. CASE NextPhase
    BY <1>4, NextPhaseKeeps
<1>5. CASE Reap
    BY <1>5, ReapKeeps
<1>6. CASE MergeDuplicate
    BY <1>6, MergeDuplicateKeeps
<1>7. CASE Melt
    BY <1>7, MeltKeeps
<1>8. CASE MarkDoubtful
    BY <1>8, MarkDoubtfulKeeps
<1>9. CASE Consolidated
    BY <1>9, ConsolidatedKeeps
<1>10. CASE Crash
  <2>1. BindCut(brokers, bonds)
      BY <1>10 DEF Crash, BindCut, graph
  <2>2. Good(brokers, vouched) /\ bonds \subseteq Bond
      BY DEF IInv, TypeOK, CleanByContract, Good
  <2> QED
      BY <2>1, <2>2, CutKeeps
<1>11. ASSUME NEW s \in Services, Edit(s) PROVE IInv'
    BY <1>11, EditKeeps
<1>12. ASSUME NEW rs \in SUBSET Repos, Start(rs) PROVE IInv'
    BY <1>12, StartKeeps
<1>13. CASE UNCHANGED vars
    BY <1>13 DEF IInv, TypeOK, OnePlace, SoundLedger, GroupAgrees, CleanByContract,
        HintsLeaveATrace, Traced, FirmTraces, Firm, Emitted, vars, graph, run, counts
<1> QED
    BY <1>1, <1>2, <1>3, <1>4, <1>5, <1>6, <1>7, <1>8, <1>9, <1>10, <1>11, <1>12, <1>13
        DEF Next, Step

\* The invariant holds of every reachable state.
LEMMA Inductive == Spec => []IInv
<1>1. Init => IInv
    BY InitIsFirm
<1>2. IInv /\ [Next]_vars => IInv'
    BY StepKeeps
<1> QED
    BY <1>1, <1>2, PTL DEF Spec

\* The state of the broker stage keeps its shape, whatever is bound, cut short or merged.
THEOREM BrokersTypeCorrect == Spec => []TypeOK
<1>1. IInv => TypeOK
    BY DEF IInv
<1> QED
    BY <1>1, Inductive, PTL

\* A broker that is not left for review has a provider that some contract has named
\* (broker-candidates.ts:14-22), through any mints, corroborations and merges.
THEOREM ReviewsAreClearedByContract == Spec => []CleanByContract
<1>1. IInv => CleanByContract
    BY DEF IInv
<1> QED
    BY <1>1, Inductive, PTL

\* No hint that was written is lost silently: candidate or binding, it leaves a trace
\* (broker-candidates.ts:24-27), also where runs end in the middle and others reap.
THEOREM HintsAreTraced == Spec => []HintsLeaveATrace
<1>1. IInv => HintsLeaveATrace
    BY DEF IInv
<1> QED
    BY <1>1, Inductive, PTL
================================================================================
