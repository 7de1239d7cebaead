---------------------------- MODULE ChannelReconcile ----------------------------
(***************************************************************************)
(* The reconciliation of message channels: steps 10 to 12 of                *)
(* src/src/ingestion/workflows/reconcile.workflow.ts.  The analysis of a    *)
(* function writes logical channels, known by name and kind; the passes     *)
(* promote them onto the brokers that their services connect to, move       *)
(* channels of a broker without virtual host to the broker that an          *)
(* infrastructure file declares, follow routing patterns to queues, and     *)
(* weld channels that are the same.  Each pass reads its candidates first   *)
(* and then applies them one by one; a candidate is a few statements, and   *)
(* a run can end between any two of them.                                   *)
(*                                                                          *)
(* One provider and technology, and edges without routing keys.             *)
(***************************************************************************)
EXTENDS Naturals, Sequences, FiniteSets

CONSTANTS
    Functions,
    ServiceOf,     \* the service that contains a function
    MessageBrokers,
    HostOnly,      \* the brokers known by host, without a virtual host
    Doubted,       \* the brokers left for review
    Logical,       \* in the place of a broker: no broker
    Names,
    LongsOf,       \* the sibling names that a truncated name stands for
    Phantoms,      \* names that look like a message class
    Worlds,        \* declared channels, their owners, routes and bindings
    Sayings,       \* what a function can be found to do: a set of sets of uses
    MaxAnalyses,   \* bound on the analyses of functions
    MaxCuts        \* bound on the runs that end in the middle

Kinds   == {"topic", "queue"}
Dirs    == {"publishes", "listens"}
Use     == [name : Names, kind : Kinds, dir : Dirs]
Channel == [name : Names, kind : Kinds, place : MessageBrokers \cup {Logical}]
Edge    == [fn : Functions, dir : Dirs, ch : Channel]
\* A binding of a service with functions; weak when it comes from a residual candidate.
Containers == {ServiceOf[f] : f \in Functions}
Connection == [service : Containers, broker : MessageBrokers, weak : BOOLEAN]
\* The node of a channel: its broker, whether configuration declares it, what it absorbed.
Node    == [live : BOOLEAN, on : MessageBrokers \cup {Logical}, config : BOOLEAN,
            mergedFrom : SUBSET Channel]

\* What configuration declares is on a broker, and a routing pattern leads to channels.
ASSUME ChannelAssumption ==
    /\ HostOnly \subseteq MessageBrokers /\ Logical \notin MessageBrokers
    /\ LongsOf \in [Names -> SUBSET Names] /\ Phantoms \subseteq Names
    /\ \A w \in Worlds :
        /\ w.config \subseteq {c \in Channel : c.place # Logical}
        /\ w.routes \in [Names -> SUBSET Channel]
        /\ w.connections \subseteq Connection
    /\ \A us \in Sayings : us \subseteq Use
    /\ MaxAnalyses \in Nat /\ MaxCuts \in Nat

VARIABLES
    world,    \* [config, owners, routes, connections]
    channels, \* the graph: channels, their edges, the bindings of services
    pass,     \* the pass of the run
    work,     \* its candidates
    found,    \* per function: the uses of its last analysis
    named,    \* per function: the names of all its analyses
    analyses, cuts

nodes   == channels.nodes    \* the MessageChannel nodes, tombstoned ones included
live    == channels.live     \* the live PUBLISHES_TO and LISTENS_TO edges
retired == channels.retired  \* the tombstoned ones
connections == channels.connections  \* the live CONNECTS_TO edges
dropped == channels.dropped  \* history: edges that a weld left out, per function since its
                             \* last analysis
channelCounts == <<analyses, cuts>>
channelVars   == <<world, channels, pass, work, found, named, channelCounts>>

DeclaredNodes(w) ==
    [c \in w.config |-> [live |-> TRUE, on |-> c.place, config |-> TRUE, mergedFrom |-> {}]]

ChannelInit ==
    /\ world \in Worlds
    /\ channels = [nodes |-> DeclaredNodes(world), live |-> {}, retired |-> {},
                   connections |-> world.connections, dropped |-> {}]
    /\ pass = "idle" /\ work = {}
    /\ found = [f \in Functions |-> {}]
    /\ named = [f \in Functions |-> {}]
    /\ analyses = 0 /\ cuts = 0

--------------------------------------------------------------------------------
IsLive(c)    == c \in DOMAIN nodes /\ nodes[c].live
Physical(c)  == c.place # Logical
BrokerOf(c)    == nodes[c].on
Edges        == live \cup retired
Users(c)     == {ServiceOf[e.fn] : e \in {x \in live : x.ch = c}}
\* The service guards of the welders match tombstoned edges too.
EverUsers(c) == {ServiceOf[e.fn] : e \in {x \in Edges : x.ch = c}}

\* What statements make of a graph.
\* A tombstoned channel that is written again stays a tombstone.
Mutant_Upsert_KeepsTombstone(g, c) ==
    LET old == c \in DOMAIN g.nodes
        node == [live |-> ~old \/ g.nodes[c].live,
                 on |-> IF old /\ ~Physical(c) THEN g.nodes[c].on ELSE c.place,
                 config |-> old /\ g.nodes[c].config,
                 mergedFrom |-> IF old THEN g.nodes[c].mergedFrom ELSE {}]
    IN  [g EXCEPT !.nodes = [d \in DOMAIN g.nodes \cup {c} |->
                                IF d = c THEN node ELSE g.nodes[d]]]

\* mergeMessageChannelWithKind(): an existing node is revived and gets the broker.
Upsert(g, c) ==
    LET old == c \in DOMAIN g.nodes
        node == [live |-> TRUE,
                 on |-> IF old /\ ~Physical(c) THEN g.nodes[c].on ELSE c.place,
                 config |-> old /\ g.nodes[c].config,
                 mergedFrom |-> IF old THEN g.nodes[c].mergedFrom ELSE {}]
    IN  [g EXCEPT !.nodes = [d \in DOMAIN g.nodes \cup {c} |->
                                IF d = c THEN node ELSE g.nodes[d]]]
Tombstone(g, c) == [g EXCEPT !.nodes[c].live = FALSE]
DetachDelete(g, c) ==
    [g EXCEPT !.nodes = [d \in DOMAIN g.nodes \ {c} |-> g.nodes[d]],
              !.live = {e \in @ : e.ch # c}, !.retired = {e \in @ : e.ch # c}]
Along(es, c, dirs) == {e \in es : e.ch = c /\ e.dir \in dirs}
Onto(es, c) == {[e EXCEPT !.ch = c] : e \in es}

\* Edges are created on the target beside the tombstoned ones that are there.
Mutant_Moved_Creates(g, from, to, dirs) ==
    LET es == {e \in Along(g.live, from, dirs) : to \in DOMAIN g.nodes}
    IN  [g EXCEPT !.live = (@ \ es) \cup Onto(es, to), !.retired = @ \cup es]

\* moveEdgesPreservingProps(), moveLikeEdges(): the live edges move, the old ones stay as
\* tombstones.  Nothing moves to a channel that is not there.
Moved(g, from, to, dirs) ==
    LET es == {e \in Along(g.live, from, dirs) : to \in DOMAIN g.nodes}
    IN  [g EXCEPT !.live = (@ \ es) \cup Onto(es, to),
                  !.retired = (@ \ Onto(es, to)) \cup es]

\* deduplicateMessageChannelsBySuffix(): every edge, tombstoned ones too, is live afterwards.
Copied(g, from, to, dirs) ==
    LET es == {e \in Onto(Along(g.live \cup g.retired, from, dirs), to) : to \in DOMAIN g.nodes}
    IN  [g EXCEPT !.live = @ \cup es, !.retired = @ \ es]

\* deduplicateMessageChannelsByExactNameDifferentKind(): an edge that the survivor has, live
\* or not, stays as it is.
Rewired(g, from, to, dirs) ==
    LET es == Along(g.live \cup g.retired, from, dirs)
    IN  [g EXCEPT !.live = (@ \ es) \cup (Onto(es, to) \ g.retired), !.retired = @ \ es,
                  !.dropped = @ \cup {e \in es : [e EXCEPT !.ch = to] \in g.retired}]

--------------------------------------------------------------------------------
\* A code pipeline in which one function is analysed anew: the edge reconciler retires its
\* edges to every channel that the analysis does not yield under that very id, promoted
\* ones included; the writer merges logical channels and edges; channels without a live
\* edge or a declaration are tombstoned at the end.
LogicalOf(u) == [name |-> u.name, kind |-> u.kind, place |-> Logical]
Written(f, us) ==
    LET edges == {[fn |-> f, dir |-> u.dir, ch |-> LogicalOf(u)] : u \in us}
        stale == {e \in live : e.fn = f} \ edges
        chs   == {LogicalOf(u) : u \in us}
    IN  [channels EXCEPT !.nodes = [d \in DOMAIN nodes \cup chs |->
                                  IF d \in chs THEN Upsert(channels, d).nodes[d] ELSE nodes[d]],
                    !.live = (@ \ stale) \cup edges,
                    !.retired = (@ \cup stale) \ edges,
                    !.dropped = {e \in @ : e.fn # f}]
WithoutOrphans(g) ==
    [g EXCEPT !.nodes = [d \in DOMAIN g.nodes |->
        [g.nodes[d] EXCEPT
            !.live = @ /\ (d \in world.config \/ \E e \in g.live : e.ch = d)]]]

Analyse(f) ==
    /\ pass = "idle" /\ analyses < MaxAnalyses
    /\ \E us \in Sayings :
        /\ channels' = WithoutOrphans(Written(f, us))
        /\ found' = [found EXCEPT ![f] = us]
        /\ named' = [named EXCEPT ![f] = @ \cup {u.name : u \in us}]
    /\ analyses' = analyses + 1
    /\ UNCHANGED <<world, pass, work, cuts>>

\* An infrastructure file is read again: its channels are merged anew.
Redeclare ==
    /\ pass = "idle"
    /\ channels' = [channels EXCEPT !.nodes = [d \in DOMAIN nodes \cup world.config |->
                    IF d \in world.config
                    THEN [Upsert(channels, d).nodes[d] EXCEPT !.config = TRUE] ELSE nodes[d]]]
    /\ UNCHANGED <<world, pass, work, found, named, channelCounts>>

--------------------------------------------------------------------------------
\* One candidate of a pass: the graphs after each of its transactions, of which the run
\* reaches the last, or ends after an earlier one.
EndsEarly ==
    /\ cuts < MaxCuts
    /\ cuts' = cuts + 1
    /\ pass' = "idle" /\ work' = {}
Applies(x, gs) ==
    /\ x \in work
    /\ \/ /\ channels' = gs[Len(gs)]
          /\ work' = work \ {x}
          /\ UNCHANGED <<pass, cuts>>
       \/ /\ EndsEarly
          /\ \E i \in 1 .. Len(gs) - 1 : channels' = gs[i]
    /\ UNCHANGED <<world, found, named, analyses>>

\* Step 10, promotion.  First the declared channels of the name in the same repository,
\* whatever their kind; then the brokers of the services, strong bindings before weak ones.
ToPromote    == {c \in DOMAIN nodes : IsLive(c) /\ ~Physical(c)}
DeclaredFor(c) ==
    {d \in world.config : IsLive(d) /\ nodes[d].config /\ d.name = c.name
                          /\ world.owners[d] \cap Users(c) # {}}
Weak(x)      == x.weak /\ x.broker \in Doubted
Rows(c)      == {x \in connections : x.service \in Users(c)}
Strong(c)    == {x \in Rows(c) : ~Weak(x)}
Pool(c)      == {x.broker : x \in IF Strong(c) # {} THEN Strong(c) ELSE Rows(c)}
Targets(c)   ==
    IF DeclaredFor(c) # {} THEN DeclaredFor(c) ELSE {[c EXCEPT !.place = b] : b \in Pool(c)}
Promotable(c) == c.name \notin Phantoms /\ Cardinality(Targets(c)) = 1

\* promote(), statement by statement; the logical channel goes when nothing uses it.
Collapsed(g, c) == IF \E e \in g.live : e.ch = c THEN g ELSE Tombstone(g, c)
Promotion(c, p) ==
    LET g1 == IF p \in DeclaredFor(c) THEN channels ELSE Upsert(channels, p)
        g2 == Moved(g1, c, p, {"publishes"})
        g3 == Moved(g2, c, p, {"listens"})
    IN  <<g1, g2, g3, Collapsed(g3, c)>>
Promote(c) ==
    /\ pass = "promote"
    /\ \/ c.name \in Phantoms /\ Applies(c, <<Tombstone(channels, c)>>)
       \/ c.name \notin Phantoms /\ ~Promotable(c) /\ Applies(c, <<channels>>)
       \/ Promotable(c) /\ \E p \in Targets(c) : Applies(c, Promotion(c, p))

\* Step 10b, one transaction: the broker of the channel, and bindings of its services.
Counterparts(c) ==
    {d \in DOMAIN nodes : IsLive(d) /\ nodes[d].config /\ d.name = c.name}
CounterBrokers(c) == {BrokerOf(d) : d \in Counterparts(c)} \ {Logical, BrokerOf(c)}
OnHostOnly(c) == IsLive(c) /\ ~nodes[c].config /\ BrokerOf(c) \in HostOnly
ToConverge ==
    {x \in (DOMAIN nodes) \X MessageBrokers :
        OnHostOnly(x[1]) /\ CounterBrokers(x[1]) = {x[2]}}
ConvergeChannel(x) ==
    /\ pass = "converge"
    /\ Applies(x, <<[channels EXCEPT
        !.nodes[x[1]].on = x[2],
        !.connections = @ \cup {[service |-> s, broker |-> x[2], weak |-> FALSE] :
                                s \in Users(x[1])}]>>)

\* Step 10c, one transaction: a channel without a declared namesake moves to the only queue
\* that its name is routed to.
\* The binding key of the queue is not compared with the name.
Mutant_Queues_AnyKey(c) ==
    {q \in UNION {world.routes[n] : n \in Names} :
        IsLive(q) /\ nodes[q].config /\ BrokerOf(q) # BrokerOf(c)}
Queues(c) ==
    {q \in world.routes[c.name] : IsLive(q) /\ nodes[q].config /\ BrokerOf(q) # BrokerOf(c)}
ToRoute ==
    {x \in (DOMAIN nodes) \X world.config :
        OnHostOnly(x[1]) /\ Counterparts(x[1]) = {} /\ Queues(x[1]) = {x[2]}}
Route(x) ==
    /\ pass = "route"
    /\ Applies(x, <<DetachDelete(Moved(channels, x[1], x[2], Dirs), x[1])>>)

\* Step 11: a truncated name and its siblings, on one broker, used within one service.  A
\* name whose sibling is itself the truncation of a channel on that broker matches that one
\* too, at another place, and is left alone.  The truncated channel goes after its last
\* sibling.
Alike(c, d)   == c.kind = d.kind /\ BrokerOf(c) = BrokerOf(d) /\ Physical(c) = Physical(d)
Longs(c)      == {d \in DOMAIN nodes : IsLive(d) /\ Alike(c, d) /\ d.name \in LongsOf[c.name]}
OfOneDepth(c) == \A d \in Longs(c) : Longs(d) = {}
ToExtend ==
    {x \in (DOMAIN nodes) \X (DOMAIN nodes) :
        /\ IsLive(x[1]) /\ x[2] \in Longs(x[1]) /\ OfOneDepth(x[1])
        /\ EverUsers(x[2]) \cap EverUsers(x[1]) # {}}
Extend(x) ==
    /\ pass = "suffix"
    /\ LET g1   == Copied(channels, x[1], x[2], {"publishes"})
           g2   == Copied(g1, x[1], x[2], {"listens"})
           more == \E y \in work \ {x} : y[1] = x[1]
       IN  Applies(x, IF more THEN <<g1, g2>> ELSE <<g1, g2, DetachDelete(g2, x[1])>>)

\* Step 12: a topic absorbs the queue of its name on its broker, when a service uses both,
\* configuration declares one, or the broker is not in doubt; but never the same queue twice.
\* A queue that configuration declares again is absorbed again, in every run.
Mutant_ToAbsorb_Again ==
    {x \in (DOMAIN nodes) \X (DOMAIN nodes) :
        /\ IsLive(x[1]) /\ IsLive(x[2]) /\ x[1].kind = "topic" /\ x[2].kind = "queue"
        /\ x[1].name = x[2].name /\ BrokerOf(x[1]) = BrokerOf(x[2])
        /\ \/ EverUsers(x[1]) \cap EverUsers(x[2]) # {}
           \/ nodes[x[1]].config \/ nodes[x[2]].config
           \/ BrokerOf(x[1]) # Logical /\ BrokerOf(x[1]) \notin Doubted}
ToAbsorb ==
    {x \in (DOMAIN nodes) \X (DOMAIN nodes) :
        /\ IsLive(x[1]) /\ IsLive(x[2]) /\ x[1].kind = "topic" /\ x[2].kind = "queue"
        /\ x[1].name = x[2].name /\ BrokerOf(x[1]) = BrokerOf(x[2])
        /\ \/ EverUsers(x[1]) \cap EverUsers(x[2]) # {}
           \/ nodes[x[1]].config \/ nodes[x[2]].config
           \/ BrokerOf(x[1]) # Logical /\ BrokerOf(x[1]) \notin Doubted
        /\ x[2] \notin nodes[x[1]].mergedFrom}
Absorb(x) ==
    /\ pass = "kinds"
    /\ IF x[2] \in DOMAIN nodes
       THEN LET g1 == [channels EXCEPT !.nodes[x[1]].mergedFrom = @ \cup {x[2]},
                                  !.nodes[x[1]].config = @ \/ nodes[x[2]].config]
                g2 == Rewired(g1, x[2], x[1], {"publishes"})
                g3 == Rewired(g2, x[2], x[1], {"listens"})
            IN  Applies(x, <<g1, g2, g3, DetachDelete(g3, x[2])>>)
       ELSE Applies(x, <<channels>>)

--------------------------------------------------------------------------------
Candidates(p) ==
    CASE p = "promote"  -> ToPromote
      [] p = "converge" -> ToConverge
      [] p = "route"    -> ToRoute
      [] p = "suffix"   -> ToExtend
      [] p = "kinds"    -> ToAbsorb
      [] p = "idle"     -> {}
AfterPass == [idle |-> "promote", promote |-> "converge", converge |-> "route",
          route |-> "suffix", suffix |-> "kinds", kinds |-> "idle"]

Turn(from) ==
    /\ pass \in from /\ work = {}
    /\ pass' = AfterPass[pass]
    /\ work' = Candidates(pass')
    /\ UNCHANGED <<world, channels, found, named, channelCounts>>
StartPasses    == Turn({"idle"})
NextPass == Turn(DOMAIN AfterPass \ {"idle"})

CutShort ==
    /\ pass # "idle" /\ EndsEarly
    /\ UNCHANGED <<world, channels, found, named, analyses>>

PassStep ==
    \/ \E x \in work : Promote(x) \/ ConvergeChannel(x) \/ Route(x) \/ Extend(x) \/ Absorb(x)
    \/ NextPass
ChannelNext ==
    \/ StartPasses \/ PassStep \/ CutShort \/ Redeclare
    \/ \E f \in Functions : Analyse(f)

ChannelSpec == ChannelInit /\ [][ChannelNext]_channelVars

\* A run that goes on takes its steps, and there is always another run.
FairChannelSpec == ChannelSpec /\ WF_channelVars(PassStep) /\ SF_channelVars(StartPasses)

--------------------------------------------------------------------------------
\* The state has its shape; the candidates of a pass are channels that are or were there.
ChannelTypeOK ==
    /\ world \in Worlds
    /\ DOMAIN nodes \subseteq Channel
    /\ \A c \in DOMAIN nodes : nodes[c] \in Node
    /\ live \subseteq Edge /\ retired \subseteq Edge /\ live \cap retired = {}
    /\ \A e \in Edges : e.ch \in DOMAIN nodes
    /\ connections \subseteq Connection /\ dropped \subseteq Edge
    /\ pass \in DOMAIN AfterPass
    /\ pass = "idle" => work = {}
    /\ analyses \in 0 .. MaxAnalyses /\ cuts \in 0 .. MaxCuts

\* The names of the channels that may come to stand for a name, in any number of moves.
MovesTo(n) == LongsOf[n] \cup {q.name : q \in world.routes[n]}
StandIns(n) ==
    {m \in Names : \A ms \in SUBSET Names :
        n \in ms /\ (\A k \in ms : MovesTo(k) \subseteq ms) => m \in ms}

\* Whatever the passes move, merge and delete, and wherever a run ends, each use that the
\* last analysis of a function found has a live edge to a live channel that stands for its
\* name.  Two exceptions are by the code: a name that may end up as a message class taken for
\* a channel, and an edge of a queue that the topic it is absorbed by has had before: the
\* weld leaves the old edge retired and drops the new one.
Phantom(u) == StandIns(u.name) \cap Phantoms # {}
Dropped(f, u) ==
    \E e \in dropped : e.fn = f /\ e.dir = u.dir /\ e.ch.name \in StandIns(u.name)
Serves(f, u) ==
    \E e \in live : e.fn = f /\ e.dir = u.dir /\ IsLive(e.ch) /\ e.ch.name \in StandIns(u.name)
UsesAreServed ==
    \A f \in Functions : \A u \in found[f] : Phantom(u) \/ Dropped(f, u) \/ Serves(f, u)

\* No function is credited with a channel that stands for no name it was ever found to use.
OnlyOwnChannels ==
    \A e \in live : \E n \in named[e.fn] : e.ch.name \in StandIns(n)

\* Repeated runs come to an end: from some point on there is nothing left to do between
\* them, although a run feeds the ones after it: convergence adds bindings that promotion
\* reads, and welding makes channels declared that convergence looks at.
NothingToDo ==
    /\ ~\E c \in ToPromote : Promotable(c)
    /\ ToConverge = {} /\ ToRoute = {} /\ ToExtend = {} /\ ToAbsorb = {}
RunsSettle == <>[](pass = "idle" => NothingToDo)
================================================================================
