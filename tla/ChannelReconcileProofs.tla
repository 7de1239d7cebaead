------------------------- MODULE ChannelReconcileProofs -------------------------
(***************************************************************************)
(* Proofs about ChannelReconcile, for any functions, brokers, names, worlds *)
(* and sayings.                                                             *)
(*                                                                          *)
(* OnlyOwnChannels is not inductive: the weld by suffix brings tombstoned   *)
(* edges back to life, so these must be owned too (Sound).  UsesAreServed   *)
(* is not either: a candidate that a pass has read must still be what the   *)
(* pass took it for when its turn comes, although the candidates before it  *)
(* have moved and deleted channels (Apt), or edges would be moved to a      *)
(* channel that is gone.  Under it, each statement carries what a function  *)
(* is found to use from one live channel to another (Carries).              *)
(***************************************************************************)
EXTENDS ChannelReconcile, TLAPS

NodeMaps == UNION {[D -> Node] : D \in SUBSET Channel}
Graph == [nodes : NodeMaps, live : SUBSET Edge, retired : SUBSET Edge,
          connections : SUBSET Connection, dropped : SUBSET Edge]

\* What stands for a name in a world: StandIns, with the world as a parameter.
Leads(w, n) == LongsOf[n] \cup {q.name : q \in w.routes[n]}
Stands(w, n, m) ==
    \A ms \in SUBSET Names : n \in ms /\ (\A k \in ms : Leads(w, k) \subseteq ms) => m \in ms
Owned(w, nm, e) == \E n \in nm[e.fn] : Stands(w, n, e.ch.name)

\* A graph in which edges lead to nodes, and every edge, live or not, is owned.
Shaped(g) ==
    /\ g \in Graph
    /\ g.live \cap g.retired = {}
    /\ \A e \in g.live \cup g.retired : e.ch \in DOMAIN g.nodes
Sound(w, nm, g) == Shaped(g) /\ \A e \in g.live \cup g.retired : Owned(w, nm, e)

\* A graph that serves what functions were found to use.
LiveIn(g, c) == c \in DOMAIN g.nodes /\ g.nodes[c].live
Excused(w, g, f, u) ==
    \/ \E p \in Phantoms : Stands(w, u.name, p)
    \/ \E e \in g.dropped : e.fn = f /\ e.dir = u.dir /\ Stands(w, u.name, e.ch.name)
Served(w, g, f, u) ==
    \E e \in g.live : /\ e.fn = f /\ e.dir = u.dir
                      /\ LiveIn(g, e.ch) /\ Stands(w, u.name, e.ch.name)
AllServed(w, fd, g) ==
    \A f \in Functions : \A u \in fd[f] : Excused(w, g, f, u) \/ Served(w, g, f, u)

Fit(g) == Sound(world, named, g) /\ AllServed(world, found, g)

\* The candidates of a pass that are still to come are what it took them for.
Apt(w, g, p, todo) ==
    /\ p = "idle" => todo = {}
    /\ p = "promote" => \A c \in todo : c \in DOMAIN g.nodes /\ c.place = Logical
    /\ p = "converge" => \A x \in todo : x[1] \in DOMAIN g.nodes /\ x[2] \in MessageBrokers
    /\ p = "route" =>
        /\ \A x \in todo : /\ x[1] \in Channel /\ LiveIn(g, x[2])
                           /\ x[2] \in w.routes[x[1].name]
        /\ \A x, y \in todo : x[1] # y[2]
    /\ p = "suffix" =>
        /\ \A x \in todo : /\ x[1] \in Channel /\ LiveIn(g, x[2])
                           /\ x[2].name \in LongsOf[x[1].name]
        /\ \A x, y \in todo : x[1] # y[2]
    /\ p = "kinds" => \A x \in todo : /\ LiveIn(g, x[1]) /\ x[2] \in Channel
                                      /\ x[1].kind = "topic" /\ x[2].kind = "queue"
                                      /\ x[1].name = x[2].name

IInv ==
    /\ world \in Worlds
    /\ pass \in DOMAIN AfterPass
    /\ analyses \in 0 .. MaxAnalyses /\ cuts \in 0 .. MaxCuts
    /\ named \in [Functions -> SUBSET Names]
    /\ found \in [Functions -> SUBSET Use]
    /\ Fit(channels)
    /\ Apt(world, channels, pass, work)

--------------------------------------------------------------------------------
\* What stands for a name.

LEMMA StandsForItself ==
    ASSUME NEW w, NEW n \in Names
    PROVE  Stands(w, n, n)
BY DEF Stands

\* What a stand-in moves to is a stand-in.
LEMMA StandsOn ==
    ASSUME NEW w, NEW n \in Names, NEW m \in Names, Stands(w, n, m), NEW k \in Leads(w, m)
    PROVE  Stands(w, n, k)
BY DEF Stands

LEMMA StandInsAre ==
    ASSUME NEW n \in Names, NEW m \in Names
    PROVE  m \in StandIns(n) <=> Stands(world, n, m)
BY DEF StandIns, Stands, MovesTo, Leads

\* An edge that follows another serves the same function, for a name that leads to its own.
Follows(w, e, d) ==
    /\ d.fn = e.fn /\ d.dir = e.dir
    /\ d.ch.name = e.ch.name \/ d.ch.name \in Leads(w, e.ch.name)

LEMMA FollowerStands ==
    ASSUME NEW w, NEW n \in Names, NEW e \in Edge, NEW d, Stands(w, n, e.ch.name),
           Follows(w, e, d)
    PROVE  Stands(w, n, d.ch.name)
<1>1. e.ch.name \in Names
    BY DEF Edge, Channel
<1> QED
    BY <1>1, StandsOn DEF Follows

LEMMA FollowerOwned ==
    ASSUME NEW w, NEW nm \in [Functions -> SUBSET Names], NEW e \in Edge, NEW d,
           Owned(w, nm, e), Follows(w, e, d)
    PROVE  Owned(w, nm, d)
<1>1. PICK n \in nm[e.fn] : Stands(w, n, e.ch.name)
    BY DEF Owned
<1>2. e.fn \in Functions /\ d.fn = e.fn
    BY DEF Edge, Follows
<1>3. n \in Names
    BY <1>1, <1>2
<1>4. Stands(w, n, d.ch.name)
    BY <1>1, <1>3, FollowerStands
<1> QED
    BY <1>1, <1>2, <1>4 DEF Owned

--------------------------------------------------------------------------------
\* What a statement carries over: each live edge to a live channel has a live follower to a
\* live channel, unless a weld drops it or its channel looks like a message class.
Carries(w, g, h) ==
    /\ g.dropped \subseteq h.dropped
    /\ \A e \in g.live : LiveIn(g, e.ch) =>
        \/ e.ch.name \in Phantoms
        \/ e \in h.dropped
        \/ \E d \in h.live : Follows(w, e, d) /\ LiveIn(h, d.ch)

LEMMA CarriedIsServed ==
    ASSUME NEW w, NEW g, NEW h, NEW fd \in [Functions -> SUBSET Use], Shaped(g),
           AllServed(w, fd, g), Carries(w, g, h)
    PROVE  AllServed(w, fd, h)
<1> SUFFICES ASSUME NEW f \in Functions, NEW u \in fd[f]
             PROVE  Excused(w, h, f, u) \/ Served(w, h, f, u)
    BY DEF AllServed
<1>1. u \in Use /\ u.name \in Names
    BY DEF Use
<1>2. CASE Excused(w, g, f, u)
    BY <1>2 DEF Excused, Carries
<1>3. CASE Served(w, g, f, u)
  <2>1. PICK e \in g.live : /\ e.fn = f /\ e.dir = u.dir
                            /\ LiveIn(g, e.ch) /\ Stands(w, u.name, e.ch.name)
    BY <1>3 DEF Served
  <2>2. e \in Edge
    BY DEF Shaped, Graph
  <2>3. CASE e.ch.name \in Phantoms \/ e \in h.dropped
    BY <2>1, <2>3 DEF Excused
  <2>4. ASSUME NEW d \in h.live, Follows(w, e, d), LiveIn(h, d.ch)
        PROVE  Served(w, h, f, u)
    <3>1. Stands(w, u.name, d.ch.name)
        BY <1>1, <2>1, <2>2, <2>4, FollowerStands
    <3> QED
        BY <2>1, <2>4, <3>1 DEF Served, Follows
  <2> QED
    BY <2>1, <2>3, <2>4 DEF Carries
<1> QED
    BY <1>2, <1>3 DEF AllServed

LEMMA CarriedIsFit ==
    ASSUME IInv, NEW g, NEW h, Fit(g), Sound(world, named, h), Carries(world, g, h)
    PROVE  Fit(h)
<1>1. Shaped(g) /\ AllServed(world, found, g)
    BY DEF Fit, Sound
<1>2. found \in [Functions -> SUBSET Use]
    BY DEF IInv
<1> QED
    BY <1>1, <1>2, CarriedIsServed DEF Fit

\* Channels are only added or revived, and no live edge goes.
LEMMA GrowthCarries ==
    ASSUME NEW w, NEW g, NEW h, g.dropped \subseteq h.dropped, g.live \subseteq h.live,
           \A c \in DOMAIN g.nodes : LiveIn(g, c) => LiveIn(h, c)
    PROVE  Carries(w, g, h)
BY DEF Carries, LiveIn, Follows

--------------------------------------------------------------------------------
\* What EXCEPT makes of a graph.

LEMMA IsNodeMap ==
    ASSUME NEW ns
    PROVE  ns \in NodeMaps <=> DOMAIN ns \subseteq Channel /\ ns \in [DOMAIN ns -> Node]
<1>1. ASSUME ns \in NodeMaps
      PROVE  DOMAIN ns \subseteq Channel /\ ns \in [DOMAIN ns -> Node]
  <2>1. PICK D \in SUBSET Channel : ns \in [D -> Node]
    BY <1>1, Zenon DEF NodeMaps
  <2> QED
    BY <2>1
<1>2. ASSUME DOMAIN ns \subseteq Channel, ns \in [DOMAIN ns -> Node]
      PROVE  ns \in NodeMaps
    BY <1>2, Zenon DEF NodeMaps
<1> QED
    BY <1>1, <1>2

SetNodes(g, ns)      == [g EXCEPT !.nodes = ns]
SetBonds(g, ns, cn)  == [g EXCEPT !.nodes = ns, !.connections = cn]
SetEdges(g, lv, rt)  == [g EXCEPT !.live = lv, !.retired = rt]
SetDrops(g, lv, rt, dr)      == [g EXCEPT !.live = lv, !.retired = rt, !.dropped = dr]
SetNodesEdges(g, ns, lv, rt) == [g EXCEPT !.nodes = ns, !.live = lv, !.retired = rt]
SetAll(g, ns, lv, rt, dr)    ==
    [g EXCEPT !.nodes = ns, !.live = lv, !.retired = rt, !.dropped = dr]

\* The parts of a graph.
HasParts(h, ns, lv, rt, cn, dr) ==
    /\ h \in Graph /\ h.nodes = ns /\ h.live = lv /\ h.retired = rt
    /\ h.connections = cn /\ h.dropped = dr

LEMMA SetNodesParts ==
    ASSUME NEW g \in Graph, NEW ns \in NodeMaps
    PROVE  HasParts(SetNodes(g, ns), ns, g.live, g.retired, g.connections, g.dropped)
BY DEF SetNodes, HasParts, Graph

LEMMA SetBondsParts ==
    ASSUME NEW g \in Graph, NEW ns \in NodeMaps, NEW cn \in SUBSET Connection
    PROVE  HasParts(SetBonds(g, ns, cn), ns, g.live, g.retired, cn, g.dropped)
BY DEF SetBonds, HasParts, Graph

LEMMA SetEdgesParts ==
    ASSUME NEW g \in Graph, NEW lv \in SUBSET Edge, NEW rt \in SUBSET Edge
    PROVE  HasParts(SetEdges(g, lv, rt), g.nodes, lv, rt, g.connections, g.dropped)
BY DEF SetEdges, HasParts, Graph

LEMMA SetDropsParts ==
    ASSUME NEW g \in Graph, NEW lv \in SUBSET Edge, NEW rt \in SUBSET Edge,
           NEW dr \in SUBSET Edge
    PROVE  HasParts(SetDrops(g, lv, rt, dr), g.nodes, lv, rt, g.connections, dr)
BY DEF SetDrops, HasParts, Graph

LEMMA SetNodesEdgesParts ==
    ASSUME NEW g \in Graph, NEW ns \in NodeMaps, NEW lv \in SUBSET Edge,
           NEW rt \in SUBSET Edge
    PROVE  HasParts(SetNodesEdges(g, ns, lv, rt), ns, lv, rt, g.connections, g.dropped)
BY DEF SetNodesEdges, HasParts, Graph

LEMMA SetAllParts ==
    ASSUME NEW g \in Graph, NEW ns \in NodeMaps, NEW lv \in SUBSET Edge,
           NEW rt \in SUBSET Edge, NEW dr \in SUBSET Edge
    PROVE  HasParts(SetAll(g, ns, lv, rt, dr), ns, lv, rt, g.connections, dr)
BY DEF SetAll, HasParts, Graph

--------------------------------------------------------------------------------
\* What the statements make of a sound graph.

\* Only nodes change.
LEMMA SoundNodes ==
    ASSUME NEW w, NEW nm, NEW g, Sound(w, nm, g), NEW ns \in NodeMaps,
           DOMAIN g.nodes \subseteq DOMAIN ns
    PROVE  LET h == [g EXCEPT !.nodes = ns]
           IN  /\ Sound(w, nm, h) /\ h.nodes = ns /\ h.live = g.live
               /\ h.dropped = g.dropped
<1> DEFINE h == [g EXCEPT !.nodes = ns]
<1>1. g \in Graph /\ h = SetNodes(g, ns)
    BY DEF Sound, Shaped, SetNodes
<1>2. HasParts(h, ns, g.live, g.retired, g.connections, g.dropped)
    BY <1>1, SetNodesParts
<1> HIDE DEF h
<1>3. Sound(w, nm, h)
    BY <1>2 DEF Sound, Shaped, HasParts
<1> QED
    BY <1>2, <1>3 DEF h, HasParts

LEMMA UpsertKeeps ==
    ASSUME NEW w, NEW nm, NEW g, Sound(w, nm, g), NEW c \in Channel
    PROVE  /\ Sound(w, nm, Upsert(g, c))
           /\ DOMAIN Upsert(g, c).nodes = DOMAIN g.nodes \cup {c}
           /\ Upsert(g, c).nodes[c] \in Node /\ LiveIn(Upsert(g, c), c)
           /\ Carries(w, g, Upsert(g, c))
<1> DEFINE old  == c \in DOMAIN g.nodes
           node == [live |-> TRUE,
                    on |-> IF old /\ ~Physical(c) THEN g.nodes[c].on ELSE c.place,
                    config |-> old /\ g.nodes[c].config,
                    mergedFrom |-> IF old THEN g.nodes[c].mergedFrom ELSE {}]
           ns   == [d \in DOMAIN g.nodes \cup {c} |-> IF d = c THEN node ELSE g.nodes[d]]
           h    == [g EXCEPT !.nodes = ns]
<1>1. Upsert(g, c) = h
    BY DEF Upsert
<1>2. g.nodes \in NodeMaps
    BY DEF Sound, Shaped, Graph
<1>3. DOMAIN g.nodes \subseteq Channel /\ g.nodes \in [DOMAIN g.nodes -> Node]
    BY <1>2, IsNodeMap
<1>4. old => g.nodes[c] \in Node
    BY <1>3
<1>5. c.place \in MessageBrokers \cup {Logical}
    BY DEF Channel
<1>6. (old /\ g.nodes[c].config) \in BOOLEAN
    BY <1>4, Zenon DEF Node
<1>7. (IF old /\ ~Physical(c) THEN g.nodes[c].on ELSE c.place) \in MessageBrokers \cup {Logical}
    BY <1>4, <1>5 DEF Node
<1>8. (IF old THEN g.nodes[c].mergedFrom ELSE {}) \in SUBSET Channel
    BY <1>4 DEF Node
<1>9. node \in Node /\ node.live
    BY <1>6, <1>7, <1>8, Zenon DEF Node
<1> HIDE DEF node
<1>10. DOMAIN ns = DOMAIN g.nodes \cup {c} /\ ns[c] = node
    OBVIOUS
<1>11. \A d \in DOMAIN g.nodes : d # c => ns[d] = g.nodes[d]
    OBVIOUS
<1>12. ns \in NodeMaps
  <2>1. DOMAIN ns \subseteq Channel /\ ns \in [DOMAIN ns -> Node]
    BY <1>3, <1>9, <1>10
  <2> HIDE DEF ns
  <2> QED
    BY <2>1, IsNodeMap
<1> HIDE DEF ns
<1>13. Sound(w, nm, h) /\ h.nodes = ns /\ h.live = g.live /\ h.dropped = g.dropped
    BY <1>10, <1>12, SoundNodes
<1> HIDE DEF h
<1>14. LiveIn(h, c)
    BY <1>9, <1>10, <1>13 DEF LiveIn
<1>15. \A d \in DOMAIN g.nodes : LiveIn(g, d) => LiveIn(h, d)
    BY <1>10, <1>11, <1>13, <1>14 DEF LiveIn
<1>16. Carries(w, g, h)
    BY <1>13, <1>15, GrowthCarries
<1> QED
    BY <1>1, <1>9, <1>10, <1>13, <1>14, <1>16

LEMMA TombstoneKeeps ==
    ASSUME NEW w, NEW nm, NEW g, Sound(w, nm, g), NEW c \in DOMAIN g.nodes,
           c.name \in Phantoms \/ \A e \in g.live : e.ch # c
    PROVE  /\ Sound(w, nm, Tombstone(g, c)) /\ Carries(w, g, Tombstone(g, c))
           /\ DOMAIN Tombstone(g, c).nodes = DOMAIN g.nodes
<1> DEFINE ns == [g.nodes EXCEPT ![c].live = FALSE]
           h  == [g EXCEPT !.nodes = ns]
<1>1. Tombstone(g, c) = h
    BY DEF Tombstone
<1>2. g.nodes \in NodeMaps
    BY DEF Sound, Shaped, Graph
<1>3. DOMAIN g.nodes \subseteq Channel /\ g.nodes \in [DOMAIN g.nodes -> Node]
    BY <1>2, IsNodeMap
<1>4. [g.nodes[c] EXCEPT !.live = FALSE] \in Node
    BY <1>3 DEF Node
<1>5. DOMAIN ns = DOMAIN g.nodes /\ \A d \in DOMAIN g.nodes : d # c => ns[d] = g.nodes[d]
    OBVIOUS
<1>6. ns \in [DOMAIN ns -> Node]
    BY <1>3, <1>4
<1> HIDE DEF ns
<1>7. ns \in NodeMaps
    BY <1>3, <1>5, <1>6, IsNodeMap
<1>8. Sound(w, nm, h) /\ h.nodes = ns /\ h.live = g.live /\ h.dropped = g.dropped
    BY <1>5, <1>7, SoundNodes
<1> HIDE DEF h
<1>9. ASSUME NEW e \in g.live, LiveIn(g, e.ch), e.ch.name \notin Phantoms
      PROVE  Follows(w, e, e) /\ LiveIn(h, e.ch)
    BY <1>5, <1>8, <1>9 DEF Follows, LiveIn
<1>10. Carries(w, g, h)
    BY <1>8, <1>9 DEF Carries
<1> QED
    BY <1>1, <1>5, <1>8, <1>10

LEMMA DetachKeeps ==
    ASSUME NEW w, NEW nm, NEW g, Sound(w, nm, g), NEW c,
           \A e \in g.live : e.ch = c =>
               \E d \in g.live : Follows(w, e, d) /\ d.ch # c /\ LiveIn(g, d.ch)
    PROVE  /\ Sound(w, nm, DetachDelete(g, c)) /\ Carries(w, g, DetachDelete(g, c))
           /\ \A d : d # c /\ LiveIn(g, d) => LiveIn(DetachDelete(g, c), d)
<1> DEFINE ns == [d \in DOMAIN g.nodes \ {c} |-> g.nodes[d]]
           lv == {e \in g.live : e.ch # c}
           rt == {e \in g.retired : e.ch # c}
           h  == DetachDelete(g, c)
<1>1. g \in Graph /\ g.nodes \in NodeMaps
    BY DEF Sound, Shaped, Graph
<1>2. DOMAIN g.nodes \subseteq Channel /\ g.nodes \in [DOMAIN g.nodes -> Node]
    BY <1>1, IsNodeMap
<1>3. /\ DOMAIN ns \subseteq Channel /\ ns \in [DOMAIN ns -> Node]
      /\ DOMAIN ns = DOMAIN g.nodes \ {c} /\ \A d \in DOMAIN ns : ns[d] = g.nodes[d]
    BY <1>2
<1>4. lv \in SUBSET Edge /\ rt \in SUBSET Edge
    BY <1>1 DEF Graph
<1>5. h = SetNodesEdges(g, ns, lv, rt)
    BY Zenon DEF DetachDelete, SetNodesEdges
<1> HIDE DEF ns
<1>6. ns \in NodeMaps
    BY <1>3, IsNodeMap
<1>7. HasParts(h, ns, lv, rt, g.connections, g.dropped)
  <2> HIDE DEF lv, rt, h
  <2> QED
    BY <1>1, <1>4, <1>5, <1>6, SetNodesEdgesParts
<1> HIDE DEF h
<1>8. Sound(w, nm, h)
    BY <1>3, <1>7 DEF HasParts, Sound, Shaped
<1>9. \A d : d # c /\ LiveIn(g, d) => LiveIn(h, d)
    BY <1>3, <1>7 DEF HasParts, LiveIn
<1>10. ASSUME NEW e \in g.live, LiveIn(g, e.ch)
       PROVE  \E d \in h.live : Follows(w, e, d) /\ LiveIn(h, d.ch)
  <2>1. CASE e.ch = c
    <3>1. PICK d \in g.live : Follows(w, e, d) /\ d.ch # c /\ LiveIn(g, d.ch)
        BY <2>1
    <3> QED
        BY <1>7, <1>9, <3>1 DEF HasParts
  <2>2. CASE e.ch # c
    BY <1>7, <1>9, <1>10, <2>2 DEF HasParts, Follows
  <2> QED
    BY <2>1, <2>2
<1>11. Carries(w, g, h)
    BY <1>7, <1>10 DEF HasParts, Carries
<1> QED
    BY <1>8, <1>9, <1>11 DEF h

\* An edge taken onto another channel.
LEMMA OntoIsFollower ==
    ASSUME NEW w, NEW e \in Edge, NEW to \in Channel,
           to.name = e.ch.name \/ to.name \in Leads(w, e.ch.name)
    PROVE  LET d == [e EXCEPT !.ch = to]
           IN  d \in Edge /\ d.ch = to /\ d.fn = e.fn /\ d.dir = e.dir /\ Follows(w, e, d)
BY DEF Edge, Follows

\* The edges along a channel, taken onto one that it leads to, are edges and owned.
LEMMA OntoIsOwned ==
    ASSUME NEW w, NEW nm \in [Functions -> SUBSET Names], NEW es, es \subseteq Edge,
           \A e \in es : Owned(w, nm, e), NEW from, NEW to \in Channel, NEW dirs,
           to.name = from.name \/ to.name \in Leads(w, from.name)
    PROVE  \A x \in Onto(Along(es, from, dirs), to) :
               x \in Edge /\ x.ch = to /\ Owned(w, nm, x)
<1> SUFFICES ASSUME NEW x \in Onto(Along(es, from, dirs), to)
             PROVE  x \in Edge /\ x.ch = to /\ Owned(w, nm, x)
    OBVIOUS
<1>1. PICK e \in es : e.ch = from /\ x = [e EXCEPT !.ch = to]
    BY DEF Onto, Along
<1>2. e \in Edge /\ Owned(w, nm, e)
    OBVIOUS
<1>3. x \in Edge /\ x.ch = to /\ Follows(w, e, x)
    BY <1>1, <1>2, OntoIsFollower
<1> QED
    BY <1>2, <1>3, FollowerOwned

LEMMA MovedKeeps ==
    ASSUME NEW w, NEW nm \in [Functions -> SUBSET Names], NEW g \in Graph, Sound(w, nm, g),
           NEW from, NEW to, LiveIn(g, to), from # to, NEW dirs,
           to.name = from.name \/ to.name \in Leads(w, from.name)
    PROVE  LET h == Moved(g, from, to, dirs)
           IN  /\ Sound(w, nm, h) /\ Carries(w, g, h) /\ h.nodes = g.nodes
               /\ \A e \in h.live : e.ch = from => e \in g.live /\ e.dir \notin dirs
<1> DEFINE es == Along(g.live, from, dirs)
           lv == (g.live \ es) \cup Onto(es, to)
           rt == (g.retired \ Onto(es, to)) \cup es
           h  == Moved(g, from, to, dirs)
<1>2. to \in Channel /\ to \in DOMAIN g.nodes
    BY IsNodeMap DEF LiveIn, Graph
<1>1. h = SetEdges(g, lv, rt)
  <2>1. {e \in es : to \in DOMAIN g.nodes} = es
    BY <1>2
  <2> QED
    BY Zenon, <2>1 DEF SetEdges, Moved
<1>3. \A x \in Onto(es, to) : x \in Edge /\ x.ch = to /\ Owned(w, nm, x)
    BY <1>2, OntoIsOwned DEF Sound, Graph
<1>4. /\ es \subseteq g.live
      /\ \A e \in g.live : e \in es <=> e.ch = from /\ e.dir \in dirs
      /\ \A e \in es : [e EXCEPT !.ch = to] \in Onto(es, to)
    BY DEF Along, Onto
<1> HIDE DEF es
<1>5. lv \in SUBSET Edge /\ rt \in SUBSET Edge
    BY <1>3, <1>4 DEF Graph
<1>6. lv \cap rt = {}
    BY <1>3, <1>4 DEF Sound, Shaped
<1>7. \A e \in lv \cup rt : e.ch \in DOMAIN g.nodes /\ Owned(w, nm, e)
    BY <1>2, <1>3, <1>4 DEF Sound, Shaped
<1>8. \A e \in lv : e.ch = from => e \in g.live /\ e.dir \notin dirs
    BY <1>3, <1>4
<1>9. g.live \subseteq lv \cup es /\ Onto(es, to) \subseteq lv
    OBVIOUS
<1> HIDE DEF lv, rt, h
<1>10. HasParts(h, g.nodes, lv, rt, g.connections, g.dropped)
    BY <1>1, <1>5, SetEdgesParts
<1>11. Sound(w, nm, h)
    BY <1>6, <1>7, <1>10 DEF HasParts, Sound, Shaped
<1>12. ASSUME NEW e \in g.live, LiveIn(g, e.ch)
       PROVE  \E d \in h.live : Follows(w, e, d) /\ LiveIn(h, d.ch)
  <2>1. CASE e \in es
    <3> DEFINE d == [e EXCEPT !.ch = to]
    <3>1. e \in Edge /\ e.ch = from
        BY <1>4, <2>1 DEF Graph
    <3>2. Follows(w, e, d) /\ d.ch = to
        BY <1>2, <3>1, OntoIsFollower
    <3>3. d \in h.live
        BY <1>4, <1>9, <1>10, <2>1 DEF HasParts
    <3> HIDE DEF d
    <3> QED
        BY <1>10, <3>2, <3>3 DEF HasParts, LiveIn
  <2>2. CASE e \notin es
    BY <1>9, <1>10, <1>12, <2>2 DEF HasParts, Follows, LiveIn
  <2> QED
    BY <2>1, <2>2
<1>13. Carries(w, g, h)
    BY <1>10, <1>12 DEF HasParts, Carries
<1>14. h.nodes = g.nodes /\ \A e \in h.live : e.ch = from => e \in g.live /\ e.dir \notin dirs
    BY <1>8, <1>10 DEF HasParts
<1> QED
    BY <1>11, <1>13, <1>14 DEF h

LEMMA CopiedKeeps ==
    ASSUME NEW w, NEW nm \in [Functions -> SUBSET Names], NEW g \in Graph, Sound(w, nm, g),
           NEW from, NEW to, LiveIn(g, to), from # to, NEW dirs,
           to.name \in Leads(w, from.name)
    PROVE  LET h == Copied(g, from, to, dirs)
           IN  /\ Sound(w, nm, h) /\ Carries(w, g, h) /\ h.nodes = g.nodes
               /\ g.live \subseteq h.live
               /\ \A e \in h.live : e.ch = from => e \in g.live
               /\ Onto(Along(g.live, from, dirs), to) \subseteq h.live
<1> DEFINE as == Onto(Along(g.live \cup g.retired, from, dirs), to)
           es == {e \in as : to \in DOMAIN g.nodes}
           lv == g.live \cup es
           rt == g.retired \ es
           h  == Copied(g, from, to, dirs)
<1>1. h = SetEdges(g, lv, rt)
    BY Zenon DEF SetEdges, Copied
<1>2. to \in Channel /\ to \in DOMAIN g.nodes
    BY IsNodeMap DEF LiveIn, Graph
<1>3. \A x \in as : x \in Edge /\ x.ch = to /\ Owned(w, nm, x)
    BY <1>2, OntoIsOwned DEF Sound, Graph
<1>4. es = as
    BY <1>2
<1>5. Onto(Along(g.live, from, dirs), to) \subseteq as
    BY DEF Along, Onto
<1> HIDE DEF as, es
<1>6. lv \in SUBSET Edge /\ rt \in SUBSET Edge /\ lv \cap rt = {}
    BY <1>3, <1>4 DEF Graph, Sound, Shaped
<1>7. \A e \in lv \cup rt : e.ch \in DOMAIN g.nodes /\ Owned(w, nm, e)
    BY <1>2, <1>3, <1>4 DEF Sound, Shaped
<1>8. g.live \subseteq lv /\ \A e \in lv : e.ch = from => e \in g.live
    BY <1>3, <1>4
<1>9. as \subseteq lv
    BY <1>4
<1> HIDE DEF lv, rt, h
<1>10. HasParts(h, g.nodes, lv, rt, g.connections, g.dropped)
    BY <1>1, <1>6, SetEdgesParts
<1>11. Sound(w, nm, h)
    BY <1>6, <1>7, <1>10 DEF HasParts, Sound, Shaped
<1>12. Carries(w, g, h)
    BY <1>8, <1>10, GrowthCarries DEF HasParts, LiveIn
<1>13. /\ h.nodes = g.nodes /\ g.live \subseteq h.live
       /\ \A e \in h.live : e.ch = from => e \in g.live
       /\ Onto(Along(g.live, from, dirs), to) \subseteq h.live
    BY <1>5, <1>8, <1>9, <1>10 DEF HasParts
<1> QED
    BY <1>11, <1>12, <1>13 DEF h

LEMMA RewiredKeeps ==
    ASSUME NEW w, NEW nm \in [Functions -> SUBSET Names], NEW g \in Graph, Sound(w, nm, g),
           NEW from, NEW to, LiveIn(g, to), from # to, NEW dirs, to.name = from.name
    PROVE  LET h == Rewired(g, from, to, dirs)
           IN  /\ Sound(w, nm, h) /\ Carries(w, g, h) /\ h.nodes = g.nodes
               /\ \A e \in h.live : e.ch = from => e \in g.live /\ e.dir \notin dirs
<1> DEFINE es == Along(g.live \cup g.retired, from, dirs)
           lv == (g.live \ es) \cup (Onto(es, to) \ g.retired)
           rt == g.retired \ es
           dr == g.dropped \cup {e \in es : [e EXCEPT !.ch = to] \in g.retired}
           h  == Rewired(g, from, to, dirs)
<1>1. h = SetDrops(g, lv, rt, dr)
    BY Zenon DEF SetDrops, Rewired
<1>2. to \in Channel /\ to \in DOMAIN g.nodes
    BY IsNodeMap DEF LiveIn, Graph
<1>3. \A x \in Onto(es, to) : x \in Edge /\ x.ch = to /\ Owned(w, nm, x)
    BY <1>2, OntoIsOwned DEF Sound, Graph
<1>4. /\ es \subseteq g.live \cup g.retired
      /\ \A e \in g.live : e \in es <=> e.ch = from /\ e.dir \in dirs
      /\ \A e \in es : e.ch = from /\ [e EXCEPT !.ch = to] \in Onto(es, to)
    BY DEF Along, Onto
<1> HIDE DEF es
<1>5. lv \in SUBSET Edge /\ rt \in SUBSET Edge /\ dr \in SUBSET Edge
    BY <1>3, <1>4 DEF Graph
<1>6. lv \cap rt = {}
    BY <1>3, <1>4 DEF Sound, Shaped
<1>7. \A e \in lv \cup rt : e.ch \in DOMAIN g.nodes /\ Owned(w, nm, e)
    BY <1>2, <1>3, <1>4 DEF Sound, Shaped
<1>8. \A e \in lv : e.ch = from => e \in g.live /\ e.dir \notin dirs
    BY <1>3, <1>4
<1>9. /\ g.live \subseteq lv \cup es /\ g.dropped \subseteq dr
      /\ \A e \in es : e \in dr \/ [e EXCEPT !.ch = to] \in lv
    BY <1>4
<1> HIDE DEF lv, rt, dr, h
<1>10. HasParts(h, g.nodes, lv, rt, g.connections, dr)
    BY <1>1, <1>5, SetDropsParts
<1>11. Sound(w, nm, h)
    BY <1>6, <1>7, <1>10 DEF HasParts, Sound, Shaped
<1>12. ASSUME NEW e \in g.live, LiveIn(g, e.ch), e \notin h.dropped
       PROVE  \E d \in h.live : Follows(w, e, d) /\ LiveIn(h, d.ch)
  <2>1. CASE e \in es
    <3> DEFINE d == [e EXCEPT !.ch = to]
    <3>1. e \in Edge /\ e.ch = from
        BY <1>4, <2>1 DEF Graph
    <3>2. Follows(w, e, d) /\ d.ch = to
        BY <1>2, <3>1, OntoIsFollower
    <3>3. d \in h.live
        BY <1>9, <1>10, <1>12, <2>1 DEF HasParts
    <3> HIDE DEF d
    <3> QED
        BY <1>10, <3>2, <3>3 DEF HasParts, LiveIn
  <2>2. CASE e \notin es
    BY <1>9, <1>10, <1>12, <2>2 DEF HasParts, Follows, LiveIn
  <2> QED
    BY <2>1, <2>2
<1>13. Carries(w, g, h)
    BY <1>9, <1>10, <1>12 DEF HasParts, Carries
<1>14. h.nodes = g.nodes /\ \A e \in h.live : e.ch = from => e \in g.live /\ e.dir \notin dirs
    BY <1>8, <1>10 DEF HasParts
<1> QED
    BY <1>11, <1>13, <1>14 DEF h

--------------------------------------------------------------------------------
\* The candidates of a pass.

\* A candidate that is applied leaves the invariant in place, wherever the run stops, if all
\* the graphs on its way are fit and the last one is apt for the candidates that remain.
LEMMA AppliesKeeps ==
    ASSUME IInv, NEW x, NEW gs, Applies(x, gs), Len(gs) \in Nat,
           \A i \in 1 .. Len(gs) : Fit(gs[i]), Len(gs) > 0,
           Apt(world, gs[Len(gs)], pass, work \ {x})
    PROVE  IInv'
<1>1. world' = world /\ named' = named /\ analyses' = analyses /\ found' = found
    BY DEF Applies
<1>2. ASSUME Fit(channels')
      PROVE  Fit(channels)'
    BY <1>1, <1>2 DEF Fit
<1>3. CASE /\ channels' = gs[Len(gs)] /\ work' = work \ {x}
           /\ pass' = pass /\ cuts' = cuts
  <2>1. Fit(channels')
    BY <1>1, <1>3 DEF Fit
  <2> QED
    BY <1>1, <1>2, <1>3, <2>1 DEF IInv
<1>4. CASE EndsEarly /\ \E i \in 1 .. Len(gs) - 1 : channels' = gs[i]
  <2>1. Fit(channels')
    BY <1>1, <1>4 DEF Fit
  <2>2. pass' = "idle" /\ work' = {} /\ cuts' \in 0 .. MaxCuts
    BY <1>4, ChannelAssumption DEF EndsEarly, IInv
  <2>3. Apt(world, channels', "idle", {})
    BY DEF Apt
  <2>4. "idle" \in DOMAIN AfterPass
    BY DEF AfterPass
  <2> QED
    BY <1>1, <1>2, <2>1, <2>2, <2>3, <2>4 DEF IInv
<1> QED
    BY <1>3, <1>4 DEF Applies

LEMMA AppliesOne ==
    ASSUME IInv, NEW x, NEW g, Applies(x, <<g>>),
           Fit(g),
           Apt(world, g, pass, work \ {x})
    PROVE  IInv'
<1> DEFINE gs == <<g>>
<1>1. Len(gs) = 1 /\ gs[1] = g
    OBVIOUS
<1>2. \A i \in 1 .. Len(gs) : Fit(gs[i])
    BY <1>1
<1>3. Applies(x, gs) /\ Len(gs) \in Nat /\ Len(gs) > 0
    OBVIOUS
<1>4. Apt(world, gs[Len(gs)], pass, work \ {x})
    BY <1>1
<1> HIDE DEF gs
<1> QED
    BY <1>2, <1>3, <1>4, AppliesKeeps

LEMMA AppliesTwo ==
    ASSUME IInv, NEW x, NEW g, NEW h, Applies(x, <<g, h>>),
           Fit(g), Fit(h),
           Apt(world, h, pass, work \ {x})
    PROVE  IInv'
<1> DEFINE gs == <<g, h>>
<1>1. Len(gs) = 2 /\ gs[1] = g /\ gs[2] = h
    OBVIOUS
<1>2. \A i \in 1 .. Len(gs) : Fit(gs[i])
    BY <1>1
<1>3. Applies(x, gs) /\ Len(gs) \in Nat /\ Len(gs) > 0
    OBVIOUS
<1>4. Apt(world, gs[Len(gs)], pass, work \ {x})
    BY <1>1
<1> HIDE DEF gs
<1> QED
    BY <1>2, <1>3, <1>4, AppliesKeeps

LEMMA AppliesThree ==
    ASSUME IInv, NEW x, NEW g, NEW h, NEW k, Applies(x, <<g, h, k>>),
           Fit(g), Fit(h), Fit(k),
           Apt(world, k, pass, work \ {x})
    PROVE  IInv'
<1> DEFINE gs == <<g, h, k>>
<1>1. Len(gs) = 3 /\ gs[1] = g /\ gs[2] = h /\ gs[3] = k
    OBVIOUS
<1>2. \A i \in 1 .. Len(gs) : Fit(gs[i])
    BY <1>1
<1>3. Applies(x, gs) /\ Len(gs) \in Nat /\ Len(gs) > 0
    OBVIOUS
<1>4. Apt(world, gs[Len(gs)], pass, work \ {x})
    BY <1>1
<1> HIDE DEF gs
<1> QED
    BY <1>2, <1>3, <1>4, AppliesKeeps

LEMMA AppliesFour ==
    ASSUME IInv, NEW x, NEW g, NEW h, NEW k, NEW l, Applies(x, <<g, h, k, l>>),
           Fit(g), Fit(h), Fit(k), Fit(l),
           Apt(world, l, pass, work \ {x})
    PROVE  IInv'
<1> DEFINE gs == <<g, h, k, l>>
<1>1. Len(gs) = 4 /\ gs[1] = g /\ gs[2] = h /\ gs[3] = k /\ gs[4] = l
    OBVIOUS
<1>2. \A i \in 1 .. Len(gs) : Fit(gs[i])
    BY <1>1
<1>3. Applies(x, gs) /\ Len(gs) \in Nat /\ Len(gs) > 0
    OBVIOUS
<1>4. Apt(world, gs[Len(gs)], pass, work \ {x})
    BY <1>1
<1> HIDE DEF gs
<1> QED
    BY <1>2, <1>3, <1>4, AppliesKeeps

--------------------------------------------------------------------------------
\* The passes.

\* What a logical channel is promoted onto: a declared channel that is live, or one on a
\* broker; of its name, and never itself.
LEMMA TargetIs ==
    ASSUME IInv, NEW c \in DOMAIN nodes, c.place = Logical, NEW p \in Targets(c)
    PROVE  /\ p \in Channel /\ p # c /\ p.name = c.name
           /\ p \in DeclaredFor(c) => LiveIn(channels, p)
<1>1. c \in Channel
    BY IsNodeMap DEF IInv, Fit, Sound, Shaped, Graph, nodes
<1>2. CASE DeclaredFor(c) # {}
  <2>1. p \in world.config /\ LiveIn(channels, p) /\ p.name = c.name
    BY <1>2 DEF Targets, DeclaredFor, IsLive, LiveIn, nodes
  <2>2. p \in Channel /\ p.place # Logical
    BY <2>1, ChannelAssumption DEF IInv
  <2> QED
    BY <2>1, <2>2
<1>3. CASE DeclaredFor(c) = {}
  <2>1. PICK b \in Pool(c) : p = [c EXCEPT !.place = b]
    BY <1>3 DEF Targets
  <2>2. b \in MessageBrokers
    BY DEF Pool, Strong, Rows, Connection, IInv, Fit, Sound, Shaped, Graph, connections
  <2>3. p \in Channel /\ p.name = c.name /\ p.place = b
    BY <1>1, <2>1, <2>2 DEF Channel
  <2> QED
    BY <1>3, <2>2, <2>3, ChannelAssumption
<1> QED
    BY <1>2, <1>3

LEMMA FitIs ==
    ASSUME NEW g, Fit(g)
    PROVE  g \in Graph /\ Sound(world, named, g)
BY DEF Fit, Sound, Shaped

\* The edges of a channel have one of the two directions.
LEMMA DirsAre ==
    ASSUME NEW g \in Graph, NEW e \in g.live
    PROVE  e \in Edge /\ e.dir \in {"publishes", "listens"}
BY DEF Graph, Edge, Dirs

LEMMA PromoteKeeps ==
    ASSUME IInv, NEW c \in work, Promote(c)
    PROVE  IInv'
<1>1. pass = "promote"
    BY DEF Promote
<1>2. \A d \in work : d \in DOMAIN channels.nodes /\ d.place = Logical
    BY <1>1 DEF IInv, Apt
<1>3. Fit(channels) /\ named \in [Functions -> SUBSET Names]
    BY DEF IInv
<1>4. ASSUME NEW g, DOMAIN channels.nodes \subseteq DOMAIN g.nodes
      PROVE  Apt(world, g, pass, work \ {c})
    BY <1>1, <1>2, <1>4 DEF Apt
<1>5. CASE c.name \in Phantoms /\ Applies(c, <<Tombstone(channels, c)>>)
  <2> DEFINE g == Tombstone(channels, c)
  <2>1. /\ Sound(world, named, g) /\ Carries(world, channels, g)
        /\ DOMAIN g.nodes = DOMAIN channels.nodes
    BY <1>2, <1>3, <1>5, FitIs, TombstoneKeeps
  <2>2. Applies(c, <<g>>)
    BY <1>5
  <2> HIDE DEF g
  <2>3. Fit(g) /\ Apt(world, g, pass, work \ {c})
    BY <1>3, <1>4, <2>1, CarriedIsFit
  <2> QED
    BY <2>2, <2>3, AppliesOne
<1>6. CASE Applies(c, <<channels>>)
    BY <1>3, <1>4, <1>6, AppliesOne
<1>7. ASSUME NEW p \in Targets(c), Applies(c, Promotion(c, p))
      PROVE  IInv'
  <2> DEFINE g1 == IF p \in DeclaredFor(c) THEN channels ELSE Upsert(channels, p)
             g2 == Moved(g1, c, p, {"publishes"})
             g3 == Moved(g2, c, p, {"listens"})
             g4 == Collapsed(g3, c)
  <2>1. p \in Channel /\ p # c /\ p.name = c.name /\ (p \in DeclaredFor(c) => LiveIn(channels, p))
    BY <1>2, TargetIs DEF nodes
  <2>2. Fit(g1) /\ LiveIn(g1, p) /\ DOMAIN channels.nodes \subseteq DOMAIN g1.nodes
    <3>1. CASE p \in DeclaredFor(c)
        BY <1>3, <2>1, <3>1
    <3>2. CASE p \notin DeclaredFor(c)
      <4>1. /\ Sound(world, named, Upsert(channels, p)) /\ LiveIn(Upsert(channels, p), p)
            /\ Carries(world, channels, Upsert(channels, p))
            /\ DOMAIN channels.nodes \subseteq DOMAIN Upsert(channels, p).nodes
        BY <1>3, <2>1, FitIs, UpsertKeeps
      <4>2. Fit(Upsert(channels, p))
        BY <1>3, <4>1, CarriedIsFit
      <4> QED
        BY <3>2, <4>1, <4>2
    <3> QED
        BY <3>1, <3>2
  <2>3. Applies(c, <<g1, g2, g3, g4>>)
    BY <1>7 DEF Promotion
  <2> HIDE DEF g1
  <2>4. /\ Sound(world, named, g2) /\ Carries(world, g1, g2) /\ g2.nodes = g1.nodes
        /\ \A e \in g2.live : e.ch = c => e \in g1.live /\ e.dir \notin {"publishes"}
    BY <1>3, <2>1, <2>2, FitIs, MovedKeeps
  <2> HIDE DEF g2
  <2>5. Fit(g2) /\ LiveIn(g2, p)
    BY <2>2, <2>4, CarriedIsFit DEF LiveIn
  <2>6. /\ Sound(world, named, g3) /\ Carries(world, g2, g3) /\ g3.nodes = g2.nodes
        /\ \A e \in g3.live : e.ch = c => e \in g2.live /\ e.dir \notin {"listens"}
    BY <1>3, <2>1, <2>5, FitIs, MovedKeeps
  <2> HIDE DEF g3
  <2>7. Fit(g3) /\ c \in DOMAIN g3.nodes
    BY <1>2, <2>2, <2>4, <2>5, <2>6, CarriedIsFit
  <2>8. Fit(g4) /\ DOMAIN g4.nodes = DOMAIN g3.nodes
    <3>1. CASE \E e \in g3.live : e.ch = c
        BY <2>7, <3>1 DEF Collapsed
    <3>2. CASE \A e \in g3.live : e.ch # c
      <4>1. g4 = Tombstone(g3, c)
        BY <3>2 DEF Collapsed
      <4>2. /\ Sound(world, named, g4) /\ Carries(world, g3, g4)
            /\ DOMAIN g4.nodes = DOMAIN g3.nodes
        BY <2>7, <3>2, <4>1, FitIs, TombstoneKeeps
      <4> QED
        BY <2>7, <4>2, CarriedIsFit
    <3> QED
        BY <3>1, <3>2
  <2> HIDE DEF g4
  <2>9. Apt(world, g4, pass, work \ {c})
    BY <1>4, <2>2, <2>4, <2>6, <2>8
  <2> QED
    BY <2>2, <2>3, <2>5, <2>7, <2>8, <2>9, AppliesFour
<1> QED
    BY <1>5, <1>6, <1>7 DEF Promote

LEMMA ConvergeKeeps ==
    ASSUME IInv, NEW x \in work, ConvergeChannel(x)
    PROVE  IInv'
<1>1. PICK c, b : c = x[1] /\ b = x[2]
    OBVIOUS
<1> DEFINE ns == [nodes EXCEPT ![c].on = b]
           bs == {[service |-> s, broker |-> b, weak |-> FALSE] : s \in Users(c)}
           cn == connections \cup bs
           g  == [channels EXCEPT !.nodes[c].on = b, !.connections = @ \cup bs]
<1>2. pass = "converge" /\ Applies(x, <<g>>)
    BY <1>1, Zenon DEF ConvergeChannel
<1>3. /\ Fit(channels) /\ channels \in Graph
      /\ \A y \in work : y[1] \in DOMAIN channels.nodes /\ y[2] \in MessageBrokers
    BY <1>2, FitIs DEF IInv, Apt
<1>4. c \in DOMAIN channels.nodes /\ b \in MessageBrokers
    BY <1>1, <1>3
<1>5. g = SetBonds(channels, ns, cn)
    BY DEF SetBonds, nodes, connections
<1>6. /\ nodes \in [DOMAIN nodes -> Node] /\ DOMAIN nodes \subseteq Channel
      /\ DOMAIN nodes = DOMAIN channels.nodes
    BY <1>3, IsNodeMap DEF Graph, nodes
<1>7. [nodes[c] EXCEPT !.on = b] \in Node /\ [nodes[c] EXCEPT !.on = b].live = nodes[c].live
    BY <1>4, <1>6 DEF Node
<1>8. /\ ns \in [DOMAIN ns -> Node] /\ DOMAIN ns = DOMAIN nodes
      /\ \A d \in DOMAIN nodes : ns[d].live = nodes[d].live
    BY <1>6, <1>7
<1>9. cn \in SUBSET Connection
  <2>1. \A s \in Users(c) : s \in Containers
    BY <1>3 DEF Users, Containers, Graph, Edge, live
  <2>2. \A s \in Containers : [service |-> s, broker |-> b, weak |-> FALSE] \in Connection
    BY <1>4 DEF Connection
  <2>3. bs \subseteq Connection
    BY <2>1, <2>2, Zenon
  <2> QED
    BY <1>3, <2>3 DEF Graph, connections
<1> HIDE DEF ns, cn, g
<1>10. ns \in NodeMaps
    BY <1>6, <1>8, IsNodeMap
<1>11. HasParts(g, ns, channels.live, channels.retired, cn, channels.dropped)
    BY <1>3, <1>5, <1>9, <1>10, SetBondsParts
<1>12. Sound(world, named, g)
    BY <1>3, <1>6, <1>8, <1>11 DEF HasParts, Fit, Sound, Shaped
<1>13. \A d \in DOMAIN channels.nodes : LiveIn(channels, d) => LiveIn(g, d)
    BY <1>6, <1>8, <1>11 DEF HasParts, LiveIn, nodes
<1>14. Carries(world, channels, g)
    BY <1>11, <1>13, GrowthCarries DEF HasParts
<1>15. Fit(g)
    BY <1>3, <1>12, <1>14, CarriedIsFit
<1>16. Apt(world, g, pass, work \ {x})
    BY <1>2, <1>3, <1>6, <1>8, <1>11 DEF Apt, HasParts
<1> QED
    BY <1>2, <1>15, <1>16, AppliesOne

LEMMA RouteKeeps ==
    ASSUME IInv, NEW x \in work, Route(x)
    PROVE  IInv'
<1>1. PICK c, q : c = x[1] /\ q = x[2]
    OBVIOUS
<1> DEFINE g1 == Moved(channels, c, q, Dirs)
           g2 == DetachDelete(g1, c)
<1>2. pass = "route" /\ Applies(x, <<g2>>)
    BY <1>1, Zenon DEF Route
<1>3. /\ Fit(channels) /\ named \in [Functions -> SUBSET Names]
      /\ \A y \in work : /\ y[1] \in Channel /\ LiveIn(channels, y[2])
                         /\ y[2] \in world.routes[y[1].name]
      /\ \A y, z \in work : y[1] # z[2]
    BY <1>2 DEF IInv, Apt
<1>4. /\ LiveIn(channels, q) /\ c # q /\ q.name \in Leads(world, c.name)
      /\ \A y \in work : y[2] # c
    BY <1>1, <1>3 DEF Leads
<1>5. /\ Sound(world, named, g1) /\ Carries(world, channels, g1) /\ g1.nodes = channels.nodes
      /\ \A e \in g1.live : e.ch = c => e \in channels.live /\ e.dir \notin Dirs
    BY <1>3, <1>4, FitIs, MovedKeeps
<1> HIDE DEF g1
<1>6. Fit(g1)
    BY <1>3, <1>5, CarriedIsFit
<1>7. \A e \in g1.live : e.ch # c
    BY <1>5, <1>6, FitIs, DirsAre DEF Dirs
<1>8. /\ Sound(world, named, g2) /\ Carries(world, g1, g2)
      /\ \A d : d # c /\ LiveIn(g1, d) => LiveIn(g2, d)
    BY <1>5, <1>7, DetachKeeps
<1> HIDE DEF g2
<1>9. Fit(g2)
    BY <1>6, <1>8, CarriedIsFit
<1>10. \A y \in work : LiveIn(g2, y[2])
    BY <1>3, <1>4, <1>5, <1>8 DEF LiveIn
<1>11. Apt(world, g2, pass, work \ {x})
    BY <1>2, <1>3, <1>10 DEF Apt
<1> QED
    BY <1>2, <1>9, <1>11, AppliesOne

LEMMA ExtendKeeps ==
    ASSUME IInv, NEW x \in work, Extend(x)
    PROVE  IInv'
<1>1. PICK c, q : c = x[1] /\ q = x[2]
    OBVIOUS
<1> DEFINE g1 == Copied(channels, c, q, {"publishes"})
           g2 == Copied(g1, c, q, {"listens"})
           g3 == DetachDelete(g2, c)
<1>2. pass = "suffix" /\ (Applies(x, <<g1, g2>>) \/ Applies(x, <<g1, g2, g3>>))
    BY <1>1, Zenon DEF Extend
<1>3. /\ Fit(channels) /\ named \in [Functions -> SUBSET Names]
      /\ \A y \in work : /\ y[1] \in Channel /\ LiveIn(channels, y[2])
                         /\ y[2].name \in LongsOf[y[1].name]
      /\ \A y, z \in work : y[1] # z[2]
    BY <1>2 DEF IInv, Apt
<1>4. /\ LiveIn(channels, q) /\ c # q /\ q.name \in Leads(world, c.name)
      /\ \A y \in work : y[2] # c
    BY <1>1, <1>3 DEF Leads
<1>5. /\ Sound(world, named, g1) /\ Carries(world, channels, g1) /\ g1.nodes = channels.nodes
      /\ \A e \in g1.live : e.ch = c => e \in channels.live
      /\ Onto(Along(channels.live, c, {"publishes"}), q) \subseteq g1.live
    BY <1>3, <1>4, FitIs, CopiedKeeps
<1> HIDE DEF g1
<1>6. Fit(g1) /\ LiveIn(g1, q)
    BY <1>3, <1>4, <1>5, CarriedIsFit DEF LiveIn
<1>7. /\ Sound(world, named, g2) /\ Carries(world, g1, g2) /\ g2.nodes = g1.nodes
      /\ g1.live \subseteq g2.live
      /\ \A e \in g2.live : e.ch = c => e \in g1.live
      /\ Onto(Along(g1.live, c, {"listens"}), q) \subseteq g2.live
    BY <1>3, <1>4, <1>6, FitIs, CopiedKeeps
<1> HIDE DEF g2
<1>8. Fit(g2) /\ LiveIn(g2, q)
    BY <1>6, <1>7, CarriedIsFit DEF LiveIn
<1>9. ASSUME NEW e \in g2.live, e.ch = c
      PROVE  \E d \in g2.live : Follows(world, e, d) /\ d.ch # c /\ LiveIn(g2, d.ch)
  <2> DEFINE d == [e EXCEPT !.ch = q]
  <2>1. e \in Edge /\ e.dir \in {"publishes", "listens"} /\ q \in Channel
    BY <1>8, FitIs, DirsAre, IsNodeMap DEF LiveIn, Graph
  <2>2. Follows(world, e, d) /\ d.ch = q
    BY <1>4, <1>9, <2>1, OntoIsFollower
  <2>3. d \in g2.live
    BY <1>5, <1>7, <1>9, <2>1 DEF Onto, Along
  <2> HIDE DEF d
  <2> QED
    BY <1>4, <1>8, <2>2, <2>3
<1>10. /\ Sound(world, named, g3) /\ Carries(world, g2, g3)
       /\ \A d : d # c /\ LiveIn(g2, d) => LiveIn(g3, d)
    BY <1>7, <1>9, DetachKeeps
<1> HIDE DEF g3
<1>11. Fit(g3)
    BY <1>8, <1>10, CarriedIsFit
<1>12. \A y \in work : LiveIn(g2, y[2]) /\ LiveIn(g3, y[2])
    BY <1>3, <1>4, <1>5, <1>7, <1>10 DEF LiveIn
<1>13. Apt(world, g2, pass, work \ {x}) /\ Apt(world, g3, pass, work \ {x})
    BY <1>2, <1>3, <1>12 DEF Apt
<1> QED
    BY <1>2, <1>6, <1>8, <1>11, <1>13, AppliesTwo, AppliesThree

LEMMA AbsorbKeeps ==
    ASSUME IInv, NEW x \in work, Absorb(x)
    PROVE  IInv'
<1>1. PICK topic, queue : topic = x[1] /\ queue = x[2]
    OBVIOUS
<1> DEFINE g1 == [channels EXCEPT !.nodes[topic].mergedFrom = @ \cup {queue},
                                  !.nodes[topic].config = @ \/ nodes[queue].config]
           g2 == Rewired(g1, queue, topic, {"publishes"})
           g3 == Rewired(g2, queue, topic, {"listens"})
           g4 == DetachDelete(g3, queue)
<1>2. pass = "kinds"
    BY DEF Absorb
<1>3. \/ Applies(x, <<channels>>)
      \/ queue \in DOMAIN nodes /\ Applies(x, <<g1, g2, g3, g4>>)
    BY <1>1, Zenon DEF Absorb
<1>4. /\ Fit(channels) /\ named \in [Functions -> SUBSET Names]
      /\ \A y \in work : /\ LiveIn(channels, y[1]) /\ y[2] \in Channel
                         /\ y[1].kind = "topic" /\ y[2].kind = "queue"
                         /\ y[1].name = y[2].name
    BY <1>2 DEF IInv, Apt
<1>5. LiveIn(channels, topic) /\ queue \in Channel /\ topic.name = queue.name /\ queue # topic
    BY <1>1, <1>4
<1>6. \A y \in work : y[1] # queue
    BY <1>1, <1>4
<1>7. CASE Applies(x, <<channels>>)
  <2>1. Apt(world, channels, pass, work \ {x})
    BY <1>2, <1>4 DEF Apt
  <2> QED
    BY <1>4, <1>7, <2>1, AppliesOne
<1>8. CASE queue \in DOMAIN nodes /\ Applies(x, <<g1, g2, g3, g4>>)
  <2> DEFINE old == nodes[topic]
             new == [old EXCEPT !.mergedFrom = @ \cup {queue}, !.config = @ \/ nodes[queue].config]
             ns  == [nodes EXCEPT ![topic] = new]
  <2>1. g1 = [channels EXCEPT !.nodes = ns]
    BY DEF nodes
  <2>2. channels \in Graph /\ Sound(world, named, channels)
    BY <1>4, FitIs
  <2>3. /\ nodes \in [DOMAIN nodes -> Node] /\ DOMAIN nodes \subseteq Channel
        /\ DOMAIN nodes = DOMAIN channels.nodes /\ topic \in DOMAIN nodes
    BY <1>5, <2>2, IsNodeMap DEF Graph, LiveIn, nodes
  <2>4. old \in Node /\ nodes[queue] \in Node
    BY <1>8, <2>3
  <2>5. (old.config \/ nodes[queue].config) \in BOOLEAN
    BY <2>4, Zenon DEF Node
  <2>6. old.mergedFrom \cup {queue} \in SUBSET Channel
    BY <1>5, <2>4 DEF Node
  <2>7. new \in Node /\ new.live = old.live
    BY <2>4, <2>5, <2>6 DEF Node
  <2> HIDE DEF new
  <2>8. /\ ns \in [DOMAIN ns -> Node] /\ DOMAIN ns = DOMAIN channels.nodes
        /\ \A d \in DOMAIN nodes : ns[d].live = nodes[d].live
    BY <2>3, <2>7
  <2> HIDE DEF ns
  <2>9. ns \in NodeMaps
    BY <2>3, <2>8, IsNodeMap
  <2>10. /\ Sound(world, named, g1) /\ g1.nodes = ns /\ g1.live = channels.live
         /\ g1.dropped = channels.dropped
    <3>1. LET h == [channels EXCEPT !.nodes = ns]
          IN  /\ Sound(world, named, h) /\ h.nodes = ns /\ h.live = channels.live
              /\ h.dropped = channels.dropped
        BY <2>2, <2>8, <2>9, SoundNodes
    <3> HIDE DEF g1
    <3> QED
        BY <2>1, <3>1, Zenon
  <2> HIDE DEF g1
  <2>11. \A d \in DOMAIN channels.nodes : LiveIn(channels, d) => LiveIn(g1, d)
    BY <2>3, <2>8, <2>10 DEF LiveIn, nodes
  <2>12. Fit(g1) /\ LiveIn(g1, topic)
    <3>1. Carries(world, channels, g1)
        BY <2>10, <2>11, GrowthCarries
    <3> QED
        BY <1>4, <1>5, <2>10, <2>11, <3>1, CarriedIsFit DEF LiveIn
  <2>13. /\ Sound(world, named, g2) /\ Carries(world, g1, g2) /\ g2.nodes = g1.nodes
         /\ \A e \in g2.live : e.ch = queue => e \in g1.live /\ e.dir \notin {"publishes"}
    BY <1>4, <1>5, <2>12, FitIs, RewiredKeeps
  <2> HIDE DEF g2
  <2>14. Fit(g2) /\ LiveIn(g2, topic)
    BY <2>12, <2>13, CarriedIsFit DEF LiveIn
  <2>15. /\ Sound(world, named, g3) /\ Carries(world, g2, g3) /\ g3.nodes = g2.nodes
         /\ \A e \in g3.live : e.ch = queue => e \in g2.live /\ e.dir \notin {"listens"}
    BY <1>4, <1>5, <2>14, FitIs, RewiredKeeps
  <2> HIDE DEF g3
  <2>16. Fit(g3)
    BY <2>14, <2>15, CarriedIsFit
  <2>17. \A e \in g3.live : e.ch # queue
    BY <2>13, <2>15, <2>16, FitIs, DirsAre
  <2>18. /\ Sound(world, named, g4) /\ Carries(world, g3, g4)
         /\ \A d : d # queue /\ LiveIn(g3, d) => LiveIn(g4, d)
    BY <2>15, <2>17, DetachKeeps
  <2> HIDE DEF g4
  <2>19. Fit(g4)
    BY <2>16, <2>18, CarriedIsFit
  <2>20. ASSUME NEW y \in work
         PROVE  LiveIn(g4, y[1])
    <3>1. LiveIn(channels, y[1]) /\ y[1] # queue
        BY <1>4, <1>6
    <3>2. LiveIn(g1, y[1])
        BY <2>11, <3>1 DEF LiveIn
    <3> QED
        BY <2>13, <2>15, <2>18, <3>1, <3>2 DEF LiveIn
  <2>21. Apt(world, g4, pass, work \ {x})
    BY <1>2, <1>4, <2>20 DEF Apt
  <2> QED
    BY <1>8, <2>12, <2>14, <2>16, <2>19, <2>21, AppliesFour
<1> QED
    BY <1>3, <1>7, <1>8

\* What a pass reads as its candidates is apt.
LEMMA CandidatesAreApt ==
    ASSUME IInv, NEW p \in DOMAIN AfterPass
    PROVE  Apt(world, channels, p, Candidates(p))
<1>1. \A c : IsLive(c) <=> LiveIn(channels, c)
    BY DEF IsLive, LiveIn, nodes
<1>2. p \in {"idle", "promote", "converge", "route", "suffix", "kinds"}
    BY DEF AfterPass
<1>3. DOMAIN nodes \subseteq Channel /\ nodes = channels.nodes
    BY FitIs, IsNodeMap DEF IInv, Graph, nodes
<1>4. CASE p = "idle"
    BY <1>4 DEF Apt, Candidates
<1>5. CASE p = "promote"
  <2>1. \A c \in ToPromote : c \in DOMAIN nodes /\ c.place = Logical
    BY DEF ToPromote, Physical
  <2> QED
    BY <1>3, <1>5, <2>1 DEF Apt, Candidates
<1>6. CASE p = "converge"
  <2>1. \A x \in ToConverge : x[1] \in DOMAIN nodes /\ x[2] \in MessageBrokers
    BY DEF ToConverge
  <2> QED
    BY <1>3, <1>6, <2>1 DEF Apt, Candidates
<1>7. CASE p = "route"
  <2>1. \A x \in ToRoute : /\ x[1] \in DOMAIN nodes /\ ~nodes[x[1]].config
                           /\ x[2] \in Queues(x[1])
    BY DEF ToRoute, OnHostOnly
  <2>2. ASSUME NEW x \in ToRoute
        PROVE  x[2] \in world.routes[x[1].name] /\ LiveIn(channels, x[2]) /\ nodes[x[2]].config
    BY <1>1, <2>1 DEF Queues
  <2> QED
    BY <1>3, <1>7, <2>1, <2>2 DEF Apt, Candidates
<1>8. CASE p = "suffix"
  <2>1. \A x \in ToExtend : /\ x[1] \in DOMAIN nodes /\ x[2] \in Longs(x[1])
                            /\ Longs(x[2]) = {}
    BY DEF ToExtend, OfOneDepth
  <2>2. ASSUME NEW x \in ToExtend
        PROVE  LiveIn(channels, x[2]) /\ x[2].name \in LongsOf[x[1].name]
    BY <1>1, <2>1 DEF Longs
  <2>3. ASSUME NEW x \in ToExtend, NEW y \in ToExtend
        PROVE  x[1] # y[2]
    BY <2>1
  <2> QED
    BY <1>3, <1>8, <2>1, <2>2, <2>3 DEF Apt, Candidates
<1>9. CASE p = "kinds"
  <2>1. \A x \in ToAbsorb : /\ LiveIn(channels, x[1]) /\ x[2] \in DOMAIN nodes
                            /\ x[1].kind = "topic" /\ x[2].kind = "queue"
                            /\ x[1].name = x[2].name
    BY <1>1 DEF ToAbsorb
  <2> QED
    BY <1>3, <1>9, <2>1 DEF Apt, Candidates
<1> QED
    BY <1>2, <1>4, <1>5, <1>6, <1>7, <1>8, <1>9

\* What the invariant says of the graph stands in a step that leaves the graph alone.
LEMMA FitStays ==
    ASSUME Fit(channels), UNCHANGED <<world, channels, found, named>>
    PROVE  Fit(channels)'
BY DEF Fit

LEMMA TurnKeeps ==
    ASSUME IInv, NEW from, Turn(from)
    PROVE  IInv'
<1>1. /\ UNCHANGED <<world, channels, found, named, analyses, cuts>>
      /\ pass' = AfterPass[pass] /\ work' = Candidates(pass')
    BY DEF Turn, channelCounts
<1>2. pass' \in DOMAIN AfterPass
    BY <1>1 DEF IInv, AfterPass
<1>3. Apt(world, channels, pass', work')
    BY <1>1, <1>2, CandidatesAreApt
<1>4. Fit(channels)'
    BY <1>1, FitStays DEF IInv
<1> QED
    BY <1>1, <1>2, <1>3, <1>4 DEF IInv

LEMMA CutShortKeeps ==
    ASSUME IInv, CutShort
    PROVE  IInv'
<1>1. /\ UNCHANGED <<world, channels, found, named, analyses>>
      /\ pass' = "idle" /\ work' = {} /\ cuts' \in 0 .. MaxCuts
    BY ChannelAssumption DEF CutShort, EndsEarly, IInv
<1>2. Apt(world, channels, "idle", {}) /\ "idle" \in DOMAIN AfterPass
    BY DEF Apt, AfterPass
<1>3. Fit(channels)'
    BY <1>1, FitStays DEF IInv
<1> QED
    BY <1>1, <1>2, <1>3 DEF IInv

--------------------------------------------------------------------------------
\* The analysis of a function.

\* An edge stays owned when more names are known of its function.
LEMMA OwnedByMore ==
    ASSUME NEW w, NEW nm, NEW nm2, NEW e, nm[e.fn] \subseteq nm2[e.fn], Owned(w, nm, e)
    PROVE  Owned(w, nm2, e)
BY DEF Owned

\* Without its orphans a sound graph is sound, and a live channel of a live edge stays so.
LEMMA OrphansKeep ==
    ASSUME NEW nm, NEW g \in Graph, Sound(world, nm, g)
    PROVE  LET h == WithoutOrphans(g)
           IN  /\ Sound(world, nm, h) /\ h.live = g.live /\ h.dropped = g.dropped
               /\ \A e \in g.live : LiveIn(g, e.ch) => LiveIn(h, e.ch)
<1> DEFINE keeps(d) == g.nodes[d].live /\ (d \in world.config \/ \E e \in g.live : e.ch = d)
           ns == [d \in DOMAIN g.nodes |-> [g.nodes[d] EXCEPT !.live = keeps(d)]]
           h  == WithoutOrphans(g)
<1>1. h = [g EXCEPT !.nodes = ns]
    BY Zenon DEF WithoutOrphans
<1>2. g.nodes \in [DOMAIN g.nodes -> Node] /\ DOMAIN g.nodes \subseteq Channel
    BY IsNodeMap DEF Graph
<1>3. ASSUME NEW d \in DOMAIN g.nodes
      PROVE  [g.nodes[d] EXCEPT !.live = keeps(d)] \in Node
  <2>1. g.nodes[d] \in Node
    BY <1>2
  <2>2. keeps(d) \in BOOLEAN
    BY <2>1, Zenon DEF Node
  <2> HIDE DEF keeps
  <2> QED
    BY <2>1, <2>2 DEF Node
<1>4. ASSUME NEW d \in DOMAIN g.nodes
      PROVE  [g.nodes[d] EXCEPT !.live = keeps(d)].live <=> keeps(d)
  <2>1. g.nodes[d] \in Node
    BY <1>2
  <2> HIDE DEF keeps
  <2> QED
    BY <2>1 DEF Node
<1>5. \A e \in g.live : g.nodes[e.ch].live => keeps(e.ch)
    OBVIOUS
<1> HIDE DEF keeps
<1>6. ns \in [DOMAIN ns -> Node] /\ DOMAIN ns = DOMAIN g.nodes
    BY <1>3
<1>7. \A d \in DOMAIN g.nodes : ns[d].live <=> keeps(d)
    BY <1>4
<1> HIDE DEF ns
<1>8. ns \in NodeMaps
    BY <1>2, <1>6, IsNodeMap
<1>9. Sound(world, nm, h) /\ h.nodes = ns /\ h.live = g.live /\ h.dropped = g.dropped
  <2>1. LET k == [g EXCEPT !.nodes = ns]
        IN  /\ Sound(world, nm, k) /\ k.nodes = ns /\ k.live = g.live /\ k.dropped = g.dropped
    BY <1>6, <1>8, SoundNodes
  <2> HIDE DEF h
  <2> QED
    BY <1>1, <2>1, Zenon
<1> HIDE DEF h
<1>10. \A e \in g.live : LiveIn(g, e.ch) => LiveIn(h, e.ch)
    BY <1>5, <1>6, <1>7, <1>9 DEF LiveIn
<1> QED
    BY <1>9, <1>10 DEF h

\* What the analysis of a function writes.
LEMMA WrittenIs ==
    ASSUME IInv, NEW f \in Functions, NEW us, us \subseteq Use,
           NEW nm \in [Functions -> SUBSET Names], \A k \in Functions : named[k] \subseteq nm[k],
           \A u \in us : u.name \in nm[f]
    PROVE  LET g == Written(f, us)
           IN  /\ g \in Graph /\ Sound(world, nm, g)
               /\ \A e \in channels.live : e.fn # f => e \in g.live
               /\ \A e \in channels.dropped : e.fn # f => e \in g.dropped
               /\ \A c : LiveIn(channels, c) => LiveIn(g, c)
               /\ \A u \in us : \E e \in g.live : /\ e.fn = f /\ e.dir = u.dir
                                                  /\ LiveIn(g, e.ch) /\ e.ch.name = u.name
<1> DEFINE edges == {[fn |-> f, dir |-> u.dir, ch |-> LogicalOf(u)] : u \in us}
           stale == {e \in live : e.fn = f} \ edges
           chs   == {LogicalOf(u) : u \in us}
           ns    == [d \in DOMAIN nodes \cup chs |->
                        IF d \in chs THEN Upsert(channels, d).nodes[d] ELSE nodes[d]]
           lv    == (live \ stale) \cup edges
           rt    == (retired \cup stale) \ edges
           dr    == {e \in dropped : e.fn # f}
           g     == Written(f, us)
<1>1. Fit(channels) /\ Sound(world, named, channels) /\ channels \in Graph
    BY FitIs DEF IInv
<1>2. \A u \in us : /\ u.name \in Names /\ u.dir \in Dirs
                    /\ LogicalOf(u) \in Channel /\ LogicalOf(u).name = u.name
    BY DEF Use, LogicalOf, Channel
<1>3. \A u \in us : [fn |-> f, dir |-> u.dir, ch |-> LogicalOf(u)] \in edges
    OBVIOUS
<1>4. \A e \in edges : e \in Edge /\ e.ch \in chs /\ e.fn = f /\ Owned(world, nm, e)
  <2> SUFFICES ASSUME NEW u \in us
               PROVE  LET e == [fn |-> f, dir |-> u.dir, ch |-> LogicalOf(u)]
                      IN  e \in Edge /\ e.ch \in chs /\ e.fn = f /\ Owned(world, nm, e)
    OBVIOUS
  <2>1. Stands(world, u.name, u.name)
    BY <1>2, StandsForItself
  <2> QED
    BY <1>2, <2>1 DEF Edge, Owned
<1>5. \A d \in chs : /\ d \in Channel /\ Upsert(channels, d).nodes[d] \in Node
                     /\ Upsert(channels, d).nodes[d].live
    BY <1>1, <1>2, UpsertKeeps DEF LiveIn
<1>6. nodes \in [DOMAIN nodes -> Node] /\ DOMAIN nodes \subseteq Channel /\ nodes = channels.nodes
    BY <1>1, IsNodeMap DEF Graph, nodes
<1>7. /\ ns \in [DOMAIN ns -> Node] /\ DOMAIN ns = DOMAIN nodes \cup chs
      /\ DOMAIN ns \subseteq Channel
      /\ \A d \in chs : ns[d].live
      /\ \A d \in DOMAIN nodes : nodes[d].live => ns[d].live
    BY <1>5, <1>6
<1>8. \A e \in live \cup retired : e \in Edge /\ e.ch \in DOMAIN nodes /\ Owned(world, nm, e)
  <2> SUFFICES ASSUME NEW e \in live \cup retired
               PROVE  e \in Edge /\ e.ch \in DOMAIN nodes /\ Owned(world, nm, e)
    OBVIOUS
  <2>1. e \in Edge /\ e.ch \in DOMAIN nodes /\ Owned(world, named, e)
    BY <1>1 DEF Graph, Sound, Shaped, live, retired, nodes
  <2>2. named[e.fn] \subseteq nm[e.fn]
    BY <2>1 DEF Edge
  <2> QED
    BY <2>1, <2>2, OwnedByMore
<1>9. g = SetAll(channels, ns, lv, rt, dr)
    BY Zenon DEF Written, SetAll, nodes, live, retired, dropped
<1>10. live \cap retired = {} /\ dropped \subseteq Edge
    BY <1>1 DEF Graph, Sound, Shaped, live, retired, dropped
<1> HIDE DEF edges, chs, ns
<1>11. /\ lv \in SUBSET Edge /\ rt \in SUBSET Edge /\ dr \in SUBSET Edge /\ lv \cap rt = {}
       /\ \A e \in lv \cup rt : e.ch \in DOMAIN ns /\ Owned(world, nm, e)
    BY <1>4, <1>7, <1>8, <1>10
<1>12. /\ edges \subseteq lv
       /\ \A e \in live : e.fn # f => e \in lv
       /\ \A e \in dropped : e.fn # f => e \in dr
    OBVIOUS
<1>13. ns \in NodeMaps
    BY <1>7, IsNodeMap
<1> HIDE DEF lv, rt, dr, g
<1>14. HasParts(g, ns, lv, rt, channels.connections, dr)
    BY <1>1, <1>9, <1>11, <1>13, SetAllParts
<1>15. g \in Graph /\ Sound(world, nm, g)
    BY <1>11, <1>14 DEF HasParts, Sound, Shaped
<1>16. \A c : LiveIn(channels, c) => LiveIn(g, c)
    BY <1>6, <1>7, <1>14 DEF HasParts, LiveIn
<1>17. /\ \A e \in channels.live : e.fn # f => e \in g.live
       /\ \A e \in channels.dropped : e.fn # f => e \in g.dropped
    BY <1>12, <1>14 DEF HasParts, live, dropped
<1>18. ASSUME NEW u \in us
       PROVE  \E e \in g.live : /\ e.fn = f /\ e.dir = u.dir
                                /\ LiveIn(g, e.ch) /\ e.ch.name = u.name
  <2> DEFINE e == [fn |-> f, dir |-> u.dir, ch |-> LogicalOf(u)]
  <2>1. e \in edges /\ e.fn = f /\ e.dir = u.dir /\ e.ch = LogicalOf(u)
    BY <1>3
  <2> HIDE DEF e
  <2>2. e \in g.live /\ LiveIn(g, e.ch)
    BY <1>4, <1>7, <1>12, <1>14, <2>1 DEF HasParts, LiveIn
  <2> QED
    BY <1>2, <2>1, <2>2
<1> QED
    BY <1>15, <1>16, <1>17, <1>18 DEF g

LEMMA AnalyseKeeps ==
    ASSUME IInv, NEW f \in Functions, Analyse(f)
    PROVE  IInv'
<1>1. PICK us \in Sayings :
        /\ channels' = WithoutOrphans(Written(f, us))
        /\ found' = [found EXCEPT ![f] = us]
        /\ named' = [named EXCEPT ![f] = @ \cup {u.name : u \in us}]
    BY DEF Analyse
<1>2. /\ pass = "idle" /\ analyses' = analyses + 1 /\ analyses < MaxAnalyses
      /\ UNCHANGED <<world, pass, work, cuts>>
    BY DEF Analyse
<1>3. /\ Fit(channels) /\ named \in [Functions -> SUBSET Names]
      /\ found \in [Functions -> SUBSET Use] /\ Apt(world, channels, pass, work)
    BY DEF IInv
<1>4. us \subseteq Use
    BY ChannelAssumption
<1>5. \A u \in us : u.name \in Names
    BY <1>4 DEF Use
<1>6. /\ named' \in [Functions -> SUBSET Names]
      /\ \A k \in Functions : named[k] \subseteq named'[k]
      /\ \A u \in us : u.name \in named'[f]
    BY <1>1, <1>3, <1>5
<1>7. /\ found' \in [Functions -> SUBSET Use]
      /\ found'[f] = us /\ \A k \in Functions : k # f => found'[k] = found[k]
    BY <1>1, <1>3, <1>4
<1> DEFINE g == Written(f, us)
           h == WithoutOrphans(g)
<1>8. /\ g \in Graph /\ Sound(world, named', g)
      /\ \A e \in channels.live : e.fn # f => e \in g.live
      /\ \A e \in channels.dropped : e.fn # f => e \in g.dropped
      /\ \A c : LiveIn(channels, c) => LiveIn(g, c)
      /\ \A u \in us : \E e \in g.live : /\ e.fn = f /\ e.dir = u.dir
                                         /\ LiveIn(g, e.ch) /\ e.ch.name = u.name
    BY <1>4, <1>6, WrittenIs
<1> HIDE DEF g
<1>9. /\ Sound(world, named', h) /\ h.live = g.live /\ h.dropped = g.dropped
      /\ \A e \in g.live : LiveIn(g, e.ch) => LiveIn(h, e.ch)
    BY <1>8, OrphansKeep
<1> HIDE DEF h
<1>10. ASSUME NEW k \in Functions, NEW u \in found'[k]
       PROVE  Excused(world, h, k, u) \/ Served(world, h, k, u)
  <2>1. CASE k = f
    <3>1. u \in us /\ Stands(world, u.name, u.name)
        BY <1>5, <1>7, <2>1, StandsForItself
    <3>2. PICK e \in g.live : /\ e.fn = f /\ e.dir = u.dir
                              /\ LiveIn(g, e.ch) /\ e.ch.name = u.name
        BY <1>8, <3>1
    <3> QED
        BY <1>9, <2>1, <3>1, <3>2 DEF Served
  <2>2. CASE k # f
    <3>1. Excused(world, channels, k, u) \/ Served(world, channels, k, u)
        BY <1>3, <1>7, <2>2 DEF Fit, AllServed
    <3>2. CASE Excused(world, channels, k, u)
        BY <1>8, <1>9, <2>2, <3>2 DEF Excused
    <3>3. CASE Served(world, channels, k, u)
      <4>1. PICK e \in channels.live :
                /\ e.fn = k /\ e.dir = u.dir
                /\ LiveIn(channels, e.ch) /\ Stands(world, u.name, e.ch.name)
        BY <3>3 DEF Served
      <4>2. e \in g.live /\ LiveIn(g, e.ch)
        BY <1>8, <2>2, <4>1
      <4> QED
        BY <1>9, <4>1, <4>2 DEF Served
    <3> QED
        BY <3>1, <3>2, <3>3
  <2> QED
    BY <2>1, <2>2
<1>11. channels' = h /\ world' = world
    BY <1>1, <1>2 DEF g, h
<1>12. Fit(channels)'
    BY <1>9, <1>10, <1>11 DEF Fit, AllServed
<1>13. Apt(world', channels', pass', work')
    BY <1>2, <1>3 DEF Apt
<1>14. analyses' \in 0 .. MaxAnalyses
    BY <1>2, ChannelAssumption DEF IInv
<1> QED
    BY <1>2, <1>6, <1>7, <1>12, <1>13, <1>14 DEF IInv

LEMMA RedeclareKeeps ==
    ASSUME IInv, Redeclare
    PROVE  IInv'
<1> DEFINE ns == [d \in DOMAIN nodes \cup world.config |->
                    IF d \in world.config
                    THEN [Upsert(channels, d).nodes[d] EXCEPT !.config = TRUE] ELSE nodes[d]]
           g  == [channels EXCEPT !.nodes = ns]
<1>1. /\ pass = "idle" /\ channels' = g
      /\ UNCHANGED <<world, pass, work, found, named, analyses, cuts>>
    BY DEF Redeclare, channelCounts
<1>2. Fit(channels) /\ channels \in Graph /\ Sound(world, named, channels)
    BY FitIs DEF IInv
<1>3. world.config \subseteq Channel
    BY ChannelAssumption DEF IInv
<1>4. ASSUME NEW d \in world.config
      PROVE  /\ [Upsert(channels, d).nodes[d] EXCEPT !.config = TRUE] \in Node
             /\ [Upsert(channels, d).nodes[d] EXCEPT !.config = TRUE].live
  <2>1. Upsert(channels, d).nodes[d] \in Node /\ Upsert(channels, d).nodes[d].live
    BY <1>2, <1>3, UpsertKeeps DEF LiveIn
  <2> QED
    BY <2>1 DEF Node
<1>5. /\ nodes \in [DOMAIN nodes -> Node] /\ DOMAIN nodes \subseteq Channel
      /\ nodes = channels.nodes
    BY <1>2, IsNodeMap DEF Graph, nodes
<1>6. /\ ns \in [DOMAIN ns -> Node] /\ DOMAIN ns = DOMAIN nodes \cup world.config
      /\ DOMAIN ns \subseteq Channel
      /\ \A d \in DOMAIN nodes : nodes[d].live => ns[d].live
    BY <1>3, <1>4, <1>5
<1> HIDE DEF ns
<1>7. ns \in NodeMaps
    BY <1>6, IsNodeMap
<1>8. /\ Sound(world, named, g) /\ g.nodes = ns /\ g.live = channels.live
      /\ g.dropped = channels.dropped
    BY <1>2, <1>5, <1>6, <1>7, SoundNodes
<1> HIDE DEF g
<1>9. \A d \in DOMAIN channels.nodes : LiveIn(channels, d) => LiveIn(g, d)
    BY <1>5, <1>6, <1>8 DEF LiveIn
<1>10. Carries(world, channels, g)
    BY <1>8, <1>9, GrowthCarries
<1>11. Fit(g)
    BY <1>2, <1>8, <1>10, CarriedIsFit
<1>12. Fit(channels)'
    BY <1>1, <1>11 DEF Fit
<1>13. Apt(world', channels', pass', work')
    BY <1>1 DEF IInv, Apt
<1> QED
    BY <1>1, <1>12, <1>13 DEF IInv

--------------------------------------------------------------------------------
\* The theorems.

LEMMA ChannelInitHolds == ChannelInit => IInv
<1> SUFFICES ASSUME ChannelInit
             PROVE  IInv
    OBVIOUS
<1>1. /\ world \in Worlds /\ pass = "idle" /\ work = {}
      /\ channels = [nodes |-> DeclaredNodes(world), live |-> {}, retired |-> {},
                     connections |-> world.connections, dropped |-> {}]
      /\ found = [f \in Functions |-> {}]
      /\ named = [f \in Functions |-> {}] /\ analyses = 0 /\ cuts = 0
    BY DEF ChannelInit
<1>2. world.config \subseteq Channel /\ world.connections \subseteq Connection
    BY <1>1, ChannelAssumption
<1> DEFINE ns == DeclaredNodes(world)
<1>3. \A c \in world.config :
        [live |-> TRUE, on |-> c.place, config |-> TRUE, mergedFrom |-> {}] \in Node
  <2> SUFFICES ASSUME NEW c \in world.config
               PROVE  [live |-> TRUE, on |-> c.place, config |-> TRUE, mergedFrom |-> {}] \in Node
    OBVIOUS
  <2>1. c.place \in MessageBrokers \cup {Logical}
    BY <1>2 DEF Channel
  <2> QED
    BY <2>1, Zenon DEF Node
<1>4. ns \in [DOMAIN ns -> Node] /\ DOMAIN ns \subseteq Channel
    BY <1>2, <1>3 DEF DeclaredNodes
<1>5. channels.live = {} /\ channels.retired = {} /\ channels.nodes = ns
    BY <1>1
<1> HIDE DEF ns
<1>6. channels \in Graph
  <2>1. ns \in NodeMaps
    BY <1>4, IsNodeMap
  <2> QED
    BY <1>1, <1>2, <2>1 DEF ns, Graph
<1>7. Fit(channels)
    BY <1>1, <1>5, <1>6 DEF Fit, Sound, Shaped, AllServed
<1>8. Apt(world, channels, pass, work) /\ pass \in DOMAIN AfterPass
    BY <1>1 DEF Apt, AfterPass
<1> QED
    BY <1>1, <1>7, <1>8, ChannelAssumption DEF IInv

LEMMA ChannelNextKeeps == IInv /\ [ChannelNext]_channelVars => IInv'
<1> SUFFICES ASSUME IInv, [ChannelNext]_channelVars
             PROVE  IInv'
    OBVIOUS
<1>1. CASE StartPasses
    BY <1>1, TurnKeeps DEF StartPasses
<1>2. CASE NextPass
    BY <1>2, TurnKeeps DEF NextPass
<1>3. ASSUME NEW x \in work,
             Promote(x) \/ ConvergeChannel(x) \/ Route(x) \/ Extend(x) \/ Absorb(x)
      PROVE  IInv'
    BY <1>3, PromoteKeeps, ConvergeKeeps, RouteKeeps, ExtendKeeps, AbsorbKeeps
<1>4. CASE CutShort
    BY <1>4, CutShortKeeps
<1>5. CASE Redeclare
    BY <1>5, RedeclareKeeps
<1>6. ASSUME NEW f \in Functions, Analyse(f)
      PROVE  IInv'
    BY <1>6, AnalyseKeeps
<1>7. CASE UNCHANGED channelVars
  <2>1. UNCHANGED <<world, channels, pass, work, found, named, analyses, cuts>>
    BY <1>7 DEF channelVars, channelCounts
  <2>2. Fit(channels)'
    BY <2>1, FitStays DEF IInv
  <2> QED
    BY <2>1, <2>2 DEF IInv
<1> QED
    BY <1>1, <1>2, <1>3, <1>4, <1>5, <1>6, <1>7 DEF ChannelNext, PassStep

LEMMA ChannelInvariant == ChannelSpec => []IInv
BY ChannelInitHolds, ChannelNextKeeps, PTL DEF ChannelSpec

\* The state has its shape: an edge is live or tombstoned and leads to a node that is there
\* (moveEdgesPreservingProps, mergeMessageChannelWithKind).
THEOREM ChannelsTypeCorrect == ChannelSpec => []ChannelTypeOK
<1>1. IInv => ChannelTypeOK
  <2> SUFFICES ASSUME IInv
               PROVE  ChannelTypeOK
    OBVIOUS
  <2>1. Shaped(channels) /\ channels \in Graph
    BY DEF IInv, Fit, Sound, Shaped
  <2>2. DOMAIN nodes \subseteq Channel /\ \A c \in DOMAIN nodes : nodes[c] \in Node
    BY <2>1, IsNodeMap DEF Graph, nodes
  <2>3. /\ live \subseteq Edge /\ retired \subseteq Edge /\ live \cap retired = {}
        /\ \A e \in Edges : e.ch \in DOMAIN nodes
        /\ connections \subseteq Connection /\ dropped \subseteq Edge
    BY <2>1 DEF Graph, Shaped, nodes, live, retired, connections, dropped, Edges
  <2>4. pass = "idle" => work = {}
    BY DEF IInv, Apt
  <2> QED
    BY <2>2, <2>3, <2>4 DEF IInv, ChannelTypeOK
<1> QED
    BY <1>1, ChannelInvariant, PTL

\* No function is credited with a channel that stands for no name it was ever found to use,
\* whatever the passes of any number of runs move, weld and delete, and wherever they end.
THEOREM ChannelsAreOwn == ChannelSpec => []OnlyOwnChannels
<1>1. IInv => OnlyOwnChannels
  <2> SUFFICES ASSUME IInv, NEW e \in live
               PROVE  \E n \in named[e.fn] : e.ch.name \in StandIns(n)
    BY DEF OnlyOwnChannels
  <2>1. e \in Edge /\ Owned(world, named, e)
    BY DEF IInv, Fit, Sound, Shaped, Graph, live
  <2>2. PICK n \in named[e.fn] : Stands(world, n, e.ch.name)
    BY <2>1 DEF Owned
  <2>3. n \in Names /\ e.ch.name \in Names
    BY <2>1, <2>2 DEF IInv, Edge, Channel
  <2> QED
    BY <2>2, <2>3, StandInsAre
<1> QED
    BY <1>1, ChannelInvariant, PTL

\* Wherever runs end and functions are analysed anew between them, each use of the last
\* analysis of a function has a live edge to a live channel that stands for its name, but
\* for message classes and for edges that the weld across kinds drops
\* (promoteMessageChannels, deduplicateMessageChannelsBySuffix and their siblings).
THEOREM ChannelsServeUses == ChannelSpec => []UsesAreServed
<1>1. IInv => UsesAreServed
  <2> SUFFICES ASSUME IInv, NEW f \in Functions, NEW u \in found[f]
               PROVE  Phantom(u) \/ Dropped(f, u) \/ Serves(f, u)
    BY DEF UsesAreServed
  <2>1. u.name \in Names
    BY DEF IInv, Use
  <2>2. channels \in Graph
    BY FitIs DEF IInv
  <2>3. Excused(world, channels, f, u) \/ Served(world, channels, f, u)
    BY DEF IInv, Fit, AllServed
  <2>4. \A e \in Edge : Stands(world, u.name, e.ch.name) => e.ch.name \in StandIns(u.name)
    BY <2>1, StandInsAre DEF Edge, Channel
  <2>5. ASSUME NEW p \in Phantoms, Stands(world, u.name, p)
        PROVE  Phantom(u)
    BY <2>1, <2>5, StandInsAre, ChannelAssumption DEF Phantom
  <2>6. CASE Excused(world, channels, f, u)
    BY <2>2, <2>4, <2>5, <2>6 DEF Excused, Dropped, dropped, Graph
  <2>7. CASE Served(world, channels, f, u)
    BY <2>2, <2>4, <2>7 DEF Served, Serves, live, Graph, IsLive, LiveIn, nodes
  <2> QED
    BY <2>3, <2>6, <2>7
<1> QED
    BY <1>1, ChannelInvariant, PTL
================================================================================
