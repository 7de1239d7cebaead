------------------------------ MODULE MCReconcile ------------------------------
(***************************************************************************)
(* Small instances of the two stages of reconcile.workflow.ts for TLC:      *)
(* steps 9 to 9b (BrokerBinding) and 10 to 12 (ChannelReconcile).  A        *)
(* behaviour is about one of them, chosen at its start; the other rests.    *)
(***************************************************************************)
EXTENDS BrokerBinding, ChannelReconcile

--------------------------------------------------------------------------------
\* The environments of two services of two repositories, on one host.
H(v, p, g) == [vhost |-> v, provider |-> p, grade |-> g, config |-> FALSE]
C(v, p)    == [vhost |-> v, provider |-> p, grade |-> "declared", config |-> TRUE]
KeyName == {H(None, "amqp", "key-name")}
MCEnvironments ==
    [s \in Services |->
        IF s = "a" THEN { {}, KeyName, {H(None, "amqp", "scheme")}, {C("w", "amqp")} }
                   ELSE { {}, KeyName, {H("v", "kafka", "declared")}, {H(None, None, "shape")} }]
MCRepoOf     == [s \in Services |-> s]
MCOldBrokers == {[provider |-> "amqp", vhost |-> v, old |-> TRUE] : v \in {None, "v"}}

--------------------------------------------------------------------------------
\* Function "f" is of service "a", function "g" of service "b".
MCServiceOf == [f \in Functions |-> IF f = "f" THEN "a" ELSE "b"]
MCLongsOf   == [n \in Names |-> IF n = "short" THEN {"long"} ELSE {}]

\* What functions are found to do.
U(n, k, d) == [name |-> n, kind |-> k, dir |-> d]
MCSayings ==
    { {}, {U("n", "topic", d) : d \in Dirs} \cup {U("Event", "topic", "publishes")},
      {U("n", "queue", "listens")}, {U("short", "topic", "publishes")},
      {U("short", "topic", "publishes"), U("long", "topic", "publishes")} }

\* Two brokers of one host, "host" without a virtual host; the services are bound to the
\* same broker or to different ones; a queue is declared by nobody, for everybody, by
\* service "a", or as the end of a route; or a topic is declared.
Queue(n)        == [name |-> n, kind |-> "queue", place |-> "vhost"]
Topic(n)        == [name |-> n, kind |-> "topic", place |-> "vhost"]
Bound(s, b, w)  == [service |-> s, broker |-> b, weak |-> w]
ToOne           == {Bound("a", "host", FALSE), Bound("b", "host", FALSE)}
Unrouted        == [n \in Names |-> {}]
World(config, owner, routes, bs) ==
    [config |-> config, owners |-> [c \in config |-> owner], routes |-> routes, connections |-> bs]
Bare == World({}, {}, Unrouted, ToOne)
MCWorlds ==
    { Bare,
      World({}, {}, Unrouted, {Bound("a", "host", TRUE), Bound("b", "vhost", FALSE)}),
      World({Topic("n")}, {}, Unrouted, {Bound("a", "vhost", FALSE), Bound("b", "vhost", FALSE)}),
      World({Queue("n")}, {}, Unrouted, ToOne),
      World({Queue("n")}, {"a"}, Unrouted, ToOne),
      World({Queue("q")}, {}, [Unrouted EXCEPT !["n"] = {Queue("q")}], ToOne) }

--------------------------------------------------------------------------------
VARIABLE stage    \* the stage the behaviour is about

all == <<stage, vars, channelVars>>

InitAll ==
    /\ Init /\ ChannelInit
    /\ \/ stage = "brokers" /\ world = Bare
       \/ stage = "channels" /\ brokers = <<>> /\ env = [s \in Services |-> {}]

BrokerStep     == stage = "brokers" /\ Step /\ UNCHANGED <<stage, channelVars>>
BrokerStart(r) == stage = "brokers" /\ Start({r}) /\ UNCHANGED <<stage, channelVars>>
ChannelStep    == stage = "channels" /\ PassStep /\ UNCHANGED <<stage, vars>>
ChannelStart   == stage = "channels" /\ StartPasses /\ UNCHANGED <<stage, vars>>

NextAll ==
    \/ stage = "brokers" /\ Next /\ UNCHANGED <<stage, channelVars>>
    \/ stage = "channels" /\ ChannelNext /\ UNCHANGED <<stage, vars>>

\* The fairness of the two specifications.
FairSpecAll ==
    /\ InitAll /\ [][NextAll]_all
    /\ WF_all(BrokerStep)
    /\ \A r \in Repos : SF_all(BrokerStart(r))
    /\ WF_all(ChannelStep)
    /\ SF_all(ChannelStart)
================================================================================
