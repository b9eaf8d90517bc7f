------------------------------- MODULE Network -------------------------------
(***************************************************************************)
(* The network thread of the blockchain client: start_network_simple_sync  *)
(* (network/src/lib.rs) polls the libp2p service and then the sync engine, *)
(* the swarm polls Behaviour (behaviour.rs), and that polls its parts, the *)
(* RPC queue (libp2p-rpc/src/lib.rs) and Discovery (discovery.rs) among    *)
(* them.  All of it is one thread; `at' says where it stands.              *)
(*                                                                         *)
(* External are the swarm, which injects one event of the connections      *)
(* before each poll of Behaviour, Gossipsub and Identify, which queue an   *)
(* event each until they are polled, Discv5, and the sync engine           *)
(* NetworkSync, of which only the set of noted peers is kept.  Every       *)
(* connection of a peer has a number, and the requests on it are numbered  *)
(* from 1 again, as each RPCHandler does.                                  *)
(***************************************************************************)
EXTENDS Integers, FiniteSets, Sequences, SequencesExt

CONSTANTS
  Peers,
  MaxPeers,         \* config.max_peers
  INITIAL_SEARCH_DELAY,
  MAX_TIME_BETWEEN_PEER_SEARCHES,
  MaxConnections,   \* bound: connections opened in all
  MaxMessages,      \* bound: RPC messages of peers in all
  MaxNotices        \* bound: what Gossipsub, Identify and Discv5 report in all

ASSUME NetworkAssumption ==
  /\ IsFiniteSet(Peers)
  /\ {MaxPeers, MaxConnections, MaxMessages, MaxNotices} \subseteq Nat
  /\ {INITIAL_SEARCH_DELAY, MAX_TIME_BETWEEN_PEER_SEARCHES} \subseteq Nat \ {0}

VARIABLES
  at,                     \* where the thread stands
  connected,              \* external: the swarm's connections
  connection,             \* external: number of the last connection per peer
  requests,               \* external: requests received on it
  gossip, identified,     \* external: queues of Gossipsub and Identify
  rpc_events,             \* RPC.events
  events,                 \* Behaviour.events
  message,                \* the Libp2pEvent being handled
  injected,               \* the swarm injected an event before this poll
  connected_peers,        \* Discovery.connected_peers
  elapsed,                \* peer_discovery_delay has passed
  past_discovery_delay,
  searching,              \* a query of Discv5 is under way
  sync_peers,             \* external: peers noted by NetworkSync
  queried,                \* external: peers it has asked for in this round
  budget,                 \* what is left of the bounds
  answered,               \* history: requests on `connection' that were answered
  late                    \* history: peers identified after their connection

swarmVars == <<connected, connection, requests, gossip, identified, budget>>
discoveryVars == <<connected_peers, elapsed, past_discovery_delay, searching>>
syncVars == <<sync_peers, queried>>
vars == <<at, swarmVars, rpc_events, events, message, injected, discoveryVars,
          syncVars, answered, late>>

-----------------------------------------------------------------------------
\* The entries of the queues.
Event(kind, p) == [kind |-> kind, peer |-> p, id |-> 0, connection |-> 0]
PeerDialed(p) == Event("dialed", p)
PeerDisconnected(p) == Event("disconnected", p)
Pubsub(p) == Event("pubsub", p)
Response(p) == Event("response", p)
Request(p, id, c) == [kind |-> "request", peer |-> p, id |-> id, connection |-> c]

\* RPC::send_rpc queues what goes out: the answer to a request of the peer, or a
\* request of this node, which has id 0.
send_rpc(queue, r) == Append(queue, [r EXCEPT !.kind = "send"])

Init ==
  /\ at = "swarm"
  /\ connected = {}
  /\ connection = [p \in Peers |-> 0]
  /\ requests = [p \in Peers |-> 0]
  /\ gossip = <<>>
  /\ identified = <<>>
  /\ rpc_events = <<>>
  /\ events = <<>>
  /\ message = <<>>
  /\ injected = FALSE
  /\ connected_peers = {}
  /\ elapsed = TRUE                \* Delay::new(Instant::now())
  /\ past_discovery_delay = INITIAL_SEARCH_DELAY
  /\ searching = FALSE
  /\ sync_peers = {}
  /\ queried = {}
  /\ budget = [connections |-> MaxConnections, messages |-> MaxMessages,
               notices |-> MaxNotices]
  /\ answered = [p \in Peers |-> {}]
  /\ late = {}

-----------------------------------------------------------------------------
\* The swarm injects one event, or none, and then polls Behaviour.
Injects(event) ==
  /\ at = "swarm"
  /\ at' = "behaviour"
  /\ injected' = event
  /\ UNCHANGED <<events, message, elapsed, past_discovery_delay, searching, syncVars,
                 late>>

Spends(what) ==
  /\ budget[what] > 0
  /\ budget' = [budget EXCEPT ![what] = @ - 1]

inject_nothing ==
  /\ Injects(FALSE)
  /\ UNCHANGED <<swarmVars, rpc_events, connected_peers, answered>>

Opens(p) ==
  /\ Spends("connections")
  /\ connection' = [connection EXCEPT ![p] = @ + 1]
  /\ requests' = [requests EXCEPT ![p] = 0]
  /\ answered' = [answered EXCEPT ![p] = {}]

inject_connected(p) ==
  /\ Injects(TRUE)
  /\ p \notin connected
  /\ Opens(p)
  /\ connected' = connected \cup {p}
  /\ connected_peers' = connected_peers \cup {p}
  /\ rpc_events' = Append(rpc_events, PeerDialed(p))
  /\ UNCHANGED <<gossip, identified>>

\* What Discovery::inject_disconnected leaves of its set.  Faulty variant first.
KeepsPeer(p) == connected_peers
WithoutPeer(p) == connected_peers \ {p}

inject_disconnected(p) ==
  /\ Injects(TRUE)
  /\ p \in connected
  /\ connected' = connected \ {p}
  /\ connected_peers' = WithoutPeer(p)
  /\ rpc_events' = Append(rpc_events, PeerDisconnected(p))
  /\ UNCHANGED <<connection, requests, gossip, identified, budget, answered>>

\* A second connection takes the place of the first: RPC does not define
\* inject_replaced and gets both calls, Discovery ignores it.
inject_replaced(p) ==
  /\ Injects(TRUE)
  /\ p \in connected
  /\ Opens(p)
  /\ rpc_events' = rpc_events \o <<PeerDisconnected(p), PeerDialed(p)>>
  /\ UNCHANGED <<connected, connected_peers, gossip, identified>>

\* RPC::inject_node_event, for a request of the peer or a response.
inject_request(p) ==
  /\ Injects(TRUE)
  /\ p \in connected
  /\ Spends("messages")
  /\ requests' = [requests EXCEPT ![p] = @ + 1]
  /\ rpc_events' = Append(rpc_events, Request(p, requests'[p], connection[p]))
  /\ UNCHANGED <<connected, connection, gossip, identified, connected_peers, answered>>

inject_response(p) ==
  /\ Injects(TRUE)
  /\ p \in connected
  /\ Spends("messages")
  /\ rpc_events' = Append(rpc_events, Response(p))
  /\ UNCHANGED <<connected, connection, requests, gossip, identified, connected_peers,
                 answered>>

\* Gossipsub has a message, Identify knows the peer.
inject_notice(p) ==
  /\ Injects(TRUE)
  /\ p \in connected
  /\ Spends("notices")
  /\ \/ gossip' = Append(gossip, p) /\ UNCHANGED identified
     \/ identified' = Append(identified, p) /\ UNCHANGED gossip
  /\ UNCHANGED <<connected, connection, requests, rpc_events, connected_peers, answered>>

-----------------------------------------------------------------------------
\* The derived Behaviour::poll polls its fields in order.  What a field
\* generates is put into `events' and the field is polled again; anything else
\* is returned to the swarm at once, and the fields after it are not polled.
BehaviourReturns ==
  /\ at = "behaviour"
  /\ at' = "swarm"
  /\ injected' = FALSE
  /\ UNCHANGED <<connected, connection, requests, connected_peers, message, syncVars>>

\* Gossipsub, the first field, has something to send.
gossipsub_sends ==
  /\ BehaviourReturns
  /\ Spends("notices")
  /\ UNCHANGED <<gossip, identified, rpc_events, events, elapsed, past_discovery_delay,
                 searching, answered, late>>

\* inject_event for gossip: a message of an unknown topic or that cannot be
\* decoded is dropped.
Understood(queue) ==
  {SelectSeq(queue, LAMBDA p : p \in ps) : ps \in SUBSET Peers}

\* The first SendEvent in RPC.events; 0 if there is none.
SendAt == SelectInSeq(rpc_events, LAMBDA e : e.kind = "send")

Map(F(_), s) == [i \in DOMAIN s |-> F(s[i])]

BehindSend == SubSeq(rpc_events, SendAt + 1, Len(rpc_events))

\* RPC returns a SendEvent; the swarm drops it if the peer is gone.
rpc_sends ==
  /\ BehaviourReturns
  /\ SendAt # 0
  /\ \E msgs \in Understood(gossip) :
       events' = events \o Map(Pubsub, msgs) \o SubSeq(rpc_events, 1, SendAt - 1)
  /\ gossip' = <<>>
  /\ rpc_events' = BehindSend
  /\ LET e == rpc_events[SendAt]
     IN answered' = IF e.peer \in connected /\ e.connection = connection[e.peer]
                    THEN [answered EXCEPT ![e.peer] = @ \cup {e.id}] ELSE answered
  /\ UNCHANGED <<identified, elapsed, past_discovery_delay, searching, late, budget>>

\* Without a SendEvent, all fields up to Discovery have generated their events.
\* A peer that Identify knows is reported as dialed, once more.
Collected(msgs) ==
  events \o Map(Pubsub, msgs) \o rpc_events \o Map(PeerDialed, identified)

PollsFields ==
  /\ at = "behaviour"
  /\ SendAt = 0
  /\ gossip' = <<>>
  /\ identified' = <<>>
  /\ rpc_events' = <<>>
  /\ late' = late \cup (ToSet(identified) \ connected)
  /\ injected' = FALSE
  /\ UNCHANGED <<connected, connection, requests, connected_peers, syncVars, answered>>

\* find_peers starts a query and sets the delay, doubled until the limit is
\* reached or passed.
find_peers ==
  /\ elapsed' = FALSE
  /\ past_discovery_delay' =
       IF past_discovery_delay < MAX_TIME_BETWEEN_PEER_SEARCHES
       THEN past_discovery_delay * 2 ELSE past_discovery_delay
  /\ searching' = TRUE

Wanted == Cardinality(connected_peers) < MaxPeers

\* The first loop of Discovery::poll, when it ends; a query may have ended
\* without a peer to dial.
SearchesIfTime ==
  IF elapsed THEN Wanted /\ find_peers
  ELSE /\ searching' \in {FALSE, searching}
       /\ UNCHANGED <<elapsed, past_discovery_delay>>

\* When it does not end: the delay has passed and stays so, as no search is due.
discovery_spins ==
  /\ PollsFields
  /\ elapsed /\ ~Wanted
  /\ at' = "spin"
  /\ \E msgs \in Understood(gossip) : events' = Collected(msgs)
  /\ UNCHANGED <<elapsed, past_discovery_delay, searching, message, budget>>

spin == at = "spin" /\ UNCHANGED vars

\* A query ends with peers: the first that is not connected is dialed, if more
\* are wanted, and the others are dropped.  Or the own address changed.
discovery_dials ==
  /\ PollsFields
  /\ searching
  /\ SearchesIfTime
  /\ searching' = elapsed
  /\ Wanted /\ Peers \ connected_peers # {}
  /\ at' = "swarm"
  /\ \E msgs \in Understood(gossip) : events' = Collected(msgs)
  /\ UNCHANGED <<message, budget>>

discovery_reports ==
  /\ PollsFields
  /\ SearchesIfTime
  /\ Spends("notices")
  /\ at' = "swarm"
  /\ \E msgs \in Understood(gossip) : events' = Collected(msgs)
  /\ UNCHANGED message

\* events.remove(0).  Faulty variant first: events.pop().
TakeNewest(queue) == [event |-> Last(queue), rest |-> Front(queue)]
TakeOldest(queue) == [event |-> Head(queue), rest |-> Tail(queue)]

\* Behaviour's own poll, last: the oldest event goes to the service, or there is
\* none.  The swarm returns to the service when it had nothing to inject either.
behaviour_poll ==
  /\ PollsFields
  /\ SearchesIfTime
  /\ \E msgs \in Understood(gossip) :
       IF Collected(msgs) # <<>>
       THEN /\ message' = TakeOldest(Collected(msgs)).event
            /\ events' = TakeOldest(Collected(msgs)).rest
            /\ at' = "service"
       ELSE /\ at' = IF injected THEN "swarm" ELSE "sync"
            /\ UNCHANGED <<events, message>>
  /\ UNCHANGED budget

-----------------------------------------------------------------------------
\* The service handles one event.  Requests for blocks and for the status are
\* answered at once; responses go to the sync engine, pubsub messages nowhere.
handle ==
  /\ at = "service"
  /\ at' = "swarm"
  /\ message' = <<>>
  /\ sync_peers' = CASE message.kind = "dialed" -> sync_peers \cup {message.peer}
                     [] message.kind = "disconnected" -> sync_peers \ {message.peer}
                     [] OTHER -> sync_peers
  /\ rpc_events' = IF message.kind = "request" THEN send_rpc(rpc_events, message)
                   ELSE rpc_events
  /\ UNCHANGED <<swarmVars, events, injected, discoveryVars, queried, answered, late>>

\* The sync engine asks for the status or the blocks of a peer that it knows; a
\* query for the own status is answered on the spot.
sync_query(p) ==
  /\ at = "sync"
  /\ p \in sync_peers \ queried
  /\ queried' = queried \cup {p}
  /\ rpc_events' = send_rpc(rpc_events, Event("query", p))
  /\ UNCHANGED <<at, swarmVars, events, message, injected, discoveryVars, sync_peers,
                 answered, late>>

\* It has nothing more to ask, and the thread sleeps until it is woken.
sync_pending ==
  /\ at = "sync"
  /\ at' = "swarm"
  /\ queried' = {}
  /\ UNCHANGED <<swarmVars, rpc_events, events, message, injected, discoveryVars,
                 sync_peers, answered, late>>

\* The timer.
delay_elapses ==
  /\ ~elapsed
  /\ elapsed' = TRUE
  /\ UNCHANGED <<at, swarmVars, rpc_events, events, message, injected, connected_peers,
                 past_discovery_delay, searching, syncVars, answered, late>>

Thread ==
  \/ inject_nothing
  \/ \E p \in Peers :
       \/ inject_connected(p) \/ inject_disconnected(p) \/ inject_replaced(p)
       \/ inject_request(p) \/ inject_response(p) \/ inject_notice(p)
       \/ sync_query(p)
  \/ gossipsub_sends
  \/ rpc_sends
  \/ discovery_spins
  \/ discovery_dials
  \/ discovery_reports
  \/ behaviour_poll
  \/ handle
  \/ sync_pending
  \/ spin

Next == Thread \/ delay_elapses

\* The thread runs and the timer fires; nothing is assumed of the peers.
Spec == Init /\ [][Next]_vars /\ WF_vars(Thread) /\ WF_vars(delay_elapses)

-----------------------------------------------------------------------------
\* When the queues have been worked off and the sync engine is asked, it knows
\* every connected peer, and no other except one that Identify reported after
\* the connection was closed: events from different queues, postponed when one
\* of them has something to send, do not overtake each other otherwise.
PeersNoted ==
  at = "sync" => connected \subseteq sync_peers /\ sync_peers \subseteq connected \cup late


\* Once the delay has passed a search is started, unless the target number of
\* peers is connected: with less, the loop in Discovery::poll does end.
SearchGoesOn == elapsed ~> ~elapsed \/ Cardinality(connected) >= MaxPeers

=============================================================================
