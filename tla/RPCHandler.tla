----------------------------- MODULE RPCHandler ------------------------------
(***************************************************************************)
(* The request/response handler of one peer connection: RPCHandler         *)
(* (common/libp2p-rpc/src/handler.rs) between the user, who sends requests *)
(* and answers those of the peer, and the libp2p node, which negotiates    *)
(* substreams, polls the handler and closes the connection.                *)
(*                                                                         *)
(* A time limit is the number of clock ticks left, -1 once it has passed.  *)
(* The handler registers no timer: it is polled after a call into it and   *)
(* after progress on one of its substreams (woken), never because a time   *)
(* limit has passed.                                                       *)
(***************************************************************************)
EXTENDS Integers, Sequences, FiniteSets, SequencesExt

CONSTANTS
  Requests,           \* identifiers of the user's own requests
  Goodbyes,           \* those among them that expect no response
  MaxDialNegotiated,  \* max_dial_negotiated: 8 in the code
  ResponseTimeout,    \* RESPONSE_TIMEOUT in ticks
  InactiveTimeout,    \* inactive_timeout in ticks
  MaxInbound,         \* bound: requests of the peer
  MaxGoodbyes,        \* bound: goodbyes of the peer
  MaxDialErrors       \* bound: substreams that fail to open

VARIABLES
  events_out, dial_queue, dial_negotiated, waiting_substreams, substreams,
  current_substream_id, keep_alive,
  pending_error,
  dialing,      \* external: the substreams being opened
  woken,        \* external: the handler will be polled
  closed,       \* external: the connection is closed
  requested,    \* history: requests submitted
  outcomes,     \* history: events delivered for each request
  told,         \* history: requests of the peer delivered to the user
  answers,      \* history: responses written for each request of the peer
  errors,       \* history: failed substreams
  goodbyes      \* history: goodbyes of the peer

queues == <<events_out, dial_queue, dial_negotiated, waiting_substreams, substreams,
            current_substream_id, keep_alive, pending_error>>
history == <<requested, outcomes, told, answers, errors, goodbyes>>
vars == <<queues, dialing, woken, closed, history>>

InboundIds == 1 .. MaxInbound

\* KeepAlive::Yes; any other value is the time left of KeepAlive::Until.
Yes == 1000

Request(id) == [kind |-> "request", id |-> id]
Response(id) == [kind |-> "response", id |-> id]
Error(id) == [kind |-> "error", id |-> id]
NoEvent == [kind |-> "none", id |-> 0]

\* SubstreamState.
ResponsePendingSend(id) == [state |-> "send", id |-> id, timeout |-> 0]
RequestPendingResponse(id, t) == [state |-> "await", id |-> id, timeout |-> t]

-----------------------------------------------------------------------------
Init ==
  /\ events_out = <<>> /\ dial_queue = <<>> /\ dial_negotiated = 0
  /\ waiting_substreams = <<>> /\ substreams = <<>>
  /\ current_substream_id = 1 /\ keep_alive = Yes
  /\ pending_error = FALSE
  /\ dialing = {} /\ woken = FALSE /\ closed = FALSE
  /\ requested = {} /\ told = {} /\ errors = 0 /\ goodbyes = 0
  /\ outcomes = [r \in Requests |-> 0]
  /\ answers = [i \in InboundIds |-> 0]

\* inject_event with a request: send_request.
send_request(r) ==
  /\ r \notin requested
  /\ keep_alive' = Yes
  /\ dial_queue' = Append(dial_queue, r)
  /\ woken' = TRUE
  /\ requested' = requested \union {r}
  /\ UNCHANGED <<events_out, dial_negotiated, waiting_substreams, substreams,
       current_substream_id, pending_error, dialing, closed, outcomes, told, answers, errors,
       goodbyes>>

Without(f, k) == [x \in DOMAIN f \ {k} |-> f[x]]

\* Taking the waiting substream out when it is answered.  Faulty variant first:
\* it stays.
PeekWaiting(waiting, id) == waiting
TakeWaiting(waiting, id) == Without(waiting, id)

\* inject_event with a response: silently nothing if the substream is gone.
respond(id) ==
  /\ id \in DOMAIN waiting_substreams
  /\ waiting_substreams' = TakeWaiting(waiting_substreams, id)
  /\ substreams' = Append(substreams, ResponsePendingSend(id))
  /\ woken' = TRUE
  /\ UNCHANGED <<events_out, dial_queue, dial_negotiated, current_substream_id, keep_alive,
       pending_error, dialing, closed, history>>

\* inject_fully_negotiated_inbound; a goodbye is reported with id 0 and its
\* stream dropped.
inject_fully_negotiated_inbound(is_goodbye) ==
  /\ IF is_goodbye
     THEN /\ goodbyes < MaxGoodbyes
          /\ goodbyes' = goodbyes + 1
          /\ events_out' = Append(events_out, Request(0))
          /\ UNCHANGED <<waiting_substreams, current_substream_id>>
     ELSE /\ current_substream_id \in InboundIds
          /\ waiting_substreams' =
               [i \in DOMAIN waiting_substreams \union {current_substream_id} |->
                  IF i = current_substream_id THEN ResponseTimeout ELSE waiting_substreams[i]]
          /\ events_out' = Append(events_out, Request(current_substream_id))
          /\ current_substream_id' = current_substream_id + 1
          /\ goodbyes' = goodbyes
  /\ woken' = TRUE
  /\ UNCHANGED <<dial_queue, dial_negotiated, substreams, keep_alive, pending_error, dialing,
       closed, requested, outcomes, told, answers, errors>>

\* The counter when a substream is open.  Faulty variant first: not counted down.
StillOpening(n) == n
Opened(n) == n - 1

\* inject_fully_negotiated_outbound.
inject_fully_negotiated_outbound(r) ==
  /\ r \in dialing
  /\ dialing' = dialing \ {r}
  /\ dial_negotiated' = Opened(dial_negotiated)
  /\ keep_alive' =
       IF dial_negotiated' = 0 /\ dial_queue = <<>> /\ DOMAIN waiting_substreams = {}
       THEN InactiveTimeout ELSE Yes
  /\ substreams' = IF r \in Goodbyes THEN substreams
                   ELSE Append(substreams, RequestPendingResponse(r, ResponseTimeout))
  /\ woken' = TRUE
  /\ UNCHANGED <<events_out, dial_queue, waiting_substreams, current_substream_id,
       pending_error, closed, history>>

\* inject_dial_upgrade_error: only the error is kept.
inject_dial_upgrade_error(r) ==
  /\ r \in dialing
  /\ errors < MaxDialErrors
  /\ errors' = errors + 1
  /\ dialing' = dialing \ {r}
  /\ pending_error' = TRUE
  /\ woken' = TRUE
  /\ UNCHANGED <<events_out, dial_queue, dial_negotiated, waiting_substreams, substreams,
       current_substream_id, keep_alive, closed, requested, outcomes, told, answers, goodbyes>>

-----------------------------------------------------------------------------
\* Vec::swap_remove.
swap_remove(s, n) ==
  IF n = Len(s) THEN Front(s) ELSE [Front(s) EXCEPT ![n] = Last(s)]

\* What polling one substream gives: it is taken out; a pending one is put back
\* unless it is a request whose time is up.  Faulty variant first: an answered
\* request is put back.
KeepAnswered(s, n, outcome) ==
  IF outcome = "pending" \/ s[n].state = "await"
  THEN [streams |-> Append(swap_remove(s, n), s[n]),
        event |-> IF outcome = "pending" THEN NoEvent ELSE Response(s[n].id)]
  ELSE [streams |-> swap_remove(s, n), event |-> NoEvent]
poll_substream(s, n, outcome) ==
  LET stream == s[n]
      rest == swap_remove(s, n)
      is_send == stream.state = "send"
  IN [streams |-> IF outcome = "pending" /\ (is_send \/ stream.timeout > 0)
                  THEN Append(rest, stream) ELSE rest,
      event |-> IF outcome = "pending" \/ (is_send /\ outcome = "ready") THEN NoEvent
                ELSE IF is_send THEN Error(0)
                ELSE IF outcome = "ready" THEN Response(stream.id)
                ELSE Error(stream.id)]

\* The loop over the substreams, from the last to the first, which returns at
\* the first event.
drive(s, outcome) ==
  LET after[k \in 0 .. Len(s)] ==
        IF k = 0 THEN [streams |-> s, event |-> NoEvent]
        ELSE LET before == after[k - 1]
                 n == Len(s) - k + 1
             IN IF before.event # NoEvent THEN before
                ELSE poll_substream(before.streams, n, outcome[before.streams[n]])
  IN after[Len(s)]

\* The retain over the waiting substreams: "now <= timeout".
NotExpired(waiting) == [i \in {j \in DOMAIN waiting : waiting[j] >= 0} |-> waiting[i]]

\* The limit on substreams being opened.  Faulty variant first: one more.
MayDialOneMore(n) == n <= MaxDialNegotiated
MayDial(n) == n < MaxDialNegotiated

\* History of what the user is told.
Deliver(event) ==
  /\ told' = told \union {i \in {event.id} : event.kind = "request" /\ i # 0}
  /\ outcomes' = [r \in Requests |->
       IF event.kind \in {"response", "error"} /\ event.id = r THEN outcomes[r] + 1 ELSE outcomes[r]]

\* poll with an event to report: nothing else happens in that call.
poll_event ==
  /\ woken
  /\ pending_error' = FALSE
  /\ events_out # <<>>
  /\ Deliver(Head(events_out))
  /\ events_out' = Tail(events_out)
  /\ UNCHANGED <<dial_queue, dial_negotiated, waiting_substreams, substreams,
       current_substream_id, keep_alive, dialing, woken, closed, requested, answers, errors, goodbyes>>

\* poll without one: expire, drive the substreams, open one more.
poll_substreams(outcome) ==
  LET driven == drive(substreams, outcome)
      sent == {i \in InboundIds : \E st \in Range(substreams) \ Range(driven.streams) :
                 st = ResponsePendingSend(i) /\ outcome[st] = "ready"}
      dial == driven.event = NoEvent /\ dial_queue # <<>> /\ MayDial(dial_negotiated)
  IN /\ woken
     /\ pending_error' = FALSE
     /\ events_out = <<>>
     /\ waiting_substreams' = NotExpired(waiting_substreams)
     /\ substreams' = driven.streams
     /\ Deliver(driven.event)
     /\ answers' = [i \in InboundIds |-> IF i \in sent THEN answers[i] + 1 ELSE answers[i]]
     /\ dial_queue' = IF dial THEN Tail(dial_queue) ELSE dial_queue
     /\ dial_negotiated' = IF dial THEN dial_negotiated + 1 ELSE dial_negotiated
     /\ dialing' = IF dial THEN dialing \union {Head(dial_queue)} ELSE dialing
     /\ woken' = (dial \/ driven.event # NoEvent)
     /\ UNCHANGED <<events_out, current_substream_id, keep_alive, closed, requested, errors,
          goodbyes>>

Outcomes == {"pending", "ready", "failed"}
poll ==
  \/ poll_event
  \/ \E outcome \in [Range(substreams) -> Outcomes] : poll_substreams(outcome)

-----------------------------------------------------------------------------
Less(t) == IF t = -1 THEN -1 ELSE t - 1

\* External: time passes.
tick ==
  /\ waiting_substreams' = [i \in DOMAIN waiting_substreams |-> Less(waiting_substreams[i])]
  /\ substreams' = [i \in 1 .. Len(substreams) |->
       IF substreams[i].state = "send" THEN substreams[i]
       ELSE [substreams[i] EXCEPT !.timeout = Less(@)]]
  /\ keep_alive' = IF keep_alive = Yes THEN Yes ELSE Less(keep_alive)
  /\ UNCHANGED <<events_out, dial_queue, dial_negotiated, current_substream_id, pending_error,
       dialing, woken, closed, history>>

\* External: something arrives on, or may be written to, a substream.
activity ==
  /\ substreams # <<>>
  /\ woken' = TRUE
  /\ UNCHANGED <<queues, dialing, closed, history>>

\* External: libp2p closes the connection when connection_keep_alive allows it
\* and no substream is being opened.
close ==
  /\ keep_alive # Yes /\ keep_alive <= 0
  /\ dialing = {}
  /\ closed' = TRUE
  /\ UNCHANGED <<queues, dialing, woken, history>>

Next ==
  /\ ~closed
  /\ \/ \E r \in Requests : send_request(r)
     \/ \E r \in Requests : inject_fully_negotiated_outbound(r)
     \/ \E r \in Requests : inject_dial_upgrade_error(r)
     \/ \E id \in told : respond(id)
     \/ \E g \in BOOLEAN : inject_fully_negotiated_inbound(g)
     \/ poll
     \/ tick
     \/ activity
     \/ close

Spec == Init /\ [][Next]_vars

\* Fairness: the node polls a woken handler, the clock runs, opening a substream
\* ends one way or the other (libp2p limits its time), and a connection that may
\* be closed is closed.
Fairness ==
  /\ WF_vars(~closed /\ poll)
  /\ WF_vars(~closed /\ tick)
  /\ WF_vars(~closed /\ close)
  /\ WF_vars(~closed /\ \E r \in Requests :
                inject_fully_negotiated_outbound(r) \/ inject_dial_upgrade_error(r))

FairSpec == Spec /\ Fairness

-----------------------------------------------------------------------------
Streams == [state : {"send", "await"}, id : Requests \union InboundIds, timeout : -1 .. ResponseTimeout]

\* Types of the handler's fields; dial_negotiated counts at least every substream
\* being opened and stays within its limit, over any interleaving of dials,
\* successes and failures.
TypeOK ==
  /\ Range(dial_queue) \subseteq Requests /\ dialing \subseteq Requests
  /\ dial_negotiated \in Cardinality(dialing) .. MaxDialNegotiated
  /\ DOMAIN waiting_substreams \subseteq InboundIds
  /\ Range(substreams) \subseteq Streams
  /\ keep_alive \in (-1 .. InactiveTimeout) \union {Yes}
  /\ current_substream_id \in 1 .. MaxInbound + 1

\* A request of the user is in one place: queued, being opened or awaiting its
\* response; and the user is told its outcome at most once, after it left them.
OneOutcome ==
  \A r \in Requests :
    Cardinality({i \in 1 .. Len(dial_queue) : dial_queue[i] = r})
      + Cardinality({r} \intersect dialing)
      + Cardinality({i \in 1 .. Len(substreams) :
           substreams[i].state = "await" /\ substreams[i].id = r})
      + outcomes[r] <= 1

\* A request of the peer is answered at most once: it is waiting, being
\* answered, or done with.
OneAnswer ==
  \A id \in InboundIds :
    Cardinality({id} \intersect DOMAIN waiting_substreams)
      + Cardinality({i \in 1 .. Len(substreams) : substreams[i] = ResponsePendingSend(id)})
      + answers[id] <= 1

\* With fewer failed substreams than the limit, the queue of requests is emptied,
\* unless the connection closes first.  It takes a peer that stops sending: poll
\* reports what the peer sent before it looks at the queue.
QueueDrains == (dial_queue # <<>>) ~> (dial_queue = <<>> \/ closed)

=============================================================================
