------------------------------- MODULE EventBus -------------------------------
(***************************************************************************)
(* The durable event log and its live WebSocket streams: events.Service    *)
(* appends an event to SQLite and hands it to the realtime hub, the hub    *)
(* offers it to a snapshot of the connected clients, and the goroutine of  *)
(* each connection writes what is queued for it.                           *)
(*                                                                         *)
(* Heartbeats, the replies to commands, and events the hub publishes       *)
(* without logging them have no cursor and are left out.                   *)
(***************************************************************************)
EXTENDS Naturals, Sequences, FiniteSets

CONSTANTS
  Publishers,   (* goroutines that publish: workers, API requests          *)
  Consumers,    (* WebSocket consumers, each with one connection at a time *)
  Topics,       (* event types                                             *)
  Visible,      (* the types the consumers' actor is allowed to see        *)
  Capacity,     (* slots of client.send (64 in newClient)                  *)
  MaxEvents,    (* bound: events appended                                  *)
  MaxSessions   (* bound: connections a consumer opens                     *)

ASSUME BusAssumption ==
  /\ Visible \subseteq Topics /\ "all" \notin Consumers
  /\ Capacity \in Nat \ {0}
  /\ {MaxEvents, MaxSessions} \subseteq Nat

VARIABLES
  log,        (* event_log: the topic of every event, at its cursor        *)
  pub,        (* pub[p]: the cursor p is publishing, 0 when none           *)
  targets,    (* targets[p]: clients p still has to offer it to; "all"     *)
              (* stands for a snapshot not taken yet                       *)
  hub,        (* Hub.clients                                               *)
  conn,       (* "away", "greeted" or "open"                               *)
  topics,     (* client.topics                                             *)
  queue,      (* client.send                                               *)
  done,       (* client.done is closed                                     *)
  writing,    (* cursor taken from the queue and authorised, 0 when none   *)
  session,    (* the login session of the consumer is valid                *)
  stream,     (* cursors written on this connection (history)              *)
  late,       (* events written after the session ended (history)          *)
  since,      (* since[c][t]: the log length when t was subscribed, plus 1 *)
  opened      (* connections opened so far                                 *)

server   == <<hub, conn, topics, queue, done, writing>>
history  == <<stream, late, since>>
vars == <<log, pub, targets, server, session, history, opened>>

Cursors == 1..Len(log)
NotYet  == MaxEvents + 2        (* since[c][t] of a topic not subscribed   *)

-----------------------------------------------------------------------------
Init ==
  /\ log = <<>>
  /\ pub = [p \in Publishers |-> 0]
  /\ targets = [p \in Publishers |-> {}]
  /\ hub = {}
  /\ conn = [c \in Consumers |-> "away"]
  /\ topics = [c \in Consumers |-> {}]
  /\ queue = [c \in Consumers |-> <<>>]
  /\ done = [c \in Consumers |-> FALSE]
  /\ writing = [c \in Consumers |-> 0]
  /\ session = [c \in Consumers |-> TRUE]
  /\ stream = [c \in Consumers |-> <<>>]
  /\ late = [c \in Consumers |-> 0]
  /\ since = [c \in Consumers |-> [t \in Topics |-> NotYet]]
  /\ opened = [c \in Consumers |-> 0]

-----------------------------------------------------------------------------
(* Publish: append, snapshot the clients, offer to each in some order.     *)

AppendEvent(p, t) ==
  /\ pub[p] = 0 /\ Len(log) < MaxEvents
  /\ log' = Append(log, t)
  /\ pub' = [pub EXCEPT ![p] = Len(log) + 1]
  /\ targets' = [targets EXCEPT ![p] = {"all"}]
  /\ UNCHANGED <<server, session, history, opened>>

Snapshot(p) ==
  /\ "all" \in targets[p]
  /\ targets' = [targets EXCEPT ![p] = hub]
  /\ UNCHANGED <<log, pub, server, session, history, opened>>

Quiet == UNCHANGED <<queue, hub, done>>

Matches(p, c) == log[pub[p]] \in topics[c]

Send(p, c) ==
  /\ Len(queue[c]) < Capacity
  /\ queue' = [queue EXCEPT ![c] = Append(@, pub[p])]
  /\ UNCHANGED <<hub, done>>

(* Bugs: a full queue loses the event, or leaves the client connected.     *)
DropEvent(c) == (done[c] \/ Len(queue[c]) >= Capacity) /\ Quiet

DropUnclosed(c) ==
  /\ done[c] \/ Len(queue[c]) >= Capacity
  /\ hub' = hub \ {c}
  /\ UNCHANGED <<queue, done>>

(* h.remove(c), when deliver finds done closed or the channel full.        *)
Drop(c) ==
  /\ done[c] \/ Len(queue[c]) >= Capacity
  /\ hub' = hub \ {c}
  /\ done' = [done EXCEPT ![c] = TRUE]
  /\ UNCHANGED queue

(* The select of deliver takes a closed done or a free slot, either one    *)
(* when both are ready, and never waits.                                   *)
Offer(p, c) ==
  /\ c \in targets[p]
  /\ targets' = [targets EXCEPT ![p] = @ \ {c}]
  /\ \/ ~Matches(p, c) /\ Quiet
     \/ Matches(p, c) /\ (Send(p, c) \/ Drop(c))
  /\ UNCHANGED <<log, pub, conn, topics, writing, session, history, opened>>

Published(p) ==
  /\ pub[p] # 0 /\ targets[p] = {}
  /\ pub' = [pub EXCEPT ![p] = 0]
  /\ UNCHANGED <<log, targets, server, session, history, opened>>

-----------------------------------------------------------------------------
(* The goroutine of one connection.                                        *)

(* Accept, newClient, and core.connected as the first message: the client  *)
(* is not registered yet.                                                  *)
Greet(c) ==
  /\ conn[c] = "away" /\ session[c]
  /\ opened[c] < MaxSessions
  /\ conn' = [conn EXCEPT ![c] = "greeted"]
  /\ opened' = [opened EXCEPT ![c] = @ + 1]
  /\ UNCHANGED <<log, pub, targets, hub, topics, queue, done, writing, session, history>>

Register(c) ==
  /\ conn[c] = "greeted"
  /\ conn' = [conn EXCEPT ![c] = "open"]
  /\ hub' = hub \cup {c}
  /\ UNCHANGED <<log, pub, targets, topics, queue, done, writing, session, history, opened>>

Selecting(c) == conn[c] = "open" /\ writing[c] = 0

Subscribe(c, t) ==
  /\ Selecting(c) /\ session[c]
  /\ topics' = [topics EXCEPT ![c] = @ \cup {t}]
  /\ since' = IF t \in topics[c] THEN since ELSE [since EXCEPT ![c][t] = Len(log) + 1]
  /\ UNCHANGED <<log, pub, targets, hub, conn, queue, done, writing, session, stream, late, opened>>

Unsubscribe(c, t) ==
  /\ Selecting(c) /\ session[c]
  /\ t \in topics[c]
  /\ topics' = [topics EXCEPT ![c] = @ \ {t}]
  /\ since' = [since EXCEPT ![c][t] = NotYet]
  /\ UNCHANGED <<log, pub, targets, hub, conn, queue, done, writing, session, stream, late, opened>>

Taken(c, event) ==
  /\ queue' = [queue EXCEPT ![c] = Tail(@)]
  /\ writing' = [writing EXCEPT ![c] = event]
  /\ UNCHANGED <<log, pub, targets, hub, conn, topics, done, session, history, opened>>

(* A bug: the session is not checked per message.                          *)
TakeUnchecked(c) ==
  /\ Selecting(c) /\ queue[c] # <<>>
  /\ Taken(c, IF log[Head(queue[c])] \in Visible THEN Head(queue[c]) ELSE 0)

(* A message is taken, the session is checked once more, and what the      *)
(* actor may not see is skipped.                                           *)
Take(c) ==
  /\ Selecting(c) /\ queue[c] # <<>> /\ session[c]
  /\ Taken(c, IF log[Head(queue[c])] \in Visible THEN Head(queue[c]) ELSE 0)

(* writeMessage succeeds: the consumer has it and remembers its cursor.    *)
Write(c) ==
  /\ writing[c] # 0
  /\ writing' = [writing EXCEPT ![c] = 0]
  /\ stream' = [stream EXCEPT ![c] = Append(@, writing[c])]
  /\ late' = [late EXCEPT ![c] = IF session[c] THEN @ ELSE @ + 1]
  /\ UNCHANGED <<log, pub, targets, hub, conn, topics, queue, done, session, since, opened>>

(* The handler of every connection in S returns, h.remove(c) first. A      *)
(* publisher that still has such a client in its snapshot offers to an     *)
(* object nobody reads any more.                                           *)
Ended(S) ==
  LET Reset(f, v) == [c \in Consumers |-> IF c \in S THEN v ELSE f[c]] IN
  /\ conn' = Reset(conn, "away")
  /\ hub' = hub \ S
  /\ topics' = Reset(topics, {})
  /\ queue' = Reset(queue, <<>>)
  /\ done' = Reset(done, FALSE)
  /\ writing' = Reset(writing, 0)
  /\ stream' = Reset(stream, <<>>)
  /\ late' = Reset(late, 0)
  /\ since' = Reset(since, [t \in Topics |-> NotYet])
  /\ UNCHANGED <<log, session, opened>>

Close(c) ==
  /\ Ended({c})
  /\ targets' = [p \in Publishers |-> targets[p] \ {c}]
  /\ UNCHANGED pub

(* "event consumer too slow".                                              *)
CloseSlow(c) == Selecting(c) /\ done[c] /\ Close(c)

(* The check every second, and before every command and every message.     *)
CloseExpired(c) == Selecting(c) /\ ~session[c] /\ Close(c)

(* The consumer leaves, a read or a write fails (also after five seconds). *)
CloseBroken(c) == conn[c] # "away" /\ Close(c)

-----------------------------------------------------------------------------
(* Logins end on their own (logout, expiry, a disabled user).              *)

EndSession(c) ==
  /\ session[c]
  /\ session' = [session EXCEPT ![c] = FALSE]
  /\ UNCHANGED <<log, pub, targets, server, history, opened>>

LogIn(c) ==
  /\ conn[c] = "away" /\ ~session[c] /\ opened[c] < MaxSessions
  /\ session' = [session EXCEPT ![c] = TRUE]
  /\ UNCHANGED <<log, pub, targets, server, history, opened>>

(* Core stops or crashes: a publisher between the append and the last      *)
(* offer never delivers, the log survives.                                 *)
Restart ==
  /\ Ended(Consumers)
  /\ pub' = [p \in Publishers |-> 0]
  /\ targets' = [p \in Publishers |-> {}]

-----------------------------------------------------------------------------
Publishing(p) == Snapshot(p) \/ Published(p) \/ \E c \in Consumers : Offer(p, c)

Serving(c) ==
  \/ Greet(c) \/ Register(c) \/ Take(c) \/ Write(c)
  \/ CloseSlow(c) \/ CloseExpired(c) \/ CloseBroken(c)
  \/ \E t \in Topics : Subscribe(c, t) \/ Unsubscribe(c, t)

Next ==
  \/ \E p \in Publishers : Publishing(p) \/ \E t \in Topics : AppendEvent(p, t)
  \/ \E c \in Consumers : Serving(c) \/ EndSession(c) \/ LogIn(c)
  \/ Restart

Spec == Init /\ [][Next]_vars

(* The goroutines run; a write returns within five seconds, with or        *)
(* without an error; and a select with several ready cases picks each of   *)
(* them again and again.                                                   *)
Fairness ==
  /\ \A p \in Publishers : WF_vars(Publishing(p))
  /\ \A c \in Consumers :
       /\ WF_vars(Register(c))
       /\ WF_vars(Write(c) \/ (writing[c] # 0 /\ CloseBroken(c)))
       /\ SF_vars(Take(c)) /\ SF_vars(CloseSlow(c)) /\ SF_vars(CloseExpired(c))

FairSpec == Spec /\ Fairness

-----------------------------------------------------------------------------
(* Every variable has its type; the channel of a client never holds more   *)
(* than its capacity, and a registered client has an open connection.      *)
TypeOK ==
  /\ log \in Seq(Topics) /\ Len(log) <= MaxEvents
  /\ pub \in [Publishers -> 0..Len(log)]
  /\ targets \in [Publishers -> SUBSET (Consumers \cup {"all"})]
  /\ hub \subseteq {c \in Consumers : conn[c] = "open"}
  /\ conn \in [Consumers -> {"away", "greeted", "open"}]
  /\ topics \in [Consumers -> SUBSET Topics]
  /\ queue \in [Consumers -> Seq(Cursors)]
  /\ \A c \in Consumers : Len(queue[c]) <= Capacity
  /\ done \in [Consumers -> BOOLEAN]
  /\ writing \in [Consumers -> 0..Len(log)]
  /\ session \in [Consumers -> BOOLEAN]
  /\ stream \in [Consumers -> Seq(Cursors)]
  /\ late \in [Consumers -> Nat]
  /\ since \in [Consumers -> [Topics -> Nat]]
  /\ opened \in [Consumers -> 0..MaxSessions]

Items(s) == {s[i] : i \in DOMAIN s}

(* What was written on the connection, is being written, or is queued.     *)
Sent(c) == stream[c] \o (IF writing[c] = 0 THEN <<>> ELSE <<writing[c]>>) \o queue[c]

(* Publish is past the client, or past every client.                       *)
OfferedTo(c, e) == \A p \in Publishers : pub[p] = e => targets[p] \cap {c, "all"} = {}

(* A stream has no silent gap: while a connection is open and not marked   *)
(* as too slow, every event the actor may see, of a topic subscribed       *)
(* before the event was appended, and whose publisher has passed this      *)
(* client, is on the stream or on its way there. What does not fit closes  *)
(* the connection, so the consumer knows it must catch up                  *)
(* (PublishEvent, deliver, remove).                                        *)
NoSilentGap ==
  \A c \in Consumers : conn[c] = "open" /\ ~done[c] =>
    \A e \in Cursors :
      log[e] \in Visible /\ since[c][log[e]] <= e /\ OfferedTo(c, e) => e \in Items(Sent(c))

(* No connection carries an event twice, whatever subscriptions come and   *)
(* go while publishers overtake each other.                                *)
AtMostOnce ==
  \A c \in Consumers : \A i, j \in DOMAIN Sent(c) : Sent(c)[i] = Sent(c)[j] => i = j

(* After a session ends at most the one event already past the check is    *)
(* still written to its stream (ServeHTTPAuthorized authenticates again    *)
(* before each message).                                                   *)
AtMostOneLate == \A c \in Consumers : late[c] <= 1

(* Publish never waits for its clients: an unfinished call has a step of   *)
(* its own at every moment, so a full queue or a stuck write cannot hold   *)
(* the job worker or the request that publishes (deliver has a default).   *)
PublishNeverWaits == \A p \in Publishers : pub[p] # 0 => ENABLED Publishing(p)

(* A client the hub has given up is disconnected, it never lingers on a    *)
(* stream that will carry nothing more.                                    *)
DroppedIsClosed == \A c \in Consumers : conn[c] = "open" /\ c \notin hub ~> conn[c] # "open"

(* A stream whose session ended is closed, also when no event comes.       *)
ExpiredIsClosed == \A c \in Consumers : ~session[c] ~> conn[c] = "away"

(* A queued event the actor may see reaches the stream unless the          *)
(* connection closes.                                                      *)
QueuedIsWritten ==
  \A c \in Consumers : \A e \in 1..MaxEvents :
    e \in Items(queue[c]) /\ log[e] \in Visible ~> e \in Items(stream[c]) \/ conn[c] = "away"

(* The streams a client sees are sound: typed, without a silent gap and    *)
(* without a repetition.                                                   *)
StreamIsSound == TypeOK /\ NoSilentGap /\ AtMostOnce

(* Nobody waits for ever: no publisher for its clients, and no client for  *)
(* a message the hub has queued, or on a connection the hub or the login   *)
(* has given up.                                                           *)
ClientsAreServed ==
  []PublishNeverWaits /\ DroppedIsClosed /\ ExpiredIsClosed /\ QueuedIsWritten
=============================================================================
