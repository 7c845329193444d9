---------------------------- MODULE EventBusProofs ----------------------------
(***************************************************************************)
(* Proofs about the streams of events (EventBus) and the history that a    *)
(* disconnected consumer reads (EventCatchUp), for every number of         *)
(* publishers, consumers and topics and every length of the queues.        *)
(***************************************************************************)
EXTENDS EventCatchUp, WellFoundedInduction, TLAPS

-----------------------------------------------------------------------------
(* A connection that is not open carries nothing; one that is, and is not  *)
(* marked as too slow, is registered.                                      *)
Idle(c) ==
  /\ conn[c] # "open" => /\ topics[c] = {} /\ stream[c] = <<>> /\ queue[c] = <<>>
                         /\ writing[c] = 0 /\ late[c] = 0
  /\ conn[c] # "away" => opened[c] > 0
  /\ conn[c] = "open" /\ ~done[c] => c \in hub
  /\ \A t \in Topics \ topics[c] : since[c][t] = NotYet

(* A publisher that still has targets is publishing an event of its own,   *)
(* and offers it to open connections only.                                 *)
Offers ==
  /\ \A p \in Publishers :
       /\ targets[p] # {} => pub[p] # 0
       /\ "all" \in targets[p] => targets[p] = {"all"}
       /\ \A c \in targets[p] \cap Consumers : conn[c] = "open"
  /\ \A p, q \in Publishers : pub[p] = pub[q] /\ pub[p] # 0 => p = q

(* Once the session has ended, only the message past the check is written. *)
LateOnce(c) ==
  /\ session[c] => late[c] = 0
  /\ writing[c] # 0 => late[c] = 0
  /\ late[c] <= 1

(* No item of a sequence twice.                                            *)
Distinct(s) == \A i, j \in DOMAIN s : s[i] = s[j] => i = j

(* What is on the stream, being written or queued is three things, none    *)
(* holds an event twice, and the event's publisher is past the client.     *)
Once(c) ==
  /\ Distinct(stream[c]) /\ Distinct(queue[c])
  /\ Items(stream[c]) \cap Items(queue[c]) = {}
  /\ writing[c] \notin Items(stream[c]) \cup Items(queue[c])
OnItsWay(c) == Items(stream[c]) \cup Items(queue[c]) \cup {writing[c]}
PassedOn(c) == \A e \in OnItsWay(c) \ {0} : OfferedTo(c, e)

(* NoSilentGap, with what was sent as a set.                               *)
NoGap(c) ==
  conn[c] = "open" /\ ~done[c] =>
    \A e \in Cursors :
      log[e] \in Visible /\ since[c][log[e]] <= e /\ OfferedTo(c, e) => e \in OnItsWay(c)

(* The inductive invariant: what holds of every client, and the rest.      *)
Sound(c) == Idle(c) /\ LateOnce(c) /\ Once(c) /\ PassedOn(c) /\ NoGap(c)
BusInv == TypeOK /\ Offers /\ \A c \in Consumers : Sound(c)

(* What a consumer that only reads the history has got.                    *)
HistoryInv ==
  /\ last \in [Consumers -> Nat] /\ processed \in [Consumers -> SUBSET Nat]
  /\ \A c \in Consumers : last[c] <= Len(log)
  /\ PagesHaveNoHole

-----------------------------------------------------------------------------
(* What becomes of the items of a queue when one is added at its end or    *)
(* taken from its front.                                                   *)
LEMMA ItemAdded ==
  ASSUME NEW S, NEW s \in Seq(S), NEW x \in S
  PROVE  /\ Append(s, x) \in Seq(S) /\ Len(Append(s, x)) = Len(s) + 1
         /\ Items(Append(s, x)) = Items(s) \cup {x}
         /\ Distinct(s) /\ x \notin Items(s) => Distinct(Append(s, x))
<1>1. /\ Append(s, x) \in Seq(S) /\ Len(Append(s, x)) = Len(s) + 1
      /\ \A i \in 1..Len(s) : Append(s, x)[i] = s[i]
      /\ Append(s, x)[Len(s) + 1] = x
  OBVIOUS
<1>2. DOMAIN s = 1..Len(s) /\ DOMAIN Append(s, x) = 1..(Len(s) + 1) /\ Len(s) \in Nat
  BY <1>1
<1>3. Items(Append(s, x)) = Items(s) \cup {x}
  <2>1. \A i \in DOMAIN s : i \in DOMAIN Append(s, x) /\ Append(s, x)[i] = s[i]
    BY <1>1, <1>2
  <2>2. \A i \in DOMAIN Append(s, x) : i \in DOMAIN s \/ i = Len(s) + 1
    BY <1>2
  <2>3. Len(s) + 1 \in DOMAIN Append(s, x)
    BY <1>2
  <2> QED BY <1>1, <2>1, <2>2, <2>3 DEF Items
<1>4. ASSUME Distinct(s), x \notin Items(s) PROVE Distinct(Append(s, x))
  BY <1>1, <1>2, <1>4 DEF Distinct, Items
<1> QED BY <1>1, <1>3, <1>4

(* The front of a queue is one of its items, and no other is the same.     *)
LEMMA ItemTaken ==
  ASSUME NEW S, NEW s \in Seq(S), s # <<>>
  PROVE  /\ Tail(s) \in Seq(S) /\ Head(s) \in S /\ Len(Tail(s)) = Len(s) - 1
         /\ Items(s) = Items(Tail(s)) \cup {Head(s)}
         /\ Distinct(s) => Distinct(Tail(s)) /\ Head(s) \notin Items(Tail(s))
<1>1. /\ Tail(s) \in Seq(S) /\ Len(Tail(s)) = Len(s) - 1 /\ Head(s) = s[1] /\ Len(s) >= 1
      /\ Len(s) \in Nat /\ \A i \in 1..(Len(s) - 1) : Tail(s)[i] = s[i + 1]
  OBVIOUS
<1>2. DOMAIN s = 1..Len(s) /\ DOMAIN Tail(s) = 1..(Len(s) - 1)
  BY <1>1
<1>3. Items(s) = Items(Tail(s)) \cup {Head(s)}
  <2>1. ASSUME NEW i \in DOMAIN s PROVE s[i] \in Items(Tail(s)) \cup {Head(s)}
    <3>1. CASE i = 1
      BY <1>1, <3>1
    <3>2. CASE i # 1
      <4>1. i - 1 \in DOMAIN Tail(s) /\ Tail(s)[i - 1] = s[i]
        BY <1>1, <1>2, <3>2
      <4> QED BY <4>1 DEF Items
    <3> QED BY <3>1, <3>2
  <2>2. ASSUME NEW i \in DOMAIN Tail(s) PROVE Tail(s)[i] \in Items(s)
    <3>1. i + 1 \in DOMAIN s /\ s[i + 1] = Tail(s)[i]
      BY <1>1, <1>2
    <3> QED BY <3>1 DEF Items
  <2>3. Head(s) \in Items(s)
    BY <1>1, <1>2 DEF Items
  <2> QED BY <2>1, <2>2, <2>3 DEF Items
<1>4. ASSUME Distinct(s) PROVE Distinct(Tail(s)) /\ Head(s) \notin Items(Tail(s))
  BY <1>1, <1>2, <1>4 DEF Distinct, Items
<1>5. Head(s) \in S
  BY <1>1
<1> QED BY <1>1, <1>3, <1>4, <1>5

(* An empty queue.                                                         *)
LEMMA NoItems == Items(<<>>) = {} /\ Distinct(<<>>)
BY DEF Items, Distinct

(* Items are of the type of the sequence.                                  *)
LEMMA ItemsIn ==
  ASSUME NEW S, NEW s \in Seq(S)
  PROVE  Items(s) \subseteq S
BY DEF Items

(* A longer log only has more cursors.                                     *)
LEMMA QueueGrows ==
  ASSUME NEW m \in Nat, NEW n \in Nat, n <= m
  PROVE  Seq(1..n) \subseteq Seq(1..m)
OBVIOUS

-----------------------------------------------------------------------------
(* A client that a step does not touch stays sound.                        *)
LEMMA Untouched ==
  ASSUME BusInv, NEW d \in Consumers, log' = log, pub' = pub,
         \A p \in Publishers : targets'[p] \cap {d, "all"} = targets[p] \cap {d, "all"},
         conn'[d] = conn[d], topics'[d] = topics[d], queue'[d] = queue[d], done'[d] = done[d],
         writing'[d] = writing[d], session'[d] = session[d], stream'[d] = stream[d],
         late'[d] = late[d], since'[d] = since[d], opened'[d] = opened[d], d \in hub => d \in hub'
  PROVE  Sound(d)'
<1>1. Sound(d)
  BY DEF BusInv
<1>2. Idle(d)'
  BY <1>1 DEF Sound, Idle, NotYet
<1>3. LateOnce(d)' /\ Once(d)'
  BY <1>1 DEF Sound, LateOnce, Once
<1>4. \A e : OfferedTo(d, e)' <=> OfferedTo(d, e)
  BY DEF OfferedTo
<1>5. OnItsWay(d)' = OnItsWay(d) /\ Cursors' = Cursors
  BY DEF OnItsWay, Cursors
<1>6. PassedOn(d)'
  BY <1>1, <1>4, <1>5 DEF Sound, PassedOn
<1>7. NoGap(d)'
  BY <1>1, <1>4, <1>5 DEF Sound, NoGap
<1> QED BY <1>2, <1>3, <1>6, <1>7 DEF Sound

-----------------------------------------------------------------------------
(* Publish.  The new event was offered to nobody yet.                      *)
LEMMA AppendKeeps ==
  ASSUME BusInv, NEW p \in Publishers, NEW t \in Topics, AppendEvent(p, t)
  PROVE  BusInv'
<1> DEFINE n == Len(log)
<1>1. /\ pub[p] = 0 /\ n < MaxEvents /\ log' = Append(log, t)
      /\ pub' = [pub EXCEPT ![p] = n + 1] /\ targets' = [targets EXCEPT ![p] = {"all"}]
      /\ UNCHANGED <<server, session, history, opened>>
  BY DEF AppendEvent
<1>2. /\ log \in Seq(Topics) /\ n \in Nat /\ Len(log') = n + 1 /\ log' \in Seq(Topics)
      /\ \A e \in 1..n : log'[e] = log[e]
  BY <1>1 DEF BusInv, TypeOK
<1>3. Cursors = 1..n /\ Cursors' = 1..(n + 1) /\ Seq(Cursors) \subseteq Seq(Cursors')
  BY <1>2, QueueGrows DEF Cursors
<1>4. TypeOK'
  <2>1. /\ pub' \in [Publishers -> 0..Len(log')] /\ writing' \in [Consumers -> 0..Len(log')]
        /\ targets' \in [Publishers -> SUBSET (Consumers \cup {"all"})]
    BY <1>1, <1>2 DEF BusInv, TypeOK, server
  <2>2. queue' \in [Consumers -> Seq(Cursors')] /\ stream' \in [Consumers -> Seq(Cursors')]
    BY <1>1, <1>3 DEF BusInv, TypeOK, server, history
  <2>3. Len(log') <= MaxEvents
    BY <1>1, <1>2, BusAssumption
  <2> QED BY <1>1, <1>2, <2>1, <2>2, <2>3 DEF BusInv, TypeOK, server, history
<1>5. Offers'
  <2>1. \A q \in Publishers : pub[q] \in 0..n
    BY <1>2 DEF BusInv, TypeOK
  <2>2. \A q, r \in Publishers : (pub'[q] = pub'[r] /\ pub'[q] # 0) => q = r
    BY <1>1, <1>2, <2>1 DEF BusInv, Offers, TypeOK
  <2>3. ASSUME NEW q \in Publishers
        PROVE  /\ targets'[q] # {} => pub'[q] # 0
               /\ "all" \in targets'[q] => targets'[q] = {"all"}
               /\ \A c \in targets'[q] \cap Consumers : conn'[c] = "open"
    BY <1>1, <1>2, BusAssumption DEF BusInv, Offers, TypeOK, server
  <2> QED BY <2>2, <2>3 DEF Offers
<1>6. ASSUME NEW c \in Consumers PROVE Sound(c)'
  <2>1. Sound(c) /\ UNCHANGED <<server, session, history, opened>>
    BY <1>1 DEF BusInv
  <2>2. Idle(c)' /\ LateOnce(c)' /\ Once(c)'
    BY <2>1 DEF Sound, Idle, LateOnce, Once, server, history, NotYet
  <2>3. OnItsWay(c)' = OnItsWay(c) /\ OnItsWay(c) \subseteq 0..n
    <3>1. Items(stream[c]) \subseteq Cursors /\ Items(queue[c]) \subseteq Cursors
      BY ItemsIn DEF BusInv, TypeOK
    <3> QED BY <1>2, <1>3, <2>1, <3>1 DEF OnItsWay, server, history, BusInv, TypeOK
  <2>4. /\ pub'[p] = n + 1 /\ targets'[p] = {"all"}
        /\ \A q \in Publishers \ {p} : pub'[q] = pub[q] /\ targets'[q] = targets[q]
    BY <1>1 DEF BusInv, TypeOK
  <2>5. \A e \in 1..n : OfferedTo(c, e)' <=> OfferedTo(c, e)
    BY <1>1, <1>2, <2>4 DEF OfferedTo
  <2>6. \A e : e = n + 1 => ~OfferedTo(c, e)'
    BY <2>4 DEF OfferedTo
  <2>7. PassedOn(c)'
    BY <1>2, <2>1, <2>3, <2>5 DEF Sound, PassedOn
  <2>8. NoGap(c)'
    <3> SUFFICES ASSUME conn[c] = "open", ~done[c], NEW e \in 1..(n + 1), log'[e] \in Visible,
                        since[c][log'[e]] <= e, OfferedTo(c, e)'
                 PROVE  e \in OnItsWay(c)
      BY <1>3, <2>1, <2>3 DEF NoGap, server, history
    <3>1. e \in 1..n
      BY <1>2, <2>6
    <3>2. OfferedTo(c, e) /\ log'[e] = log[e]
      BY <1>2, <2>5, <3>1
    <3> QED BY <1>3, <2>1, <3>1, <3>2 DEF Sound, NoGap
  <2> QED BY <2>2, <2>7, <2>8 DEF Sound
<1> QED BY <1>4, <1>5, <1>6 DEF BusInv

(* The snapshot holds every client that is not marked as too slow.         *)
LEMMA SnapshotKeeps ==
  ASSUME BusInv, NEW p \in Publishers, Snapshot(p)
  PROVE  BusInv'
<1>1. /\ "all" \in targets[p] /\ targets' = [targets EXCEPT ![p] = hub]
      /\ UNCHANGED <<log, pub, server, session, history, opened>>
  BY DEF Snapshot
<1>2. /\ targets'[p] = hub /\ \A q \in Publishers \ {p} : targets'[q] = targets[q]
      /\ targets' \in [Publishers -> SUBSET (Consumers \cup {"all"})]
  BY <1>1 DEF BusInv, TypeOK
<1>3. TypeOK'
  BY <1>1, <1>2 DEF BusInv, TypeOK, server, history, Cursors
<1>4. Offers'
  <2>1. ASSUME NEW q \in Publishers
        PROVE  /\ targets'[q] # {} => pub'[q] # 0
               /\ "all" \in targets'[q] => targets'[q] = {"all"}
               /\ \A c \in targets'[q] \cap Consumers : conn'[c] = "open"
    BY <1>1, <1>2, BusAssumption DEF BusInv, Offers, TypeOK, server
  <2> QED BY <1>1, <2>1 DEF BusInv, Offers
<1>5. ASSUME NEW c \in Consumers PROVE Sound(c)'
  <2>1. Sound(c) /\ UNCHANGED <<log, pub, server, session, history, opened>>
    BY <1>1 DEF BusInv
  <2>2. Idle(c)' /\ LateOnce(c)' /\ Once(c)'
    BY <2>1 DEF Sound, Idle, LateOnce, Once, server, history, NotYet
  <2>3. OnItsWay(c)' = OnItsWay(c) /\ Cursors' = Cursors
    BY <2>1 DEF OnItsWay, Cursors, server, history
  <2>4. \A e : OfferedTo(c, e) => OfferedTo(c, e)'
    BY <1>1, <1>2 DEF OfferedTo
  <2>5. PassedOn(c)'
    BY <2>1, <2>3, <2>4 DEF Sound, PassedOn
  <2>6. (conn[c] = "open" /\ ~done[c]) => \A e : OfferedTo(c, e)' => OfferedTo(c, e)
    <3> SUFFICES ASSUME c \in hub, NEW e, OfferedTo(c, e)' PROVE OfferedTo(c, e)
      BY <2>1 DEF Sound, Idle
    <3>1. pub[p] # e
      BY <1>1, <1>2 DEF OfferedTo
    <3> QED BY <1>1, <1>2, <3>1 DEF OfferedTo
  <2>7. NoGap(c)'
    BY <2>1, <2>3, <2>6 DEF Sound, NoGap, server, history
  <2> QED BY <2>2, <2>5, <2>7 DEF Sound
<1> QED BY <1>3, <1>4, <1>5 DEF BusInv

(* The publisher is through.                                               *)
LEMMA PublishedKeeps ==
  ASSUME BusInv, NEW p \in Publishers, Published(p)
  PROVE  BusInv'
<1>1. /\ pub[p] # 0 /\ targets[p] = {} /\ pub' = [pub EXCEPT ![p] = 0]
      /\ UNCHANGED <<log, targets, server, session, history, opened>>
  BY DEF Published
<1>2. /\ pub'[p] = 0 /\ \A q \in Publishers \ {p} : pub'[q] = pub[q]
      /\ pub' \in [Publishers -> 0..Len(log)]
  BY <1>1 DEF BusInv, TypeOK
<1>3. TypeOK'
  BY <1>1, <1>2 DEF BusInv, TypeOK, server, history, Cursors
<1>4. Offers'
  <2>1. ASSUME NEW q \in Publishers
        PROVE  /\ targets'[q] # {} => pub'[q] # 0
               /\ "all" \in targets'[q] => targets'[q] = {"all"}
               /\ \A c \in targets'[q] \cap Consumers : conn'[c] = "open"
    BY <1>1, <1>2 DEF BusInv, Offers, server
  <2> QED BY <1>2, <2>1 DEF BusInv, Offers
<1>5. ASSUME NEW c \in Consumers PROVE Sound(c)'
  <2>1. Sound(c) /\ UNCHANGED <<log, targets, server, session, history, opened>>
    BY <1>1 DEF BusInv
  <2>2. Idle(c)' /\ LateOnce(c)' /\ Once(c)'
    BY <2>1 DEF Sound, Idle, LateOnce, Once, server, history, NotYet
  <2>3. OnItsWay(c)' = OnItsWay(c) /\ Cursors' = Cursors /\ 0 \notin Cursors
    BY <2>1 DEF OnItsWay, Cursors, server, history
  <2>4. \A e : e # 0 => (OfferedTo(c, e)' <=> OfferedTo(c, e))
    BY <1>1, <1>2 DEF OfferedTo
  <2>5. PassedOn(c)'
    BY <2>1, <2>3, <2>4 DEF Sound, PassedOn
  <2>6. NoGap(c)'
    BY <2>1, <2>3, <2>4 DEF Sound, NoGap, server, history
  <2> QED BY <2>2, <2>5, <2>6 DEF Sound
<1> QED BY <1>3, <1>4, <1>5 DEF BusInv

(* An offer: the client does not listen to the topic, gets the event, or   *)
(* is given up; from now on the publisher is past it.                      *)
LEMMA OfferKeeps ==
  ASSUME BusInv, NEW p \in Publishers, NEW c \in Consumers, Offer(p, c)
  PROVE  BusInv'
<1>1. /\ c \in targets[p] /\ targets' = [targets EXCEPT ![p] = @ \ {c}]
      /\ UNCHANGED <<log, pub, conn, topics, writing, session, history, opened>>
      /\ (~Matches(p, c) /\ Quiet) \/ (Matches(p, c) /\ (Send(p, c) \/ Drop(c)))
  BY DEF Offer
<1>2. PICK event \in Nat : pub[p] = event
  BY DEF BusInv, TypeOK
<1>3. /\ targets'[p] = targets[p] \ {c}
      /\ \A q \in Publishers \ {p} : targets'[q] = targets[q] /\ pub[q] # event
      /\ targets' \in [Publishers -> SUBSET (Consumers \cup {"all"})]
      /\ "all" \notin targets[p] /\ event # 0 /\ conn[c] = "open" /\ c # "all"
      /\ event \in Cursors
  BY <1>1, <1>2, BusAssumption DEF BusInv, TypeOK, Offers, Cursors
<1>4. OfferedTo(c, event)' /\ ~OfferedTo(c, event)
      /\ \A e : e # event => (OfferedTo(c, e)' <=> OfferedTo(c, e))
  BY <1>1, <1>2, <1>3 DEF OfferedTo
<1>5. Sound(c) /\ event \notin OnItsWay(c)
  BY <1>3, <1>4 DEF BusInv, Sound, PassedOn
<1>6. Offers'
  <2>1. ASSUME NEW q \in Publishers
        PROVE  /\ targets'[q] # {} => pub'[q] # 0
               /\ "all" \in targets'[q] => targets'[q] = {"all"}
               /\ \A d \in targets'[q] \cap Consumers : conn'[d] = "open"
    BY <1>1, <1>3 DEF BusInv, Offers
  <2> QED BY <1>1, <2>1 DEF BusInv, Offers
<1>7. Cursors' = Cursors /\ NotYet' = NotYet /\ log' = log
  BY <1>1 DEF Cursors, NotYet
<1>8. ASSUME NEW d \in Consumers \ {c}, queue'[d] = queue[d], done'[d] = done[d], d \in hub => d \in hub'
      PROVE  Sound(d)'
  <2>1. \A q \in Publishers : targets'[q] \cap {d, "all"} = targets[q] \cap {d, "all"}
    BY <1>3
  <2> QED BY <1>1, <1>8, <2>1, Untouched DEF history
<1>9. CASE ~Matches(p, c) /\ Quiet
  <2>1. TypeOK'
    BY <1>1, <1>3, <1>7, <1>9 DEF BusInv, TypeOK, Quiet, history
  <2>2. Idle(c)' /\ LateOnce(c)' /\ Once(c)' /\ OnItsWay(c)' = OnItsWay(c)
    BY <1>1, <1>5, <1>9 DEF Quiet, Sound, Idle, LateOnce, Once, OnItsWay, history, NotYet
  <2>3. PassedOn(c)'
    BY <1>4, <1>5, <2>2 DEF Sound, PassedOn
  <2>4. since[c][log[event]] = NotYet /\ NotYet > event
    BY <1>2, <1>3, <1>5, <1>9, BusAssumption DEF Matches, Sound, Idle, NotYet, BusInv, TypeOK,
      Cursors
  <2>5. NoGap(c)'
    <3> SUFFICES ASSUME conn[c] = "open", ~done[c], NEW e \in Cursors, log[e] \in Visible,
                        since[c][log[e]] <= e, OfferedTo(c, e)'
                 PROVE  e \in OnItsWay(c)
      BY <1>1, <1>7, <1>9, <2>2 DEF NoGap, history, Quiet
    <3>1. e # event
      BY <1>3, <2>4 DEF NotYet, Cursors, BusInv, TypeOK
    <3> QED BY <1>4, <1>5, <3>1 DEF Sound, NoGap
  <2>6. \A d \in Consumers : Sound(d)'
    BY <1>8, <1>9, <2>2, <2>3, <2>5 DEF Quiet, Sound
  <2> QED BY <1>6, <2>1, <2>6 DEF BusInv
<1>10. CASE Send(p, c)
  <2>1. /\ queue' = [queue EXCEPT ![c] = Append(@, event)] /\ hub' = hub /\ done' = done
        /\ Len(queue[c]) < Capacity /\ queue[c] \in Seq(Cursors)
    BY <1>2, <1>10 DEF Send, BusInv, TypeOK
  <2>2. /\ queue'[c] = Append(queue[c], event) /\ queue'[c] \in Seq(Cursors)
        /\ Len(queue'[c]) = Len(queue[c]) + 1 /\ Items(queue'[c]) = Items(queue[c]) \cup {event}
        /\ (Distinct(queue[c]) /\ event \notin Items(queue[c])) => Distinct(queue'[c])
        /\ \A d \in Consumers \ {c} : queue'[d] = queue[d]
    <3>1. queue'[c] = Append(queue[c], event) /\ \A d \in Consumers \ {c} : queue'[d] = queue[d]
      BY <2>1 DEF BusInv, TypeOK
    <3> QED BY <1>3, <2>1, <3>1, ItemAdded
  <2>3. queue' \in [Consumers -> Seq(Cursors)] /\ \A d \in Consumers : Len(queue'[d]) <= Capacity
    BY <2>1, <2>2, BusAssumption DEF BusInv, TypeOK
  <2>4. TypeOK'
    BY <1>1, <1>3, <1>7, <2>1, <2>3 DEF BusInv, TypeOK, history
  <2>5. Idle(c)' /\ LateOnce(c)'
    BY <1>1, <1>3, <1>5, <2>1 DEF Sound, Idle, LateOnce, history, NotYet
  <2>6. Once(c)' /\ OnItsWay(c)' = OnItsWay(c) \cup {event}
    BY <1>1, <1>5, <2>2 DEF Sound, Once, OnItsWay, history
  <2>7. PassedOn(c)'
    BY <1>4, <1>5, <2>6 DEF Sound, PassedOn
  <2>8. NoGap(c)'
    BY <1>1, <1>4, <1>5, <1>7, <2>1, <2>6 DEF Sound, NoGap, history
  <2>9. \A d \in Consumers : Sound(d)'
    BY <1>8, <2>1, <2>2, <2>5, <2>6, <2>7, <2>8 DEF Sound
  <2> QED BY <1>6, <2>4, <2>9 DEF BusInv
<1>11. CASE Drop(c)
  <2>1. /\ hub' = hub \ {c} /\ queue' = queue /\ done'[c] = TRUE /\ done' \in [Consumers -> BOOLEAN]
        /\ \A d \in Consumers \ {c} : done'[d] = done[d]
    BY <1>11 DEF Drop, BusInv, TypeOK
  <2>2. TypeOK'
    BY <1>1, <1>3, <1>7, <2>1 DEF BusInv, TypeOK, history
  <2>3. Idle(c)' /\ LateOnce(c)' /\ Once(c)' /\ OnItsWay(c)' = OnItsWay(c)
    BY <1>1, <1>5, <2>1 DEF Sound, Idle, LateOnce, Once, OnItsWay, history, NotYet
  <2>4. PassedOn(c)' /\ NoGap(c)'
    BY <1>4, <1>5, <2>1, <2>3 DEF Sound, PassedOn, NoGap
  <2>5. \A d \in Consumers : Sound(d)'
    BY <1>8, <2>1, <2>3, <2>4 DEF Sound
  <2> QED BY <1>6, <2>2, <2>5 DEF BusInv
<1> QED BY <1>1, <1>9, <1>10, <1>11

-----------------------------------------------------------------------------
(* A step of one client that leaves the publishers alone keeps BusInv when *)
(* it keeps the types and that client sound.                               *)
LEMMA ClientMoves ==
  ASSUME BusInv, NEW c \in Consumers, TypeOK', Sound(c)', log' = log, pub' = pub, targets' = targets,
         conn[c] = "open" => conn'[c] = "open",
         \A d \in Consumers \ {c} :
           /\ conn'[d] = conn[d] /\ topics'[d] = topics[d] /\ queue'[d] = queue[d]
           /\ done'[d] = done[d] /\ writing'[d] = writing[d] /\ session'[d] = session[d]
           /\ stream'[d] = stream[d] /\ late'[d] = late[d] /\ since'[d] = since[d]
           /\ opened'[d] = opened[d] /\ (d \in hub => d \in hub')
  PROVE  BusInv'
<1>1. ASSUME NEW d \in Consumers PROVE Sound(d)'
  <2>1. CASE d # c
    BY <2>1, Untouched
  <2> QED BY <2>1
<1>2. Offers'
  BY DEF BusInv, Offers
<1> QED BY <1>1, <1>2 DEF BusInv

(* Connecting, and the login session.                                      *)
LEMMA GreetKeeps ==
  ASSUME BusInv, NEW c \in Consumers, Greet(c)
  PROVE  BusInv'
<1>1. /\ conn[c] = "away" /\ session[c] /\ opened[c] < MaxSessions
      /\ conn' = [conn EXCEPT ![c] = "greeted"] /\ opened' = [opened EXCEPT ![c] = @ + 1]
      /\ UNCHANGED <<log, pub, targets, hub, topics, queue, done, writing, session, history>>
  BY DEF Greet
<1>2. Sound(c) /\ Cursors' = Cursors /\ opened[c] \in Nat
  BY <1>1 DEF BusInv, TypeOK, Cursors
<1>3. /\ conn'[c] = "greeted" /\ opened'[c] = opened[c] + 1
      /\ \A d \in Consumers \ {c} : conn'[d] = conn[d] /\ opened'[d] = opened[d]
      /\ hub \subseteq {d \in Consumers : conn'[d] = "open"}
  BY <1>1 DEF BusInv, TypeOK
<1>4. TypeOK'
  <2>1. MaxSessions \in Nat /\ opened[c] + 1 \in 0..MaxSessions
    BY <1>1, <1>2, BusAssumption
  <2>2. opened' \in [Consumers -> 0..MaxSessions]
    BY <1>1, <2>1 DEF BusInv, TypeOK
  <2>3. conn' \in [Consumers -> {"away", "greeted", "open"}]
    BY <1>1 DEF BusInv, TypeOK
  <2> QED BY <1>1, <1>2, <1>3, <2>2, <2>3 DEF BusInv, TypeOK, history
<1>5. Idle(c)' /\ LateOnce(c)' /\ Once(c)' /\ NoGap(c)'
  BY <1>1, <1>2, <1>3 DEF Sound, Idle, LateOnce, Once, NoGap, history, NotYet
<1>6. PassedOn(c)'
  BY <1>1, <1>2 DEF Sound, PassedOn, OnItsWay, OfferedTo, history
<1> QED BY <1>1, <1>3, <1>4, <1>5, <1>6, ClientMoves DEF Sound, history

(* The hub takes the client in.                                            *)
LEMMA RegisterKeeps ==
  ASSUME BusInv, NEW c \in Consumers, Register(c)
  PROVE  BusInv'
<1>1. /\ conn[c] = "greeted" /\ conn' = [conn EXCEPT ![c] = "open"] /\ hub' = hub \cup {c}
      /\ UNCHANGED <<log, pub, targets, topics, queue, done, writing, session, history, opened>>
  BY DEF Register
<1>2. Sound(c) /\ Cursors' = Cursors
  BY <1>1 DEF BusInv, TypeOK, Cursors
<1>3. /\ conn'[c] = "open" /\ \A d \in Consumers \ {c} : conn'[d] = conn[d]
      /\ hub' \subseteq {d \in Consumers : conn'[d] = "open"}
  BY <1>1 DEF BusInv, TypeOK
<1>4. TypeOK'
  BY <1>1, <1>2, <1>3 DEF BusInv, TypeOK, history
<1>5. Idle(c)' /\ LateOnce(c)' /\ Once(c)'
  BY <1>1, <1>2, <1>3 DEF Sound, Idle, LateOnce, Once, history, NotYet
<1>6. PassedOn(c)'
  BY <1>1, <1>2 DEF Sound, PassedOn, OnItsWay, OfferedTo, history
<1>7. NoGap(c)'
  <2>1. \A e \in Cursors : log[e] \in Topics => since[c][log[e]] = NotYet
    BY <1>1, <1>2 DEF Sound, Idle
  <2>2. \A e \in Cursors : log[e] \in Topics /\ e < NotYet
    BY BusAssumption DEF BusInv, TypeOK, Cursors, NotYet
  <2>3. \A e \in Cursors : e \in Nat /\ NotYet \in Nat
    BY BusAssumption DEF BusInv, TypeOK, Cursors, NotYet
  <2>4. \A e \in Cursors : ~(since[c][log[e]] <= e)
    BY <2>1, <2>2, <2>3
  <2> QED BY <1>1, <1>2, <2>4 DEF NoGap, history
<1> QED BY <1>1, <1>3, <1>4, <1>5, <1>6, <1>7, ClientMoves DEF Sound, history

(* A session that ends or begins anew.                                     *)
LEMMA SessionKeeps ==
  ASSUME BusInv, NEW c \in Consumers, EndSession(c) \/ LogIn(c)
  PROVE  BusInv'
<1>1. /\ UNCHANGED <<log, pub, targets, server, history, opened>>
      /\ session' \in [Consumers -> BOOLEAN] /\ \A d \in Consumers \ {c} : session'[d] = session[d]
      /\ session'[c] = FALSE \/ conn[c] = "away"
  BY DEF EndSession, LogIn, BusInv, TypeOK
<1>2. Sound(c) /\ Cursors' = Cursors
  BY <1>1 DEF BusInv, TypeOK, Cursors
<1>3. TypeOK'
  BY <1>1, <1>2 DEF BusInv, TypeOK, server, history
<1>4. Idle(c)' /\ LateOnce(c)' /\ Once(c)'
  BY <1>1, <1>2 DEF Sound, Idle, LateOnce, Once, server, history, NotYet
<1>5. PassedOn(c)' /\ NoGap(c)'
  BY <1>1, <1>2 DEF Sound, PassedOn, NoGap, OnItsWay, OfferedTo, server, history
<1> QED BY <1>1, <1>3, <1>4, <1>5, ClientMoves DEF Sound, server, history

(* A topic counts from the moment it is subscribed.                        *)
LEMMA TopicsKeep ==
  ASSUME BusInv, NEW c \in Consumers, NEW t \in Topics, Subscribe(c, t) \/ Unsubscribe(c, t)
  PROVE  BusInv'
<1>1. /\ conn[c] = "open"
      /\ UNCHANGED <<log, pub, targets, hub, conn, queue, done, writing, session, stream, late, opened>>
  BY DEF Subscribe, Unsubscribe, Selecting
<1>2. Sound(c) /\ Cursors' = Cursors /\ NotYet \in Nat /\ Len(log) \in Nat /\ Len(log) <= MaxEvents
  BY <1>1, BusAssumption DEF BusInv, TypeOK, Cursors, NotYet
<1>3. /\ topics' \in [Consumers -> SUBSET Topics] /\ since' \in [Consumers -> [Topics -> Nat]]
      /\ \A d \in Consumers \ {c} : topics'[d] = topics[d] /\ since'[d] = since[d]
      /\ \A u \in Topics \ {t} : since'[c][u] = since[c][u] /\ (u \in topics'[c] <=> u \in topics[c])
      /\ \/ since'[c][t] = since[c][t] /\ t \in topics'[c]
         \/ since'[c][t] = Len(log) + 1 /\ t \in topics'[c]
         \/ since'[c][t] = NotYet
  <2>1. CASE Subscribe(c, t)
    BY <1>2, <2>1 DEF Subscribe, BusInv, TypeOK
  <2>2. CASE Unsubscribe(c, t)
    BY <1>2, <2>2 DEF Unsubscribe, BusInv, TypeOK
  <2> QED BY <2>1, <2>2
<1>4. TypeOK'
  BY <1>1, <1>2, <1>3 DEF BusInv, TypeOK
<1>5. Idle(c)' /\ LateOnce(c)' /\ Once(c)'
  BY <1>1, <1>2, <1>3 DEF Sound, Idle, LateOnce, Once, NotYet
<1>6. PassedOn(c)'
  BY <1>1, <1>2 DEF Sound, PassedOn, OnItsWay, OfferedTo
<1>7. NoGap(c)'
  <2> SUFFICES ASSUME ~done[c], NEW e \in Cursors, log[e] \in Visible, since'[c][log[e]] <= e,
                      OfferedTo(c, e)'
               PROVE  e \in OnItsWay(c)'
    BY <1>1, <1>2 DEF NoGap
  <2>1. OfferedTo(c, e) /\ OnItsWay(c)' = OnItsWay(c)
    BY <1>1 DEF OfferedTo, OnItsWay
  <2>2. log[e] \in Topics /\ e <= Len(log) /\ e \in Nat
    BY DEF BusInv, TypeOK, Cursors
  <2>3. since'[c][log[e]] = since[c][log[e]]
    BY <1>2, <1>3, <2>2, BusAssumption DEF NotYet
  <2> QED BY <1>1, <1>2, <2>1, <2>3 DEF Sound, NoGap
<1> QED BY <1>1, <1>3, <1>4, <1>5, <1>6, <1>7, ClientMoves DEF Sound

(* The message taken from the queue is the one being written, or one the   *)
(* actor may not see; no session, no message.                              *)
LEMMA TakeKeeps ==
  ASSUME BusInv, NEW c \in Consumers, Take(c)
  PROVE  BusInv'
<1> DEFINE event == IF log[Head(queue[c])] \in Visible THEN Head(queue[c]) ELSE 0
<1>1. /\ conn[c] = "open" /\ writing[c] = 0 /\ queue[c] # <<>> /\ session[c]
      /\ queue' = [queue EXCEPT ![c] = Tail(@)] /\ writing' = [writing EXCEPT ![c] = event]
      /\ UNCHANGED <<log, pub, targets, hub, conn, topics, done, session, history, opened>>
  BY DEF Take, Selecting, Taken
<1>2. Sound(c) /\ Cursors' = Cursors /\ queue[c] \in Seq(Cursors) /\ Items(stream[c]) \subseteq Cursors
  BY <1>1, ItemsIn DEF BusInv, TypeOK, Cursors
<1>3. PICK head \in Cursors : head = Head(queue[c])
  BY <1>1, <1>2, ItemTaken
<1>4. /\ Tail(queue[c]) \in Seq(Cursors) /\ Len(Tail(queue[c])) = Len(queue[c]) - 1
      /\ Items(queue[c]) = Items(Tail(queue[c])) \cup {head}
      /\ Distinct(queue[c]) => Distinct(Tail(queue[c])) /\ head \notin Items(Tail(queue[c]))
  BY <1>1, <1>2, <1>3, ItemTaken
<1>5. /\ queue'[c] = Tail(queue[c]) /\ \A d \in Consumers \ {c} : queue'[d] = queue[d]
      /\ queue' \in [Consumers -> Seq(Cursors)]
  BY <1>1, <1>4 DEF BusInv, TypeOK
<1>6. event \in {0, head} /\ (log[head] \in Visible => event = head)
  BY <1>3
<1> HIDE DEF event
<1>7. /\ writing'[c] = event /\ \A d \in Consumers \ {c} : writing'[d] = writing[d]
      /\ writing' \in [Consumers -> 0..Len(log)]
  BY <1>1, <1>6 DEF BusInv, TypeOK, Cursors
<1>8. TypeOK'
  <2>1. \A d \in Consumers : Len(queue'[d]) <= Capacity
    <3>1. Len(queue[c]) \in Nat /\ Len(queue[c]) <= Capacity
      BY <1>2 DEF BusInv, TypeOK
    <3>2. Len(queue'[c]) <= Capacity
      BY <1>4, <1>5, <3>1, BusAssumption
    <3> QED BY <1>5, <3>2 DEF BusInv, TypeOK
  <2> QED BY <1>1, <1>2, <1>5, <1>7, <2>1 DEF BusInv, TypeOK, history
<1>9. Idle(c)' /\ LateOnce(c)'
  BY <1>1, <1>2 DEF Sound, Idle, LateOnce, history, NotYet
<1>10. 0 \notin Cursors /\ Items(queue'[c]) \subseteq Items(queue[c]) /\ Items(queue[c]) \subseteq Cursors
  BY <1>2, <1>4, <1>5, ItemsIn DEF Cursors
<1>11. Once(c)'
  <2>1. Distinct(queue'[c]) /\ head \notin Items(queue'[c]) /\ head \notin Items(stream[c])
    BY <1>2, <1>4, <1>5 DEF Sound, Once
  <2> QED BY <1>1, <1>2, <1>6, <1>7, <1>10, <2>1 DEF Sound, Once, history
<1>12. /\ OnItsWay(c)' \subseteq OnItsWay(c)
       /\ \A e \in OnItsWay(c) : (e # 0 /\ log[e] \in Visible) => e \in OnItsWay(c)'
  BY <1>1, <1>4, <1>5, <1>6, <1>7 DEF OnItsWay, history
<1>13. \A e : OfferedTo(c, e)' <=> OfferedTo(c, e)
  BY <1>1 DEF OfferedTo
<1>14. PassedOn(c)'
  BY <1>2, <1>12, <1>13 DEF Sound, PassedOn
<1>15. NoGap(c)'
  BY <1>1, <1>2, <1>10, <1>12, <1>13 DEF Sound, NoGap, history
<1> QED BY <1>1, <1>5, <1>7, <1>8, <1>9, <1>11, <1>14, <1>15, ClientMoves DEF Sound, history

(* The message is written.                                                 *)
LEMMA WriteKeeps ==
  ASSUME BusInv, NEW c \in Consumers, Write(c)
  PROVE  BusInv'
<1>1. /\ writing[c] # 0 /\ writing' = [writing EXCEPT ![c] = 0]
      /\ stream' = [stream EXCEPT ![c] = Append(@, writing[c])]
      /\ late' = [late EXCEPT ![c] = IF session[c] THEN @ ELSE @ + 1]
      /\ UNCHANGED <<log, pub, targets, hub, conn, topics, queue, done, session, since, opened>>
  BY DEF Write
<1>2. /\ Sound(c) /\ Cursors' = Cursors /\ stream[c] \in Seq(Cursors)
      /\ writing[c] \in Cursors /\ Items(queue[c]) \subseteq Cursors /\ 0 \notin Cursors
  BY <1>1, ItemsIn DEF BusInv, TypeOK, Cursors
<1>3. /\ stream'[c] = Append(stream[c], writing[c]) /\ writing'[c] = 0
      /\ \A d \in Consumers \ {c} : /\ stream'[d] = stream[d] /\ writing'[d] = writing[d]
                                    /\ late'[d] = late[d]
      /\ late[c] = 0 /\ (session[c] => late'[c] = 0) /\ late'[c] <= 1 /\ late' \in [Consumers -> Nat]
      /\ writing' \in [Consumers -> 0..Len(log)]
  BY <1>1, <1>2 DEF BusInv, TypeOK, Sound, LateOnce
<1>4. /\ stream'[c] \in Seq(Cursors) /\ Items(stream'[c]) = Items(stream[c]) \cup {writing[c]}
      /\ Distinct(stream'[c])
  BY <1>2, <1>3, ItemAdded DEF Sound, Once
<1>5. stream' \in [Consumers -> Seq(Cursors)]
  BY <1>1, <1>3, <1>4 DEF BusInv, TypeOK
<1>6. TypeOK'
  BY <1>1, <1>2, <1>3, <1>5 DEF BusInv, TypeOK
<1>7. conn[c] = "open"
  BY <1>1, <1>2 DEF Sound, Idle
<1>8. Idle(c)' /\ LateOnce(c)'
  BY <1>1, <1>2, <1>3, <1>7 DEF Sound, Idle, LateOnce, NotYet
<1>9. Once(c)'
  <2>1. Items(stream'[c]) \subseteq Cursors
    BY <1>4, ItemsIn
  <2>2. /\ Distinct(queue[c]) /\ queue' = queue /\ Items(stream[c]) \cap Items(queue[c]) = {}
        /\ writing[c] \notin Items(queue[c])
    BY <1>1, <1>2 DEF Sound, Once
  <2> QED BY <1>2, <1>3, <1>4, <2>1, <2>2 DEF Once
<1>10. OnItsWay(c)' = OnItsWay(c) \cup {0} /\ \A e : OfferedTo(c, e)' <=> OfferedTo(c, e)
  BY <1>1, <1>3, <1>4 DEF OnItsWay, OfferedTo
<1>11. PassedOn(c)' /\ NoGap(c)'
  BY <1>1, <1>2, <1>10 DEF Sound, PassedOn, NoGap
<1> QED BY <1>1, <1>3, <1>6, <1>7, <1>8, <1>9, <1>11, ClientMoves DEF Sound

-----------------------------------------------------------------------------
(* Connections end: nothing of theirs remains, and no publisher offers     *)
(* them anything more.                                                     *)
LEMMA EndedKeeps ==
  ASSUME BusInv, NEW S \in SUBSET Consumers, Ended(S),
         pub' \in [Publishers -> 0..Len(log)],
         targets' \in [Publishers -> SUBSET (Consumers \cup {"all"})],
         \A p \in Publishers :
           \/ pub'[p] = pub[p] /\ targets'[p] = targets[p] \ S
           \/ pub'[p] = 0 /\ targets'[p] = {},
         \A d \in Consumers \ S : pub' = pub
  PROVE  BusInv'
<1>1. /\ hub' = hub \ S /\ UNCHANGED <<log, session, opened>>
      /\ \A d \in S : /\ conn'[d] = "away" /\ topics'[d] = {} /\ queue'[d] = <<>> /\ done'[d] = FALSE
                      /\ writing'[d] = 0 /\ stream'[d] = <<>> /\ late'[d] = 0
                      /\ since'[d] = [t \in Topics |-> NotYet]
      /\ \A d \in Consumers \ S :
           /\ conn'[d] = conn[d] /\ topics'[d] = topics[d] /\ queue'[d] = queue[d]
           /\ done'[d] = done[d] /\ writing'[d] = writing[d] /\ stream'[d] = stream[d]
           /\ late'[d] = late[d] /\ since'[d] = since[d]
  BY DEF Ended
<1>2. Cursors' = Cursors /\ NotYet \in Nat /\ Len(log) \in Nat
  BY <1>1, BusAssumption DEF Cursors, NotYet, BusInv, TypeOK
<1>3. TypeOK'
  <2>1. ASSUME NEW d \in Consumers
        PROVE  /\ conn'[d] \in {"away", "greeted", "open"} /\ topics'[d] \in SUBSET Topics
               /\ queue'[d] \in Seq(Cursors) /\ Len(queue'[d]) <= Capacity
               /\ done'[d] \in BOOLEAN /\ writing'[d] \in 0..Len(log)
               /\ stream'[d] \in Seq(Cursors) /\ late'[d] \in Nat /\ since'[d] \in [Topics -> Nat]
    <3>1. CASE d \in S
      <4>1. <<>> \in Seq(Cursors) /\ Len(<<>>) = 0 /\ [t \in Topics |-> NotYet] \in [Topics -> Nat]
        BY <1>2
      <4>2. Len(queue'[d]) <= Capacity
        <5>1. queue'[d] = <<>>
          BY <1>1, <3>1
        <5>2. Capacity \in Nat
          BY BusAssumption
        <5>3. Len(queue'[d]) = 0
          BY <4>1, <5>1
        <5> QED BY <5>2, <5>3
      <4>3. /\ conn'[d] = "away" /\ topics'[d] = {} /\ queue'[d] = <<>> /\ done'[d] = FALSE
            /\ writing'[d] = 0 /\ stream'[d] = <<>> /\ late'[d] = 0
            /\ since'[d] = [t \in Topics |-> NotYet]
        BY <1>1, <3>1
      <4>4. queue'[d] \in Seq(Cursors) /\ stream'[d] \in Seq(Cursors) /\ since'[d] \in [Topics -> Nat]
        BY <4>1, <4>3
      <4>5. writing'[d] \in 0..Len(log) /\ late'[d] \in Nat
        BY <1>2, <4>3
      <4> QED BY <4>2, <4>3, <4>4, <4>5
    <3>2. CASE d \notin S
      BY <1>1, <3>2 DEF BusInv, TypeOK
    <3> QED BY <3>1, <3>2
  <2>2. hub' \subseteq {d \in Consumers : conn'[d] = "open"}
    BY <1>1 DEF BusInv, TypeOK
  <2>3. /\ conn' \in [Consumers -> {"away", "greeted", "open"}] /\ topics' \in [Consumers -> SUBSET Topics]
        /\ queue' \in [Consumers -> Seq(Cursors)] /\ done' \in [Consumers -> BOOLEAN]
        /\ writing' \in [Consumers -> 0..Len(log)] /\ stream' \in [Consumers -> Seq(Cursors)]
        /\ late' \in [Consumers -> Nat] /\ since' \in [Consumers -> [Topics -> Nat]]
    BY <2>1 DEF Ended
  <2> QED BY <1>1, <1>2, <2>1, <2>2, <2>3 DEF BusInv, TypeOK
<1>4. Offers'
  <2>1. ASSUME NEW p \in Publishers
        PROVE  /\ targets'[p] # {} => pub'[p] # 0
               /\ "all" \in targets'[p] => targets'[p] = {"all"}
               /\ \A c \in targets'[p] \cap Consumers : conn'[c] = "open"
    BY <1>1 DEF BusInv, Offers
  <2>2. ASSUME NEW p \in Publishers, NEW q \in Publishers, pub'[p] = pub'[q], pub'[p] # 0
        PROVE  p = q
    BY <2>2 DEF BusInv, Offers
  <2> QED BY <2>1, <2>2 DEF Offers
<1>5. ASSUME NEW d \in Consumers PROVE Sound(d)'
  <2>1. CASE d \in S
    <3>1. Idle(d)' /\ LateOnce(d)' /\ Once(d)' /\ NoGap(d)' /\ OnItsWay(d)' = {0}
      BY <1>1, <2>1, NoItems DEF Idle, LateOnce, Once, NoGap, OnItsWay, NotYet
    <3> QED BY <3>1 DEF Sound, PassedOn
  <2>2. CASE d \notin S
    <3>1. pub' = pub /\ \A p \in Publishers : targets'[p] \cap {d, "all"} = targets[p] \cap {d, "all"}
      BY <2>2, BusAssumption DEF BusInv, Offers
    <3> QED BY <1>1, <2>2, <3>1, Untouched
  <2> QED BY <2>1, <2>2
<1> QED BY <1>3, <1>4, <1>5 DEF BusInv

(* A connection that closes.                                               *)
LEMMA CloseKeeps ==
  ASSUME BusInv, NEW c \in Consumers, Close(c)
  PROVE  BusInv'
<1>1. Ended({c}) /\ pub' = pub /\ targets' = [p \in Publishers |-> targets[p] \ {c}]
  BY DEF Close
<1>2. targets' \in [Publishers -> SUBSET (Consumers \cup {"all"})] /\ pub' \in [Publishers -> 0..Len(log)]
  BY <1>1 DEF BusInv, TypeOK
<1>3. \A p \in Publishers : pub'[p] = pub[p] /\ targets'[p] = targets[p] \ {c}
  BY <1>1
<1> QED BY <1>1, <1>2, <1>3, EndedKeeps

(* Core restarts.                                                          *)
LEMMA RestartKeeps ==
  ASSUME BusInv, Restart
  PROVE  BusInv'
<1>1. /\ Ended(Consumers) /\ pub' = [p \in Publishers |-> 0] /\ targets' = [p \in Publishers |-> {}]
      /\ Len(log) \in Nat
  BY DEF Restart, BusInv, TypeOK
<1>2. targets' \in [Publishers -> SUBSET (Consumers \cup {"all"})] /\ pub' \in [Publishers -> 0..Len(log)]
  BY <1>1
<1> QED BY <1>1, <1>2, EndedKeeps

-----------------------------------------------------------------------------
(* BusInv is inductive.                                                    *)
LEMMA BusInvInit == Init => BusInv
<1> SUFFICES ASSUME Init PROVE BusInv
  OBVIOUS
<1>1. Len(log) = 0 /\ Cursors = {} /\ <<>> \in Seq(Cursors) /\ NotYet \in Nat
  BY BusAssumption DEF Init, Cursors, NotYet
<1>2. TypeOK
  BY <1>1, BusAssumption DEF Init, TypeOK
<1>3. Offers
  BY DEF Init, Offers
<1>4. ASSUME NEW c \in Consumers PROVE Sound(c)
  BY <1>1, NoItems DEF Init, Sound, Idle, LateOnce, Once, PassedOn, NoGap, OnItsWay
<1> QED BY <1>2, <1>3, <1>4 DEF BusInv

(* Every step of the streams keeps BusInv.                                 *)
LEMMA BusInvNext == BusInv /\ [Next]_vars => BusInv'
<1> SUFFICES ASSUME BusInv, [Next]_vars PROVE BusInv'
  OBVIOUS
<1>1. CASE UNCHANGED vars
  <2>1. Cursors' = Cursors
    BY <1>1 DEF vars, Cursors
  <2>2. TypeOK' /\ Offers'
    BY <1>1, <2>1 DEF vars, server, history, BusInv, TypeOK, Offers
  <2>3. ASSUME NEW c \in Consumers PROVE Sound(c)'
    BY <1>1, Untouched DEF vars, server, history
  <2> QED BY <2>2, <2>3 DEF BusInv
<1>2. ASSUME NEW p \in Publishers, Publishing(p) \/ \E t \in Topics : AppendEvent(p, t) PROVE BusInv'
  BY <1>2, AppendKeeps, SnapshotKeeps, PublishedKeeps, OfferKeeps DEF Publishing
<1>3. ASSUME NEW c \in Consumers, Serving(c) PROVE BusInv'
  BY <1>3, GreetKeeps, RegisterKeeps, TakeKeeps, WriteKeeps, CloseKeeps, TopicsKeep
     DEF Serving, CloseSlow, CloseExpired, CloseBroken
<1>4. ASSUME NEW c \in Consumers, EndSession(c) \/ LogIn(c) PROVE BusInv'
  BY <1>4, SessionKeeps
<1> QED BY <1>1, <1>2, <1>3, <1>4, RestartKeeps DEF Next

(* The inductive invariant of the streams.                                 *)
THEOREM StreamsKept == Spec => []BusInv
BY BusInvInit, BusInvNext, PTL DEF Spec

-----------------------------------------------------------------------------
(* Two sequences without repetitions that share nothing make one.          *)
LEMMA DistinctJoin ==
  ASSUME NEW S, NEW s \in Seq(S), NEW t \in Seq(S), Distinct(s), Distinct(t),
         Items(s) \cap Items(t) = {}
  PROVE  /\ s \o t \in Seq(S) /\ Distinct(s \o t) /\ Items(s \o t) = Items(s) \cup Items(t)
<1>1. /\ s \o t \in Seq(S) /\ Len(s \o t) = Len(s) + Len(t)
      /\ \A i \in 1..Len(s) : (s \o t)[i] = s[i]
      /\ \A i \in 1..Len(t) : (s \o t)[Len(s) + i] = t[i]
  OBVIOUS
<1>2. /\ Len(s) \in Nat /\ Len(t) \in Nat /\ DOMAIN s = 1..Len(s) /\ DOMAIN t = 1..Len(t)
      /\ DOMAIN (s \o t) = 1..(Len(s) + Len(t))
  BY <1>1
<1>3. ASSUME NEW i \in DOMAIN (s \o t)
      PROVE  \/ i \in DOMAIN s /\ (s \o t)[i] = s[i]
             \/ (i - Len(s)) \in DOMAIN t /\ (s \o t)[i] = t[i - Len(s)]
  <2>1. CASE i <= Len(s)
    BY <1>1, <1>2, <2>1
  <2>2. CASE i > Len(s)
    <3>1. i - Len(s) \in 1..Len(t) /\ i = Len(s) + (i - Len(s))
      BY <1>2, <2>2
    <3> QED BY <1>1, <1>2, <3>1
  <2> QED BY <1>2, <2>1, <2>2
<1>4. Items(s \o t) \subseteq Items(s) \cup Items(t)
  BY <1>3 DEF Items
<1>5. Items(s) \cup Items(t) \subseteq Items(s \o t)
  <2>1. ASSUME NEW i \in DOMAIN s PROVE s[i] \in Items(s \o t)
    <3>1. i \in DOMAIN (s \o t) /\ (s \o t)[i] = s[i]
      BY <1>1, <1>2
    <3> QED BY <3>1 DEF Items
  <2>2. ASSUME NEW i \in DOMAIN t PROVE t[i] \in Items(s \o t)
    <3>1. i \in 1..Len(t) /\ Len(s) + i \in 1..(Len(s) + Len(t))
      BY <1>2
    <3>2. Len(s) + i \in DOMAIN (s \o t) /\ (s \o t)[Len(s) + i] = t[i]
      BY <1>1, <1>2, <3>1
    <3> QED BY <3>2 DEF Items
  <2> QED BY <2>1, <2>2 DEF Items
<1>6. Distinct(s \o t)
  <2> SUFFICES ASSUME NEW i \in DOMAIN (s \o t), NEW j \in DOMAIN (s \o t), (s \o t)[i] = (s \o t)[j]
               PROVE  i = j
    BY DEF Distinct
  <2>1. i \in Nat /\ j \in Nat
    BY <1>2
  <2>2. CASE i \in DOMAIN s /\ j \in DOMAIN s /\ s[i] = s[j]
    BY <2>2 DEF Distinct
  <2>3. CASE i - Len(s) \in DOMAIN t /\ j - Len(s) \in DOMAIN t /\ t[i - Len(s)] = t[j - Len(s)]
    <3>1. i - Len(s) = j - Len(s)
      BY <2>3 DEF Distinct
    <3> QED BY <1>2, <2>1, <3>1
  <2>4. \A k \in DOMAIN s, l \in DOMAIN t : s[k] # t[l]
    BY DEF Items
  <2> QED BY <1>3, <2>2, <2>3, <2>4
<1> QED BY <1>1, <1>4, <1>5, <1>6

(* What was sent, as a sequence and as a set.                              *)
LEMMA SentIs ==
  ASSUME BusInv, NEW c \in Consumers
  PROVE  Distinct(Sent(c)) /\ \A e \in Cursors : e \in OnItsWay(c) => e \in Items(Sent(c))
<1> DEFINE w == IF writing[c] = 0 THEN <<>> ELSE <<writing[c]>>
<1>1. /\ stream[c] \in Seq(Cursors) /\ queue[c] \in Seq(Cursors) /\ writing[c] \in {0} \cup Cursors
      /\ Once(c) /\ 0 \notin Cursors
  BY DEF BusInv, TypeOK, Sound, Cursors
<1>2. w \in Seq(Cursors) /\ Distinct(w) /\ Items(w) = {writing[c]} \ {0}
  <2>1. CASE writing[c] = 0
    BY <2>1, NoItems
  <2>2. CASE writing[c] # 0
    BY <1>1, <2>2 DEF Distinct, Items
  <2> QED BY <2>1, <2>2
<1> HIDE DEF w
<1>3. /\ stream[c] \o w \in Seq(Cursors) /\ Distinct(stream[c] \o w)
      /\ Items(stream[c] \o w) = Items(stream[c]) \cup Items(w)
  BY <1>1, <1>2, DistinctJoin DEF Once
<1>4. /\ Distinct((stream[c] \o w) \o queue[c])
      /\ Items((stream[c] \o w) \o queue[c]) = Items(stream[c]) \cup Items(w) \cup Items(queue[c])
  <2>1. (Items(stream[c]) \cup Items(w)) \cap Items(queue[c]) = {}
    BY <1>1, <1>2 DEF Once
  <2>2. Distinct(queue[c])
    BY <1>1 DEF Once
  <2> DEFINE sw == stream[c] \o w
  <2>3. sw \in Seq(Cursors) /\ Distinct(sw) /\ Items(sw) \cap Items(queue[c]) = {}
    BY <1>3, <2>1
  <2> HIDE DEF sw
  <2>4. Distinct(sw \o queue[c]) /\ Items(sw \o queue[c]) = Items(sw) \cup Items(queue[c])
    BY <1>1, <2>2, <2>3, DistinctJoin
  <2> QED BY <1>3, <2>4 DEF sw
<1>5. Sent(c) = (stream[c] \o w) \o queue[c]
  BY DEF Sent, w
<1> QED BY <1>1, <1>2, <1>4, <1>5 DEF OnItsWay

(* The streams are typed, have no silent gap and repeat nothing, for any   *)
(* number of publishers and clients and any length of their queues         *)
(* (Publish, deliver, remove, ServeHTTPAuthorized).                        *)
THEOREM StreamsAreSound == Spec => []StreamIsSound
<1>1. BusInv => NoSilentGap
  <2> SUFFICES ASSUME BusInv, NEW c \in Consumers, conn[c] = "open", ~done[c], NEW e \in Cursors,
                      log[e] \in Visible, since[c][log[e]] <= e, OfferedTo(c, e)
               PROVE  e \in Items(Sent(c))
    BY DEF NoSilentGap
  <2>1. e \in OnItsWay(c)
    BY DEF BusInv, Sound, NoGap
  <2> QED BY <2>1, SentIs
<1>2. BusInv => AtMostOnce
  BY SentIs DEF AtMostOnce, Distinct
<1>3. BusInv => StreamIsSound
  BY <1>1, <1>2 DEF StreamIsSound, BusInv
<1> QED BY <1>3, StreamsKept, PTL

(* Once a session has ended, one event at most is still written to its     *)
(* stream (ServeHTTPAuthorized).                                           *)
THEOREM OneLateAtMost == Spec => []AtMostOneLate
<1>1. BusInv => AtMostOneLate
  BY DEF BusInv, Sound, LateOnce, AtMostOneLate
<1> QED BY <1>1, StreamsKept, PTL

-----------------------------------------------------------------------------
(* The newest event of a page.                                             *)
LEMMA HighestIs ==
  ASSUME NEW n \in Nat, NEW S \in SUBSET (1..n), S # {}
  PROVE  Highest(S) \in S /\ \A e \in S : e <= Highest(S)
<1> DEFINE T == {n - e : e \in S}
<1>1. T \subseteq Nat /\ T # {}
  <2>1. \A e \in S : n - e \in Nat
    OBVIOUS
  <2>2. PICK e \in S : TRUE
    OBVIOUS
  <2>3. n - e \in T
    OBVIOUS
  <2> QED BY <2>1, <2>3
<1>2. PICK m \in T : \A k \in T : ~(<<k, m>> \in OpToRel(<, Nat))
  <2> HIDE DEF T
  <2> QED BY <1>1, WFMin, NatLessThanWellFounded
<1>3. PICK h \in S : m = n - h
  OBVIOUS
<1>4. \A e \in S : e <= h
  <2> TAKE e \in S
  <2>1. n - e \in Nat /\ m \in Nat /\ h \in Nat /\ e \in Nat
    BY <1>3
  <2>2. ~(<<n - e, m>> \in OpToRel(<, Nat))
    BY <1>2
  <2>3. ~(n - e < m)
    BY <2>1, <2>2 DEF OpToRel
  <2> QED BY <1>3, <2>1, <2>3
<1> QED BY <1>4 DEF Highest

(* A page holds everything visible between the old cursor and the new one. *)
LEMMA FetchKeeps ==
  ASSUME BusInv, HistoryInv, NEW c \in Consumers, FetchHistory(c)
  PROVE  HistoryInv'
<1> DEFINE events == {e \in Page(last[c]) : log[e] \in Visible}
           next == IF events = {} THEN last[c] ELSE Highest(events)
<1>1. /\ UNCHANGED vars /\ Cursors' = Cursors
      /\ processed' = [processed EXCEPT ![c] = @ \cup events]
      /\ last' = [last EXCEPT ![c] = next]
  BY DEF FetchHistory, vars, Cursors
<1>2. /\ Len(log) \in Nat /\ last[c] \in Nat /\ last[c] <= Len(log)
      /\ events \subseteq 1..Len(log) /\ processed[c] \subseteq Nat
      /\ \A e \in events : e > last[c]
  BY DEF BusInv, TypeOK, HistoryInv, Page, Cursors
<1>3. /\ next \in Nat /\ next >= last[c] /\ next <= Len(log)
      /\ \A e \in Cursors : (last[c] < e /\ e <= next /\ log[e] \in Visible) => e \in events
  <2>1. CASE events = {}
    BY <1>2, <2>1 DEF Cursors
  <2>2. CASE events # {}
    <3>1. next \in events
      BY <1>2, <2>2, HighestIs
    <3>2. next \in Page(last[c])
      BY <3>1
    <3> HIDE DEF next
    <3>3. next \in 1..Len(log) /\ last[c] < next /\ next <= last[c] + PageSize
      BY <3>2 DEF Page, Cursors
    <3>4. \A e \in Cursors : (last[c] < e /\ e <= next /\ log[e] \in Visible) => e \in events
      BY <1>2, <3>3, PageAssumption DEF Page, Cursors
    <3> QED BY <1>2, <3>3, <3>4
  <2> QED BY <2>1, <2>2
<1> HIDE DEF next
<1>4. /\ last'[c] = next /\ processed'[c] = processed[c] \cup events
      /\ \A d \in Consumers \ {c} : last'[d] = last[d] /\ processed'[d] = processed[d]
  BY <1>1 DEF HistoryInv
<1>5. /\ last' \in [Consumers -> Nat] /\ processed' \in [Consumers -> SUBSET Nat]
      /\ \A d \in Consumers : last'[d] <= Len(log')
  BY <1>1, <1>2, <1>3, <1>4 DEF HistoryInv, vars
<1>6. PagesHaveNoHole'
  <2> SUFFICES ASSUME NEW d \in Consumers, opened[d] = 0, NEW e \in Cursors, e <= last'[d], log[e] \in Visible
               PROVE  e \in processed'[d]
    BY <1>1 DEF PagesHaveNoHole, vars
  <2>1. e <= last[d] => e \in processed[d]
    BY DEF HistoryInv, PagesHaveNoHole
  <2>2. CASE d # c
    BY <1>4, <2>1, <2>2
  <2>3. CASE d = c
    <3>1. e \in Nat
      BY DEF Cursors
    <3> QED BY <1>2, <1>3, <1>4, <2>1, <2>3, <3>1
  <2> QED BY <2>2, <2>3
<1> QED BY <1>5, <1>6 DEF HistoryInv

(* A stream gives nothing to a consumer that has never opened one.         *)
LEMMA StreamingKeeps ==
  ASSUME BusInv, BusInv', HistoryInv, Streaming
  PROVE  HistoryInv'
<1>1. /\ last' = [c \in Consumers |-> IF Len(stream'[c]) > Len(stream[c])
                                      THEN stream'[c][Len(stream'[c])] ELSE last[c]]
      /\ processed' = [c \in Consumers |-> processed[c] \cup Items(stream'[c])]
  BY DEF Streaming
<1>2. /\ Len(log) \in Nat /\ Len(log') \in Nat /\ Len(log) <= Len(log')
      /\ \A e \in Cursors : e \in Cursors' /\ log'[e] = log[e]
      /\ \A c \in Consumers : opened'[c] >= opened[c]
  <2>1. log \in Seq(Topics) /\ log' \in Seq(Topics) /\ \A c \in Consumers : opened[c] \in Nat
    BY DEF BusInv, TypeOK
  <2>2. CASE \E p \in Publishers, t \in Topics : AppendEvent(p, t)
    BY <2>1, <2>2 DEF AppendEvent, Cursors
  <2>3. CASE ~\E p \in Publishers, t \in Topics : AppendEvent(p, t)
    <3>1. log' = log
      BY <2>3 DEF Streaming, Next, Publishing, Snapshot, Published, Offer, Serving, Greet,
        Register, Take, Taken, Write, CloseSlow, CloseExpired, CloseBroken, Close, Ended,
        Subscribe, Unsubscribe, EndSession, LogIn, Restart
    <3>2. \A c \in Consumers : opened'[c] >= opened[c]
      <4>1. opened' = opened \/ \E c \in Consumers : Greet(c)
        BY <2>3 DEF Streaming, Next, Publishing, Snapshot, Published, Offer, Serving, Register,
          Take, Taken, Write, CloseSlow, CloseExpired, CloseBroken, Close, Ended, Subscribe,
          Unsubscribe, EndSession, LogIn, Restart
      <4>2. opened' = opened \/ \E c \in Consumers : opened' = [opened EXCEPT ![c] = @ + 1]
        BY <4>1 DEF Greet
      <4>3. \A c, d \in Consumers :
              opened' = [opened EXCEPT ![c] = @ + 1] => opened'[d] \in {opened[d], opened[d] + 1}
        BY DEF BusInv, TypeOK
      <4>4. \A d \in Consumers : opened'[d] \in {opened[d], opened[d] + 1}
        BY <4>2, <4>3
      <4> QED BY <2>1, <4>4
    <3> QED BY <2>1, <3>1, <3>2 DEF Cursors
  <2> QED BY <2>2, <2>3
<1>3. ASSUME NEW c \in Consumers
      PROVE  /\ last'[c] \in Nat /\ last'[c] <= Len(log') /\ processed'[c] \subseteq Nat
             /\ processed[c] \subseteq processed'[c]
  <2>1. stream[c] \in Seq(Cursors) /\ stream'[c] \in Seq(1..Len(log'))
    BY DEF BusInv, TypeOK, Cursors
  <2>2. Items(stream'[c]) \subseteq 1..Len(log')
    BY <2>1, ItemsIn
  <2>3. Len(stream'[c]) > Len(stream[c]) => stream'[c][Len(stream'[c])] \in 1..Len(log')
    BY <2>1
  <2>4. last[c] \in Nat /\ last[c] <= Len(log) /\ processed[c] \subseteq Nat
    BY DEF HistoryInv
  <2> QED BY <1>1, <1>2, <2>2, <2>3, <2>4
<1>4. last' \in [Consumers -> Nat] /\ processed' \in [Consumers -> SUBSET Nat]
  <2>1. \A c \in Consumers : last'[c] \in Nat /\ processed'[c] \in SUBSET Nat
    BY <1>3
  <2> QED BY <1>1, <2>1
<1>5. PagesHaveNoHole'
  <2> SUFFICES ASSUME NEW c \in Consumers, opened'[c] = 0, NEW e \in Cursors', e <= last'[c],
                      log'[e] \in Visible
               PROVE  e \in processed'[c]
    BY DEF PagesHaveNoHole
  <2>1. opened[c] = 0
    BY <1>2 DEF BusInv, TypeOK
  <2>2. stream'[c] = <<>> /\ stream[c] = <<>>
    BY <2>1 DEF BusInv, Sound, Idle
  <2>3. last'[c] = last[c]
    BY <1>1, <2>2
  <2>4. e \in Cursors
    BY <1>2, <2>3 DEF HistoryInv, Cursors
  <2>5. log'[e] = log[e]
    BY <1>2, <2>4
  <2> QED BY <1>3, <2>1, <2>3, <2>4, <2>5 DEF HistoryInv, PagesHaveNoHole
<1> QED BY <1>3, <1>4, <1>5 DEF HistoryInv

(* Whoever pages through the history of events misses none below its       *)
(* cursor, whatever the page size and whoever publishes meanwhile          *)
(* (ListEvents, eventHistory).                                             *)
THEOREM HistoryHasNoHole == FollowSpec => []PagesHaveNoHole
<1> DEFINE FInv == BusInv /\ HistoryInv
<1>1. FollowInit => FInv
  <2> SUFFICES ASSUME FollowInit PROVE BusInv /\ HistoryInv
    OBVIOUS
  <2>1. BusInv /\ Cursors = {} /\ Len(log) = 0
    BY BusInvInit DEF FollowInit, Init, Cursors
  <2> QED BY <2>1 DEF FollowInit, HistoryInv, PagesHaveNoHole
<1>2. FInv /\ [FollowNext]_<<vars, follow>> => FInv'
  <2> SUFFICES ASSUME BusInv, HistoryInv, [FollowNext]_<<vars, follow>> PROVE BusInv' /\ HistoryInv'
    OBVIOUS
  <2>1. [Next]_vars
    BY DEF FollowNext, FetchHistory, Streaming
  <2>2. BusInv'
    BY <2>1, BusInvNext
  <2>3. CASE UNCHANGED <<vars, follow>>
    <3>1. log' = log /\ opened' = opened /\ last' = last /\ processed' = processed
      BY <2>3 DEF vars, follow
    <3>2. HistoryInv'
      BY <3>1 DEF HistoryInv, PagesHaveNoHole, Cursors
    <3> QED BY <2>2, <3>2
  <2> QED BY <2>2, <2>3, FetchKeeps, StreamingKeeps DEF FollowNext
<1>3. FInv => PagesHaveNoHole
  BY DEF HistoryInv
<1> QED BY <1>1, <1>2, <1>3, PTL DEF FollowSpec

==============================================================================
