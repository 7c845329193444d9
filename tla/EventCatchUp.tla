----------------------------- MODULE EventCatchUp -----------------------------
(***************************************************************************)
(* A consumer that follows the reconnect flow of docs/api/jobs-events-v1.md*)
(* on top of the streams of EventBus: it remembers the last cursor it      *)
(* processed, pages through GET /api/v1/events/history?after=<last> while  *)
(* it is disconnected, and then opens a new stream.                        *)
(***************************************************************************)
EXTENDS EventBus

CONSTANT PageSize           (* limit of a history request                  *)

ASSUME PageAssumption == PageSize \in Nat \ {0}

VARIABLES
  last,       (* the last durable cursor the consumer processed            *)
  processed,  (* every cursor it processed (history)                       *)
  caught      (* its last request returned nothing new                     *)

follow == <<last, processed, caught>>

Highest(S) == CHOOSE e \in S : \A d \in S : d <= e

FollowInit ==
  /\ Init
  /\ last = [c \in Consumers |-> 0]
  /\ processed = [c \in Consumers |-> {}]
  /\ caught = [c \in Consumers |-> FALSE]

(* A bug: the newest events come first, and the limit cuts off the oldest. *)
PageNewest(cursor) == {e \in Cursors : cursor < e /\ e > Len(log) - PageSize}

(* ListEvents: the events after a cursor, in ascending order up to a limit.*)
Page(cursor) == {e \in Cursors : cursor < e /\ e <= cursor + PageSize}

(* GET /api/v1/events/history: the page is filtered for the actor after    *)
(* it has been read.                                                       *)
FetchHistory(c) ==
  LET events == {e \in Page(last[c]) : log[e] \in Visible} IN
  /\ conn[c] = "away" /\ session[c]
  /\ processed' = [processed EXCEPT ![c] = @ \cup events]
  /\ last' = [last EXCEPT ![c] = IF events = {} THEN @ ELSE Highest(events)]
  /\ caught' = [caught EXCEPT ![c] = events = {}]
  /\ UNCHANGED vars

(* The stream side: a connection opens once the consumer has caught up,    *)
(* and what is written on it is processed.                                 *)
Streaming ==
  /\ Next
  /\ \A c \in Consumers : conn[c] = "away" /\ conn'[c] # "away" => caught[c]
  /\ processed' = [c \in Consumers |-> processed[c] \cup Items(stream'[c])]
  /\ last' = [c \in Consumers |-> IF Len(stream'[c]) > Len(stream[c])
                                  THEN stream'[c][Len(stream'[c])] ELSE last[c]]
  /\ caught' = [c \in Consumers |-> caught[c] /\ conn[c] = "away"]

FollowNext == Streaming \/ \E c \in Consumers : FetchHistory(c)

FollowSpec == FollowInit /\ [][FollowNext]_<<vars, follow>>

(* A disconnected consumer keeps asking, and the server's goroutines run.  *)
PollingSpec ==
  FollowSpec /\ Fairness /\ \A c \in Consumers : WF_<<vars, follow>>(FetchHistory(c))

-----------------------------------------------------------------------------
(* The requests of a consumer that has only read the history leave no hole *)
(* below its cursor (ListEvents orders by cursor before it limits).        *)
PagesHaveNoHole ==
  \A c \in Consumers : opened[c] = 0 =>
    \A e \in Cursors : e <= last[c] /\ log[e] \in Visible => e \in processed[c]

(* History supports reconnect catch-up (docs/decisions/0007): a consumer   *)
(* that keeps asking for what follows its cursor gets every logged event   *)
(* it may see, unless it logs out or opens a stream (eventHistory).        *)
HistoryReachesEnd ==
  \A c \in Consumers : \A e \in 1..MaxEvents :
    e \in Cursors /\ log[e] \in Visible
      ~> e \in processed[c] \/ ~session[c] \/ opened[c] > 0

(* At the end of the documented reconnect flow nothing below the           *)
(* remembered cursor is missing: what a stream did not carry was fetched.  *)
CatchUpComplete ==
  \A c \in Consumers : conn[c] = "away" /\ caught[c] =>
    \A e \in Cursors : log[e] \in Visible /\ e <= last[c] => e \in processed[c]
=============================================================================
