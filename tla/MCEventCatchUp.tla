---------------------------- MODULE MCEventCatchUp ----------------------------
(* Instances of EventCatchUp for TLC: a consumer that connects, logs in and *)
(* subscribes as it likes, or one that follows the documented reconnect     *)
(* flow and may see every event.                                            *)
EXTENDS EventCatchUp

CONSTANTS p1, p2, c1, seen, hidden

VARIABLE flow       \* "free" or "documented"

MCInit == FollowInit /\ flow \in {"free", "documented"}

FreeNext == Next /\ Len(log') < MaxEvents /\ UNCHANGED follow

DocumentedNext ==
  /\ FollowNext
  /\ \A e \in 1..Len(log') : log'[e] = seen
  /\ \A c \in Consumers : opened'[c] <= 1

MCNext ==
  /\ \/ flow = "free" /\ FreeNext
     \/ flow = "documented" /\ DocumentedNext
  /\ UNCHANGED flow

MCSpec ==
  /\ MCInit /\ [][MCNext]_<<vars, follow, flow>>
  /\ Fairness
  /\ \A c \in Consumers : WF_<<vars, follow>>(flow = "documented" /\ FetchHistory(c))
=============================================================================
