------------------------------- MODULE MCAccess -------------------------------
(* Shares and Accounts have no state in common, so one run checks both: in *)
(* a behaviour one of the two runs and the other stays as it is at first.  *)
(* Shares: an administrator, a user who has a folder or is yet to come,    *)
(* and an id for one more folder.  Where Samba is not configured nothing   *)
(* is ever served, and two administrators are there for the order of their *)
(* requests: in both cases no quota is enforced at first.                  *)
EXTENDS Shares, Accounts

CONSTANTS u1, u2, f1, f2
Home == [f \in {f1} |-> u2]

VARIABLE part
NoShares == SharesInit /\ Enabled = Owners /\ Administrators = Owners /\ conf = None

AccessInit ==
  \/ /\ part = "shares" /\ SharesInit /\ AccountsInit
     /\ conf = None => Enabled = Users
     /\ conf = None \/ Administrators = Users => kernel = [f \in Folders |-> 0]
  \/ part = "accounts" /\ AccountsInit /\ NoShares
AccessNext ==
  /\ UNCHANGED part
  /\ \/ part = "shares" /\ SharesNext /\ UNCHANGED accountVars
     \/ part = "accounts" /\ AccountsNext /\ UNCHANGED shareVars
AccessSpec ==
  AccessInit /\ [][AccessNext]_<<part, shareVars, accountVars>> /\ SharesFairness
==============================================================================
