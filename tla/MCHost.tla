-------------------------------- MODULE MCHost --------------------------------
(* HostNetwork, Storage and FileData have no state in common, so one run   *)
(* checks them: in a behaviour one of them runs and the others stay as     *)
(* they are.  Storage: two partitions on one disk and one on another.      *)
(* FileData: two private folders of one user, the second with one path and *)
(* one upload, so that promises across folders meet.                       *)
EXTENDS HostNetwork, Storage, FileData

CONSTANTS d1, d2, a, b, c, u1, u2, e1, f, g
HostSlots == {<<d1, 1>>, <<d1, 2>>, <<d2, 1>>}

MCFolderOf == [x \in {a, b, c, u1, u2, e1} |-> IF x \in {c, u2} THEN g ELSE f]
MCOwned    == {{f, g}}
MCSize     == [v \in Versions |-> IF v = "v" THEN 2 ELSE 1]

(* Which goroutine serves a request does not matter, nor which peer is which. *)
HostSymmetry == Permutations(Goroutines) \cup Permutations(Peers)

VARIABLE runs
NoNetwork == NetworkInit /\ backend = "ifupdown" /\ main = {} /\ dropin = {} /\ included = FALSE
NoStorage == StorageInit /\ mounted = {} /\ rows = {}

(* At first the first partition is mounted, or the other disk, or nothing, *)
(* which then has no purpose either: a purpose without a mount comes soon. *)
OneIsLikeTwo == <<d1, 2>> \notin mounted /\ (mounted = {} => rows = {})

(* After a first failure of the storage, the second trouble is a boot.     *)
SecondIsReboot == troubles' > troubles /\ troubles > 0 => RebootHost
(* One device is not found, before anything else fails.                    *)
OneIsUnseen == operations' > operations /\ doubtful' # doubtful => doubtful = {} /\ troubles = 0

HostInit ==
  /\ Init /\ reserve = 1
  /\ \/ runs = "network" /\ NetworkInit /\ NoStorage
     \/ runs = "storage" /\ NoNetwork /\ StorageInit /\ OneIsLikeTwo
     \/ runs = "files"   /\ NoNetwork /\ NoStorage
HostNext ==
  /\ UNCHANGED runs
  /\ \/ runs = "network" /\ NetworkNext /\ UNCHANGED <<storageVars, fileVars>>
     \/ runs = "storage" /\ StorageNext /\ SecondIsReboot /\ OneIsUnseen
        /\ UNCHANGED <<networkVars, fileVars>>
     \/ runs = "files"   /\ Next /\ UNCHANGED <<networkVars, storageVars>>
HostSpec == HostInit /\ [][HostNext]_<<runs, networkVars, storageVars, fileVars>>
==============================================================================
