-------------------------------- MODULE Storage --------------------------------
(***************************************************************************)
(* Partitions and file systems of the disks beside the system disk, what   *)
(* they are for (table storage_purposes) and the file pools on them:       *)
(* internal/api/storage.go, storage_purpose.go and files.go with           *)
(* internal/state/storage_purposes.go, and the operations of               *)
(* cmd/home-ai-core-updater/storage_ops.go.  No lock keeps two requests    *)
(* apart: each step below may be followed by a step of another one.        *)
(* External: what lsblk, sfdisk, mkfs, mount and the kernel do, and the    *)
(* names it gives to disks when it boots.                                  *)
(***************************************************************************)
EXTENDS Integers, FiniteSets, TLC

CONSTANTS
  Slots,                     (* <<disk, number>>: the place of a partition *)
  DiskNames, Requesters, Nothing,
  MaxOperations,             (* bound: requests                            *)
  MaxTrouble                 (* bound: failures, deaths and reboots        *)

Disks == {s[1] : s \in Slots}
Naming == {f \in [Disks -> DiskNames] : \A d, e \in Disks : f[d] = f[e] => d = e}

Purposes == {"files", "nvr"}

ASSUME StorageAssumption ==
  /\ IsFiniteSet(Slots) /\ \A s \in Slots : s = <<s[1], s[2]>> /\ s[2] \in Nat
  /\ Naming # {} /\ DiskNames \subseteq Nat   (* rows are sorted by path *)
  /\ Nothing \notin Nat /\ Nothing \notin Purposes
  /\ {MaxOperations, MaxTrouble} \subseteq Nat

VARIABLES
  name,      (* the name of each disk                                      *)
  parted, fs, mounted,   (* slots with a partition; the file system on each  *)
                       (* slot, which outlives its partition; mounted ones *)
  rows,      (* storage_purposes                                           *)
  pools,     (* the file systems of nas_pools                              *)
  work,      (* what each request does                                     *)
  want,      (* what the administrator last said a slot is for (history)   *)
  blurred,   (* slots with overlapping requests, with a request whose      *)
             (* device Core did not find, or with a deletion cut off       *)
             (* before its purposes were cleared (history)                 *)
  doubtful,  (* file systems that were on a slot when Core did not find    *)
             (* it, or that got a pool on a blurred one (history)          *)
  moved,     (* a disk has got another name (history)                      *)
  operations, troubles

storageVars == <<name, parted, fs, mounted, rows, pools, work, want, blurred, doubtful, moved,
                 operations, troubles>>

NoWork == [at |-> "none"]
Path(s) == <<name[s[1]], s[2]>>
DevPaths == {Path(s) : s \in Slots}
SlotAt(p) == CHOOSE s \in Slots : Path(s) = p
Present(p) == \E s \in parted : Path(s) = p

(* A host in use: one partition for files is mounted, with a pool or not   *)
(* yet, another one may be for the recordings.                             *)
StorageInit ==
  /\ name = CHOOSE f \in Naming : TRUE
  /\ parted = Slots /\ fs = CHOOSE f \in [Slots -> 1..Cardinality(Slots)] :
                         \A s, t \in Slots : f[s] = f[t] => s = t
  /\ mounted \in {{}} \cup {{s} : s \in Slots} /\ pools \in {{}, {fs[s] : s \in mounted}}
  /\ \E archive \in {{}} \cup {{s} : s \in Slots \ mounted} :
       want = [s \in Slots |-> IF s \in mounted THEN "files"
                               ELSE IF s \in archive THEN "nvr" ELSE Nothing]
  /\ rows = {[path |-> Path(s), uuid |-> fs[s], purpose |-> want[s]] :
               s \in {x \in Slots : want[x] # Nothing}}
  /\ work = [c \in Requesters |-> NoWork] /\ blurred = {} /\ doubtful = {} /\ moved = FALSE
  /\ operations = 0 /\ troubles = 0

OnDisk(do) == do \in {"create", "delete_all"}
(* The slots a request is about: a partition, or all of a disk.            *)
SlotsOf(do, p) == {s \in Slots : IF OnDisk(do) THEN name[s[1]] = p[1] ELSE Path(s) = p}
Target(c) == SlotsOf(work[c].do, work[c].on)
AtWork(s) == \E c \in Requesters : work[c] # NoWork /\ s \in Target(c)
Step(c, at) == work' = [work EXCEPT ![c].at = at]
Reply(c) == work' = [work EXCEPT ![c] = NoWork]
Does(c, dos) == work[c].do \in dos
Node(c) == work[c].tree[work[c].on]
-----------------------------------------------------------------------------
(* The table of purposes.                                                  *)

(* SetStoragePurpose: by the UUID, or else by the path.  An update that    *)
(* takes the path of another row fails.                                    *)
SetRow(p, u, purpose) ==
  LET row == [path |-> p, uuid |-> u, purpose |-> purpose]
      same == {r \in rows : u # Nothing /\ r.uuid = u}
      there == {r \in rows : r.path = p} IN
  IF same = {} THEN (rows \ there) \cup {row}
  ELSE IF there \subseteq same THEN (rows \ same) \cup {row} ELSE rows
Cleared(p, u) == {r \in rows : r.path = p \/ (u # Nothing /\ r.uuid = u)}

(* A bug: a row whose UUID is gone is about nothing.                       *)
ResolvedByUuid(r) == {s \in parted : IF r.uuid = Nothing THEN Path(s) = r.path ELSE fs[s] = r.uuid}
(* blockNodeForStoragePurpose: the slots a row is understood to be about.  *)
Resolved(r) ==
  LET same == {s \in parted : r.uuid # Nothing /\ fs[s] = r.uuid} IN
  IF same # {} THEN same ELSE {s \in parted : Path(s) = r.path}
PurposeOf(s) == {r.purpose : r \in {x \in rows : s \in Resolved(x)}}
(* storagePurposeRecordForNode takes the first row by path that fits.      *)
Recorded(p, u) ==
  LET fit == Cleared(p, u)
      Before(x, y) == x[1] < y[1] \/ (x[1] = y[1] /\ x[2] <= y[2]) IN
  IF fit = {} THEN Nothing
  ELSE (CHOOSE r \in fit : \A x \in fit : Before(r.path, x.path)).purpose
(* A bug: a pool is looked for by what is mounted now.                     *)
InUseMounted(tree) == \E p \in DOMAIN tree : tree[p] \in pools /\ \E s \in mounted : Path(s) = p
(* storageUsageForIdentity: pools go by the UUID.                          *)
InUse(tree) == \E p \in DOMAIN tree : tree[p] \in pools
(* What a pool uses can be assigned to files only.                         *)
KeptRows(c) == InUse(work[c].tree) /\ work[c].purpose # "files"
-----------------------------------------------------------------------------
(* Requests.  The tree of devices is read first, and all that follows goes *)
(* by it; a format also keeps the purpose it found.  When lsblk fails the  *)
(* tree is empty, and a path spelled otherwise than lsblk spells it is not *)
(* in it: then Core has nothing to check and no row to clear or to move,   *)
(* and the helper, which cleans the path and looks for itself, goes on.    *)
(* Only what needs the device in the tree (assign, pool) is refused.       *)
Ask(c, do, p, purpose, seen) ==
  LET slots == SlotsOf(do, p)
      tree == [q \in {Path(s) : s \in {x \in slots \cap parted : seen}} |-> fs[SlotAt(q)]] IN
  /\ work[c] = NoWork /\ operations < MaxOperations /\ operations' = operations + 1
  /\ work' = [work EXCEPT ![c] =
       [at |-> IF do \in {"mount", "create"} THEN "act" ELSE "check", do |-> do, on |-> p,
        tree |-> tree, left |-> FALSE, uuid |-> Cardinality(Slots) + operations',
        purpose |-> IF do = "format" /\ p \in DOMAIN tree THEN Recorded(p, tree[p]) ELSE purpose]]
  /\ blurred' = blurred \cup {s \in slots : AtWork(s) \/ ~seen}
  /\ doubtful' = doubtful \cup {fs[s] : s \in {x \in slots : ~seen}}
  /\ UNCHANGED <<name, parted, fs, mounted, rows, pools, want, moved, troubles>>

Unchanged == UNCHANGED <<name, blurred, moved, operations, troubles>>
CheckUse(c) ==
  /\ work[c].at = "check"
  /\ CASE Does(c, {"assign"}) ->
            IF KeptRows(c) THEN Reply(c) ELSE Step(c, "save")
       [] Does(c, {"pool"}) ->
            (* filePoolStorageNode: a mounted device with the purpose files,*)
            (* whose UUID is read with what is mounted                      *)
            LET s == SlotAt(work[c].on) IN
            IF "files" \in PurposeOf(s) /\ s \in mounted
            THEN work' = [work EXCEPT ![c].at = "save", ![c].tree = [q \in {work[c].on} |-> fs[s]]]
            ELSE Reply(c)
       [] OTHER -> IF InUse(work[c].tree) THEN Reply(c) ELSE Step(c, "unmount")
  /\ UNCHANGED <<parted, fs, mounted, rows, pools, want, doubtful>> /\ Unchanged

(* prepareDestructiveChange, and unmountTargets for an unmount.            *)
Unmount(c) ==
  /\ work[c].at = "unmount" /\ mounted' = mounted \ Target(c)
  /\ IF Does(c, {"unmount"}) \/ Target(c) \cap parted = {} THEN Reply(c) ELSE Step(c, "act")
  /\ UNCHANGED <<parted, fs, rows, pools, want, doubtful>> /\ Unchanged

(* What the helper does to the disk; a mounted file system is refused.     *)
Accepted(c) ==
  LET slots == Target(c) IN
  CASE Does(c, {"format"}) -> slots \subseteq parted \ mounted
    [] Does(c, {"delete", "delete_all"}) -> slots \cap parted # {} /\ slots \cap mounted = {}
    [] Does(c, {"create"}) -> slots \cap mounted = {} /\ ~slots \subseteq parted
    [] OTHER -> slots \subseteq parted /\ \A s \in slots : fs[s] # Nothing
Change(c) ==
  LET slots == Target(c) IN
  CASE Does(c, {"format"}) ->
         /\ fs' = [s \in Slots |-> IF s \in slots THEN work[c].uuid ELSE fs[s]]
         /\ UNCHANGED <<parted, mounted, want>>
    [] Does(c, {"delete", "delete_all"}) ->
         /\ parted' = parted \ slots
         /\ want' = [s \in Slots |-> IF s \in slots THEN Nothing ELSE want[s]]
         /\ UNCHANGED <<fs, mounted>>
    [] Does(c, {"create"}) ->
         LET new == CHOOSE s \in slots \ parted : \A t \in slots \ parted : s[2] <= t[2] IN
         (* an earlier file system comes back when the place is the same   *)
         /\ parted' = parted \cup {new} /\ fs' \in {fs, [fs EXCEPT ![new] = Nothing]}
         /\ UNCHANGED <<mounted, want>>
    [] OTHER -> mounted' = mounted \cup slots /\ UNCHANGED <<parted, fs, want>>
Act(c) ==
  /\ work[c].at = "act" /\ Accepted(c) /\ Change(c)
  /\ IF work[c].left \/ Does(c, {"mount"}) THEN Reply(c) ELSE Step(c, "after")
  /\ UNCHANGED <<rows, pools, doubtful>> /\ Unchanged
RefuseOperation(c) ==
  /\ work[c].at = "act" /\ ~Accepted(c) /\ Reply(c)
  /\ UNCHANGED <<parted, fs, mounted, rows, pools, want, doubtful>> /\ Unchanged

(* Core, when the helper has answered.                                     *)
NewPaths(c) == {Path(s) : s \in Target(c) \cap parted} \ DOMAIN work[c].tree
UpdatePurposes(c) ==
  LET tree == work[c].tree p == work[c].on q == CHOOSE x \in NewPaths(c) : TRUE IN
  /\ work[c].at = "after" /\ Reply(c)
  /\ CASE Does(c, {"format"}) /\ work[c].purpose # Nothing /\ Present(p) ->
            rows' = SetRow(p, fs[SlotAt(p)], work[c].purpose) /\ UNCHANGED want
       [] Does(c, {"delete", "delete_all"}) ->
            rows' = rows \ UNION {Cleared(x, tree[x]) : x \in DOMAIN tree} /\ UNCHANGED want
       [] Does(c, {"create"}) /\ work[c].purpose # Nothing /\ Cardinality(NewPaths(c)) = 1 ->
            /\ rows' = SetRow(q, fs[SlotAt(q)], work[c].purpose)
            /\ want' = [want EXCEPT ![SlotAt(q)] = IF rows' = rows THEN @ ELSE work[c].purpose]
       [] OTHER -> UNCHANGED <<rows, want>>
  /\ UNCHANGED <<parted, fs, mounted, pools, doubtful>> /\ Unchanged

(* storagePurposes and CreateNASPool, by the tree read at first.           *)
Save(c) ==
  LET p == work[c].on u == Node(c) s == SlotAt(p) IN
  /\ work[c].at = "save" /\ Reply(c)
  /\ IF Does(c, {"pool"})
     THEN /\ pools' = pools \cup {u} /\ UNCHANGED <<rows, want>>
          /\ doubtful' = doubtful \cup {x \in {u} : s \in blurred}
     ELSE /\ rows' = IF work[c].purpose = Nothing THEN rows \ Cleared(p, u)
                     ELSE SetRow(p, u, work[c].purpose)
          /\ want' = [want EXCEPT ![s] = IF rows' = rows THEN @ ELSE work[c].purpose]
          /\ UNCHANGED <<pools, doubtful>>
  /\ UNCHANGED <<parted, fs, mounted>> /\ Unchanged
-----------------------------------------------------------------------------
Trouble == troubles < MaxTrouble /\ troubles' = troubles + 1
Clearing(c) == work[c] # NoWork /\ Does(c, {"delete", "delete_all"})
Blur(cs) == blurred' = blurred \cup UNION {Target(c) : c \in {x \in cs : Clearing(x)}}
(* A command fails, before or after it did its work, or the table cannot   *)
(* be written.                                                             *)
OperationFails(c) ==
  /\ work[c].at \in {"unmount", "act", "after", "save"} /\ Trouble /\ Reply(c) /\ Blur({c})
  /\ UNCHANGED <<name, parted, fs, mounted, rows, pools, want, doubtful, moved, operations>>
(* The client goes away or Core dies: the helper goes on.                  *)
InHelper(c) == work[c].at \in {"unmount", "act"}
Leave(cs) ==
  work' = [c \in Requesters |-> IF c \notin cs \/ work[c] = NoWork THEN work[c]
                                ELSE IF InHelper(c) THEN [work[c] EXCEPT !.left = TRUE] ELSE NoWork]
Abandon(c) ==
  /\ InHelper(c) /\ ~work[c].left /\ Trouble /\ Leave({c}) /\ Blur({c})
  /\ UNCHANGED <<name, parted, fs, mounted, rows, pools, want, doubtful, moved, operations>>
CoreRestarts ==
  /\ Trouble /\ Leave(Requesters) /\ Blur(Requesters)
  /\ UNCHANGED <<name, parted, fs, mounted, rows, pools, want, doubtful, moved, operations>>
(* The kernel may give the disks other names.                              *)
RebootHost ==
  /\ Trouble /\ work' = [c \in Requesters |-> NoWork] /\ Blur(Requesters) /\ mounted' = {}
  /\ name' \in Naming
  /\ moved' = (moved \/ name' # name)
  /\ UNCHANGED <<parted, fs, rows, pools, want, doubtful, operations>>

StorageNext ==
  \/ \E c \in Requesters :
       \/ \E p \in DevPaths :
            \/ Ask(c, "mount", p, Nothing, TRUE)
            \/ \E do \in {"format", "delete", "unmount", "delete_all"}, seen \in BOOLEAN :
                 Ask(c, do, p, Nothing, seen)
            \/ Present(p) /\ \E q \in Purposes \cup {Nothing} : Ask(c, "assign", p, q, TRUE)
            \/ Present(p) /\ Ask(c, "pool", p, Nothing, TRUE)
            \/ \E q \in Purposes \cup {Nothing}, seen \in BOOLEAN : Ask(c, "create", p, q, seen)
       \/ CheckUse(c) \/ Unmount(c) \/ Act(c) \/ RefuseOperation(c) \/ UpdatePurposes(c) \/ Save(c)
       \/ OperationFails(c) \/ Abandon(c)
  \/ CoreRestarts \/ RebootHost
StorageSpec == StorageInit /\ [][StorageNext]_storageVars
-----------------------------------------------------------------------------
(* Properties                                                              *)

(* The variables have their types.  state.StoragePurposeRecord,            *)
(* NASPoolRecord and systeminfo.BlockNode                                  *)
Uuids == 1..(Cardinality(Slots) + MaxOperations)
StorageTypeOK ==
  /\ parted \subseteq Slots /\ mounted \subseteq parted /\ blurred \subseteq Slots
  /\ fs \in [Slots -> Uuids \cup {Nothing}] /\ pools \subseteq Uuids
  /\ \A r \in rows : r.uuid \in Uuids \cup {Nothing} /\ r.purpose \in Purposes
  /\ \A r, x \in rows : r.path = x.path \/ (r.uuid = x.uuid /\ r.uuid # Nothing) => r = x

(* The file system of a pool is there, whatever names the disks get,       *)
(* unless a request came for its partition that Core did not find in what  *)
(* lsblk said, so that nothing was checked, or the pool was made where     *)
(* requests had overlapped or such a one had come.                         *)
PoolSurvives == \A u \in pools \ doubtful : \E s \in parted : fs[s] = u

(* A partition is for what the administrator said last, whatever failed,   *)
(* unless requests overlapped on it, Core did not find it when it was asked*)
(* to change it, its deletion was cut off, or the disks have got other     *)
(* names.                                                                  *)
AsAssigned(s) == PurposeOf(s) = {want[s]} \ {Nothing}
PurposeAsAssigned == ~moved => \A s \in parted \ blurred : ~AtWork(s) => AsAssigned(s)

(* What a pool uses stays assigned to files.                               *)
PoolStaysFiles ==
  ~moved => \A s \in parted \ blurred : fs[s] \in pools /\ ~AtWork(s) => PurposeOf(s) = {"files"}

(* Whatever requests overlap or fail, the purposes are the administrator's *)
(* and those of the pools.                                                 *)
PurposesHold == StorageTypeOK /\ PurposeAsAssigned /\ PoolStaysFiles
=============================================================================
