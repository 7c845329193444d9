------------------------------ MODULE HostProofs ------------------------------
(* Proofs about the host's disks (Storage) and its network (HostNetwork):  *)
(* for any number of disks, tunnels, interfaces and requests.              *)
EXTENDS Storage, HostNetwork, FiniteSetTheorems, WellFoundedInduction, TLAPS

-----------------------------------------------------------------------------
(* Storage: what the variables hold, and the place that a path names.      *)
Issued == 1..(Cardinality(Slots) + operations)
Steps  == {"check", "unmount", "act", "after", "save"}
IsWork(w) ==
  /\ w = [at |-> w.at, do |-> w.do, on |-> w.on, tree |-> w.tree, left |-> w.left, uuid |-> w.uuid,
          purpose |-> w.purpose]
  /\ w.at \in Steps /\ w.uuid \in Issued
Working(c) == work[c] # NoWork

DisksFit ==
  /\ operations \in Nat /\ name \in Naming /\ parted \subseteq Slots
  /\ fs \in [Slots -> Issued \cup {Nothing}] /\ pools \subseteq Issued
  /\ \A s \in mounted : s \in parted /\ fs[s] # Nothing
  /\ \A s, t \in Slots : fs[s] = fs[t] /\ fs[s] # Nothing => s = t

(* A request at work: its tree names file systems by the paths they have,  *)
(* its own UUID is new until the disk is changed, and whoever meets it on  *)
(* a slot has blurred that.                                                *)
NewUuid(c) ==
  /\ \A s \in Slots : fs[s] # work[c].uuid
  /\ work[c].uuid \notin pools
  /\ \A d \in Requesters : Working(d) => \A p \in DOMAIN work[d].tree : work[d].tree[p] # work[c].uuid
TreeFits(c) ==
  /\ \E s \in Slots : Path(s) = work[c].on
  /\ \A p \in DOMAIN work[c].tree :
       /\ work[c].tree[p] \in Issued \cup {Nothing}
       /\ \A s \in Slots : fs[s] = work[c].tree[p] /\ fs[s] # Nothing => Path(s) = p
Meet(c, d) == Target(c) \cap Target(d) \subseteq blurred

WorkFits ==
  /\ work = [c \in Requesters |-> work[c]]
  /\ \A c \in Requesters : Working(c) =>
       /\ IsWork(work[c]) /\ TreeFits(c)
       /\ work[c].at \in {"check", "unmount", "act"} => NewUuid(c)
       /\ \A d \in Requesters \ {c} : Working(d) => work[d].uuid # work[c].uuid /\ Meet(c, d)

(* What a request will do is safe: a pool is made on the file system that  *)
(* is there, and what a pool uses is destroyed by none, unless another     *)
(* request blurred the slot.                                               *)
Dangerous == {"format", "delete", "delete_all"}
Promised  == pools \ doubtful
PoolIsThere(c) ==
  work[c].at = "save" /\ work[c].do = "pool" =>
    /\ work[c].on \in DOMAIN work[c].tree /\ Node(c) # Nothing
    /\ \E s \in Slots : Path(s) = work[c].on /\ SlotAt(work[c].on) = s
         /\ (s \notin blurred => s \in parted /\ fs[s] = Node(c))
Spares(c) ==
  work[c].do \in Dangerous =>
    \A s \in Target(c) \cap parted : fs[s] \in Promised =>
      /\ work[c].at \notin {"unmount", "act"}
      /\ work[c].at = "check" => Path(s) \in DOMAIN work[c].tree /\ work[c].tree[Path(s)] = fs[s]
WorkIsSafe == \A c \in Requesters : Working(c) => PoolIsThere(c) /\ Spares(c)

PoolsFit == DisksFit /\ WorkFits /\ WorkIsSafe /\ PoolSurvives

LEMMA PathNamesOne ==
  ASSUME name \in Naming, NEW s \in Slots, NEW t \in Slots, Path(s) = Path(t)
  PROVE  s = t
BY StorageAssumption DEF Path, Naming, Disks

LEMMA SlotIsThere ==
  ASSUME name \in Naming, NEW s \in Slots
  PROVE  SlotAt(Path(s)) = s
BY PathNamesOne DEF SlotAt

LEMMA PoolsInit == StorageInit => PoolsFit
<1> SUFFICES ASSUME StorageInit PROVE PoolsFit
  OBVIOUS
<1> DEFINE n == Cardinality(Slots)
           Numbering == {f \in [Slots -> 1..n] : \A s, t \in Slots : f[s] = f[t] => s = t}
<1>1. n \in Nat /\ Issued = 1..n
  <2>1. n \in Nat
    BY FS_CardinalityType, StorageAssumption
  <2> QED BY <2>1 DEF StorageInit, Issued
<1>2. Numbering # {}
  <2>1. IsFiniteSet(1..n) /\ Cardinality(1..n) = n
    BY <1>1, FS_Interval
  <2>2. ExistsBijection(Slots, 1..n)
    BY <2>1, FS_SameCardinalityBij, StorageAssumption
  <2> QED BY <2>2 DEF ExistsBijection, Bijection, Injection, Surjection, IsInjective
<1>3. fs \in Numbering
  <2>1. (CHOOSE f \in Numbering : TRUE) \in Numbering
    BY <1>2
  <2>2. fs = CHOOSE f \in Numbering : TRUE
    BY DEF StorageInit
  <2> QED BY <2>1, <2>2
<1>4. name \in Naming
  BY StorageAssumption DEF StorageInit
<1>5. DisksFit
  <2>1. mounted \subseteq Slots /\ parted = Slots /\ operations = 0 /\ pools \subseteq {fs[s] : s \in mounted}
    BY DEF StorageInit
  <2>2. \A s \in Slots : fs[s] \in 1..n /\ fs[s] # Nothing
    BY <1>1, <1>3, StorageAssumption
  <2> QED BY <2>1, <2>2, <1>1, <1>3, <1>4 DEF DisksFit
<1>6. WorkFits /\ WorkIsSafe
  BY DEF StorageInit, WorkFits, WorkIsSafe, Working
<1>7. PoolSurvives
  BY <1>3 DEF StorageInit, PoolSurvives
<1> QED BY <1>5, <1>6, <1>7 DEF PoolsFit

-----------------------------------------------------------------------------
(* A request goes on, with the same work on the same slots.                *)
Goes(d) ==
  /\ Working(d) /\ UNCHANGED name
  /\ work'[d].do = work[d].do /\ work'[d].on = work[d].on /\ work'[d].uuid = work[d].uuid
  /\ work'[d].tree = work[d].tree

LEMMA TargetStays ==
  ASSUME NEW d, Goes(d)
  PROVE  /\ Target(d)' = Target(d) /\ (Node(d))' = Node(d)
         /\ \A s \in Slots : Path(s)' = Path(s)
         /\ SlotAt(work[d].on)' = SlotAt(work[d].on)
BY DEF Goes, Target, SlotsOf, OnDisk, Path, Node, SlotAt

(* Whatever else a step does to requests: the disks and the pools stay, and*)
(* each request ends or goes on.                                           *)
Onward(d) ==
  \/ work'[d] = NoWork
  \/ /\ Goes(d) /\ IsWork(work[d])' /\ work'[d].at \in {work[d].at, "act", "after"}
     /\ work'[d].at = "act" => work[d].at \in {"unmount", "act"}

LEMMA PoolsKept ==
  ASSUME PoolsFit, UNCHANGED <<parted, fs, pools, doubtful, operations>>, name' \in Naming,
         mounted' \subseteq mounted, blurred \subseteq blurred', work' = [c \in Requesters |-> work'[c]],
         \A d \in Requesters : Onward(d)
  PROVE  PoolsFit'
<1>1. DisksFit'
  BY DEF PoolsFit, DisksFit, Issued
<1>2. PoolSurvives'
  BY DEF PoolsFit, PoolSurvives
<1>3. ASSUME NEW d \in Requesters, Working(d)'
      PROVE  /\ Goes(d) /\ IsWork(work[d])' /\ work'[d].at \in {work[d].at, "act", "after"}
             /\ work'[d].at = "act" => work[d].at \in {"unmount", "act"}
  BY <1>3 DEF Onward, Working
<1>4. ASSUME NEW c \in Requesters, Working(c)'
      PROVE  TreeFits(c)'
  <2>1. Goes(c) /\ TreeFits(c) /\ \A s \in Slots : Path(s)' = Path(s)
    BY <1>3, <1>4, TargetStays DEF PoolsFit, WorkFits, Goes
  <2> QED BY <2>1 DEF TreeFits, Goes, Issued
<1>5. ASSUME NEW c \in Requesters, Working(c)', work'[c].at \in {"check", "unmount", "act"}
      PROVE  NewUuid(c)'
  <2>1. Goes(c) /\ NewUuid(c)
    BY <1>3, <1>5 DEF PoolsFit, WorkFits, Goes
  <2> QED BY <1>3, <2>1 DEF NewUuid, Goes
<1>6. ASSUME NEW c \in Requesters, NEW d \in Requesters \ {c}, Working(c)', Working(d)'
      PROVE  work'[d].uuid # work'[c].uuid /\ Meet(c, d)'
  <2>1. Goes(c) /\ Goes(d) /\ work[d].uuid # work[c].uuid /\ Meet(c, d)
    BY <1>3, <1>6 DEF PoolsFit, WorkFits, Goes
  <2> QED BY <2>1, TargetStays DEF Meet, Goes
<1>7. WorkFits'
  BY <1>3, <1>4, <1>5, <1>6 DEF WorkFits
<1>8. ASSUME NEW c \in Requesters, Working(c)'
      PROVE  PoolIsThere(c)' /\ Spares(c)'
  <2>a. Goes(c) /\ PoolIsThere(c) /\ Spares(c) /\ parted \subseteq Slots
    BY <1>3, <1>8 DEF PoolsFit, DisksFit, WorkIsSafe, Goes
  <2>1. Target(c)' = Target(c) /\ (Node(c))' = Node(c)
        /\ (\A s \in Slots : Path(s)' = Path(s)) /\ SlotAt(work[c].on)' = SlotAt(work[c].on)
    BY <2>a, TargetStays
  <2>2. PoolIsThere(c)'
    BY <1>3, <1>8, <2>a, <2>1 DEF PoolIsThere, Goes
  <2>3. Spares(c)'
    BY <1>3, <1>8, <2>a, <2>1 DEF Spares, Goes, Promised
  <2> QED BY <2>2, <2>3
<1> QED BY <1>1, <1>2, <1>7, <1>8 DEF PoolsFit, WorkIsSafe

Others(c) == work' = [d \in Requesters |-> work'[d]] /\ \A d \in Requesters \ {c} : work'[d] = work[d]

LEMMA OthersOnward ==
  ASSUME PoolsFit, UNCHANGED <<name, operations>>, NEW d \in Requesters, work'[d] = work[d]
  PROVE  Onward(d)
<1>1. CASE work[d] = NoWork
  BY <1>1 DEF Onward
<1>2. CASE work[d] # NoWork
  <2>1. IsWork(work[d])'
    BY <1>2 DEF PoolsFit, WorkFits, Working, IsWork, Issued
  <2> QED BY <1>2, <2>1 DEF Onward, Goes, Working
<1> QED BY <1>1, <1>2

LEMMA StepGoes ==
  ASSUME PoolsFit, UNCHANGED <<name, operations>>, NEW c \in Requesters, Working(c), NEW at \in Steps, Step(c, at)
  PROVE  Others(c) /\ Goes(c) /\ IsWork(work[c])' /\ work'[c].at = at
<1>1. work = [d \in Requesters |-> work[d]] /\ IsWork(work[c])
  BY DEF PoolsFit, WorkFits
<1>2. Others(c) /\ work'[c] = [work[c] EXCEPT !.at = at]
  BY <1>1, Zenon DEF Step, Others
<1>3. work'[c] = [at |-> at, do |-> work[c].do, on |-> work[c].on, tree |-> work[c].tree, left |-> work[c].left,
                  uuid |-> work[c].uuid, purpose |-> work[c].purpose]
  BY <1>1, <1>2 DEF IsWork
<1> QED BY <1>1, <1>2, <1>3 DEF Goes, IsWork, Issued

LEMMA ReplyEnds ==
  ASSUME PoolsFit, NEW c \in Requesters, Reply(c)
  PROVE  Others(c) /\ work'[c] = NoWork
BY DEF PoolsFit, WorkFits, Reply, Others

LEMMA AtWorks == ASSUME NEW c, work[c].at \in Steps PROVE Working(c)
BY DEF Working, NoWork, Steps

LEMMA QuietSteps ==
  ASSUME PoolsFit, NEW c \in Requesters,
         Unmount(c) \/ RefuseOperation(c) \/ UpdatePurposes(c) \/ OperationFails(c) \/ Abandon(c)
  PROVE  PoolsFit'
<1>1. /\ UNCHANGED <<parted, fs, pools, doubtful, operations, name>> /\ mounted' \subseteq mounted
      /\ blurred \subseteq blurred'
  BY DEF Unmount, RefuseOperation, UpdatePurposes, OperationFails, Abandon, Unchanged, Blur
<1>2. name' \in Naming
  BY <1>1 DEF PoolsFit, DisksFit
<1>3. CASE Reply(c)
  BY <1>1, <1>2, <1>3, ReplyEnds, OthersOnward, PoolsKept DEF Others, Onward
<1>4. CASE Unmount(c) /\ Step(c, "act")
  <2>1. Working(c) /\ Others(c) /\ Goes(c) /\ IsWork(work[c])' /\ work'[c].at = "act" /\ work[c].at = "unmount"
    BY <1>1, <1>4, StepGoes, AtWorks DEF Unmount, Steps
  <2>2. Onward(c)
    BY <2>1 DEF Onward
  <2> QED BY <1>1, <1>2, <2>1, <2>2, OthersOnward, PoolsKept DEF Others
<1>5. CASE Abandon(c)
  <2>1. Working(c) /\ IsWork(work[c]) /\ work = [d \in Requesters |-> work[d]]
    BY <1>5, AtWorks DEF PoolsFit, WorkFits, Abandon, InHelper, Steps
  <2>2. Others(c) /\ work'[c] = [work[c] EXCEPT !.left = TRUE]
    BY <1>5, <2>1 DEF Abandon, Leave, Others, Working
  <2>3. work'[c] = [at |-> work[c].at, do |-> work[c].do, on |-> work[c].on, tree |-> work[c].tree, left |-> TRUE,
                    uuid |-> work[c].uuid, purpose |-> work[c].purpose]
    BY <2>1, <2>2 DEF IsWork
  <2>4. Onward(c)
    BY <1>1, <1>5, <2>1, <2>3 DEF Onward, Goes, IsWork, Issued, Abandon, InHelper
  <2> QED BY <1>1, <1>2, <2>2, <2>4, OthersOnward, PoolsKept DEF Others
<1> QED BY <1>3, <1>4, <1>5 DEF Unmount, RefuseOperation, UpdatePurposes, OperationFails

LEMMA HostSteps ==
  ASSUME PoolsFit, CoreRestarts \/ RebootHost
  PROVE  PoolsFit'
<1>1. /\ UNCHANGED <<parted, fs, pools, doubtful, operations>> /\ mounted' \subseteq mounted
      /\ blurred \subseteq blurred'
  BY DEF CoreRestarts, RebootHost, Blur
<1>2. CASE CoreRestarts
  <2>1. UNCHANGED name /\ name' \in Naming
    BY <1>2 DEF PoolsFit, DisksFit, CoreRestarts
  <2>2. ASSUME NEW d \in Requesters, Working(d), InHelper(d) PROVE Onward(d)
    <3>1. IsWork(work[d]) /\ work'[d] = [work[d] EXCEPT !.left = TRUE]
      BY <1>2, <2>2 DEF PoolsFit, WorkFits, CoreRestarts, Leave, Working
    <3>3. work'[d] = [at |-> work[d].at, do |-> work[d].do, on |-> work[d].on, tree |-> work[d].tree, left |-> TRUE,
                      uuid |-> work[d].uuid, purpose |-> work[d].purpose]
      BY <3>1 DEF IsWork
    <3> QED BY <1>1, <2>1, <2>2, <3>1, <3>3 DEF Onward, Goes, IsWork, Issued, InHelper
  <2>3. ASSUME NEW d \in Requesters, ~Working(d) \/ ~InHelper(d) PROVE Onward(d)
    BY <1>2, <2>3 DEF CoreRestarts, Leave, Onward, Working
  <2>4. work' = [d \in Requesters |-> work'[d]]
    BY <1>2 DEF CoreRestarts, Leave
  <2> QED BY <1>1, <2>1, <2>2, <2>3, <2>4, PoolsKept
<1>3. CASE RebootHost
  BY <1>1, <1>3, PoolsKept DEF RebootHost, Onward
<1> QED BY <1>2, <1>3

(* A request that a step leaves alone, on disks that it leaves alone.      *)
LEMMA SafeStays ==
  ASSUME NEW d \in Requesters, Working(d), work'[d] = work[d], PoolIsThere(d), Spares(d), parted \subseteq Slots,
         UNCHANGED <<name, parted, fs>>, blurred \subseteq blurred', Promised' \subseteq Promised
  PROVE  PoolIsThere(d)' /\ Spares(d)'
<1>1. Goes(d)
  BY DEF Goes
<1>2. Target(d)' = Target(d) /\ Node(d)' = Node(d) /\ SlotAt(work[d].on)' = SlotAt(work[d].on)
      /\ \A s \in Slots : Path(s)' = Path(s)
  BY <1>1, TargetStays
<1> QED BY <1>2 DEF PoolIsThere, Spares

LEMMA AskKeeps ==
  ASSUME PoolsFit, NEW c \in Requesters, NEW do, NEW p \in DevPaths, NEW purpose, NEW seen \in BOOLEAN,
         Ask(c, do, p, purpose, seen)
  PROVE  PoolsFit'
<1> DEFINE slots == SlotsOf(do, p)
           found == {s \in slots \cap parted : seen}
           tree  == [q \in {Path(s) : s \in found} |-> fs[SlotAt(q)]]
           new   == Cardinality(Slots) + operations'
<1>0. PoolsFit /\ DisksFit /\ WorkFits /\ WorkIsSafe /\ slots \subseteq Slots /\ parted \subseteq Slots
  BY DEF PoolsFit, DisksFit, SlotsOf
<1>1. /\ UNCHANGED <<name, parted, fs, pools, mounted>> /\ operations' = operations + 1
      /\ blurred' = blurred \cup {s \in slots : AtWork(s) \/ ~seen} /\ work[c] = NoWork
      /\ doubtful \subseteq doubtful' /\ (~seen => \A s \in slots : fs[s] \in doubtful')
  BY DEF Ask
<1>2. /\ Others(c) /\ Target(c)' = slots
      /\ IsWork(work[c])' /\ work'[c].at \in {"act", "check"} /\ work'[c].do = do /\ work'[c].on = p
      /\ work'[c].tree = tree /\ work'[c].uuid = new
      /\ do \in Dangerous => work'[c].at = "check"
  <2>1. work' = [work EXCEPT ![c] =
          [at |-> IF do \in {"mount", "create"} THEN "act" ELSE "check", do |-> do, on |-> p,
           tree |-> tree, left |-> FALSE, uuid |-> new,
           purpose |-> IF do = "format" /\ p \in DOMAIN tree THEN Recorded(p, tree[p]) ELSE purpose]]
    BY DEF Ask
  <2>2. Others(c) /\ work'[c] =
          [at |-> IF do \in {"mount", "create"} THEN "act" ELSE "check", do |-> do, on |-> p,
           tree |-> tree, left |-> FALSE, uuid |-> new,
           purpose |-> IF do = "format" /\ p \in DOMAIN tree THEN Recorded(p, tree[p]) ELSE purpose]
    BY <1>0, <2>1, Zenon DEF WorkFits, Others
  <2>3. new \in 1..(Cardinality(Slots) + operations')
    BY <1>0, <1>1, FS_CardinalityType, StorageAssumption DEF DisksFit
  <2>4. Target(c)' = slots
    BY <1>1, <2>2 DEF Target, SlotsOf, OnDisk, Path
  <2> HIDE DEF tree, new
  <2>5. work'[c].at = IF do \in {"mount", "create"} THEN "act" ELSE "check"
    BY <2>2
  <2>6. /\ work'[c].do = do /\ work'[c].on = p /\ work'[c].tree = tree /\ work'[c].uuid = new
        /\ work'[c] = [at |-> work'[c].at, do |-> work'[c].do, on |-> work'[c].on, tree |-> work'[c].tree,
                       left |-> work'[c].left, uuid |-> work'[c].uuid, purpose |-> work'[c].purpose]
    BY <2>2
  <2> QED BY <2>2, <2>3, <2>4, <2>5, <2>6 DEF IsWork, Steps, Dangerous, Issued
<1>3. /\ Issued \subseteq Issued' /\ new \notin Issued /\ new # Nothing /\ Issued \subseteq Nat
  BY <1>0, <1>1, FS_CardinalityType, StorageAssumption DEF DisksFit, Issued
<1>4. /\ DOMAIN tree = {Path(s) : s \in found} /\ found \subseteq slots \cap parted
      /\ \A s \in found : tree[Path(s)] = fs[s]
      /\ seen => found = slots \cap parted
  BY <1>0, SlotIsThere DEF DisksFit
<1> HIDE DEF tree, new, slots, found
<1>5. DisksFit'
  <2>1. operations' \in Nat /\ fs' \in [Slots -> Issued' \cup {Nothing}] /\ pools' \subseteq Issued'
    <3>1. operations \in Nat /\ fs \in [Slots -> Issued \cup {Nothing}] /\ pools \subseteq Issued
      BY <1>0 DEF DisksFit
    <3>2. Issued \subseteq Issued' /\ UNCHANGED <<fs, pools>> /\ operations' = operations + 1
      BY <1>1, <1>3
    <3> QED BY <3>1, <3>2
  <2> QED BY <1>0, <1>1, <2>1 DEF DisksFit
<1>6. ASSUME NEW d \in Requesters \ {c} PROVE work'[d] = work[d] /\ Working(d)' = Working(d)
  BY <1>2 DEF Others, Working
<1>7. ASSUME NEW d \in Requesters \ {c}, Working(d)
      PROVE  /\ IsWork(work[d])' /\ TreeFits(d)' /\ Target(d)' = Target(d)
             /\ work[d].at \in {"check", "unmount", "act"} => NewUuid(d)'
             /\ work'[d].uuid # new /\ Meet(d, c)' /\ Meet(c, d)'
  <2>1. IsWork(work[d]) /\ TreeFits(d) /\ Goes(d)
    BY <1>0, <1>1, <1>6, <1>7 DEF WorkFits, Goes
  <2>2. IsWork(work[d])' /\ work'[d].uuid # new
    BY <1>3, <1>6, <2>1 DEF IsWork
  <2>3. Target(d)' = Target(d) /\ \A s \in Slots : Path(s)' = Path(s)
    BY <2>1, TargetStays
  <2>4. TreeFits(d)'
    BY <1>1, <1>3, <1>6, <2>1, <2>3 DEF TreeFits
  <2>5. Meet(d, c)' /\ Meet(c, d)'
    BY <1>1, <1>2, <1>7, <2>3 DEF Meet, AtWork, Working, Target, SlotsOf
  <2>6. ASSUME work[d].at \in {"check", "unmount", "act"} PROVE NewUuid(d)'
    <3>1. NewUuid(d)
      BY <1>0, <1>7, <2>6 DEF WorkFits
    <3>2. \A q \in DOMAIN tree : tree[q] # work[d].uuid
      BY <1>0, <1>4, <3>1 DEF NewUuid
    <3> QED BY <1>1, <1>2, <1>6, <3>1, <3>2 DEF NewUuid
  <2> QED BY <2>2, <2>3, <2>4, <2>5, <2>6
<1>8. TreeFits(c)' /\ NewUuid(c)'
  <2>1. \A q \in DOMAIN tree : \E s \in found : q = Path(s) /\ tree[q] = fs[s]
    BY <1>4
  <2>2. TreeFits(c)'
    <3>1. \A s \in Slots : fs[s] \in Issued \cup {Nothing}
      BY <1>0 DEF DisksFit
    <3>2. ASSUME NEW q \in DOMAIN tree
          PROVE  tree[q] \in Issued' \cup {Nothing} /\ \A t \in Slots : fs[t] = tree[q] /\ fs[t] # Nothing => Path(t) = q
      <4>1. PICK s \in found : q = Path(s) /\ tree[q] = fs[s]
        BY <2>1
      <4> QED BY <1>0, <1>3, <1>4, <3>1, <4>1 DEF DisksFit
    <3>3. \A t \in Slots : Path(t)' = Path(t)
      BY <1>1 DEF Path
    <3>4. \E t \in Slots : Path(t) = p
      BY DEF DevPaths
    <3> QED BY <1>1, <1>2, <3>2, <3>3, <3>4 DEF TreeFits
  <2>3. \A d \in Requesters : Working(d)' => \A q \in DOMAIN work'[d].tree : work'[d].tree[q] # new
    <3>1. ASSUME NEW q \in DOMAIN tree PROVE tree[q] # new
      <4>1. PICK s \in found : tree[q] = fs[s]
        BY <2>1
      <4>2. s \in Slots /\ fs[s] \in Issued \cup {Nothing}
        BY <1>0, <1>4 DEF DisksFit
      <4> QED BY <1>3, <4>1, <4>2
    <3>2. \A d \in Requesters \ {c} : Working(d) => \A q \in DOMAIN work[d].tree : work[d].tree[q] # new
      BY <1>0, <1>3 DEF WorkFits, TreeFits
    <3> QED BY <1>2, <1>6, <3>1, <3>2
  <2> QED BY <1>0, <1>1, <1>2, <1>3, <2>2, <2>3 DEF NewUuid, DisksFit
<1>9. WorkFits'
  <2>1. ASSUME NEW d \in Requesters, NEW e \in Requesters \ {d}, Working(d)', Working(e)'
        PROVE  work'[e].uuid # work'[d].uuid /\ Meet(d, e)'
    <3>1. CASE d = c \/ e = c
      BY <1>2, <1>6, <1>7, <2>1, <3>1
    <3>2. CASE d # c /\ e # c
      BY <1>0, <1>1, <1>6, <1>7, <2>1, <3>2 DEF WorkFits, Meet
    <3> QED BY <3>1, <3>2
  <2>2. ASSUME NEW d \in Requesters, Working(d)'
        PROVE  /\ IsWork(work[d])' /\ TreeFits(d)'
               /\ work'[d].at \in {"check", "unmount", "act"} => NewUuid(d)'
    BY <1>2, <1>6, <1>7, <1>8, <2>2
  <2> QED BY <1>2, <2>1, <2>2 DEF WorkFits, Others
<1>10. PoolIsThere(c)' /\ Spares(c)'
  <2>1. PoolIsThere(c)'
    BY <1>2 DEF PoolIsThere
  <2>2. \A s \in Slots : Path(s)' = Path(s)
    BY <1>1 DEF Path
  <2>3. CASE seen
    BY <1>0, <1>1, <1>2, <1>4, <2>1, <2>2, <2>3 DEF Spares
  <2>4. CASE ~seen
    BY <1>1, <1>2, <2>1, <2>4 DEF Spares, Promised
  <2> QED BY <2>3, <2>4
<1>11. WorkIsSafe'
  BY <1>0, <1>1, <1>6, <1>10, SafeStays DEF WorkIsSafe, Promised
<1> QED BY <1>1, <1>5, <1>9, <1>11 DEF PoolsFit, PoolSurvives

(* A check passed: the request has read no other UUIDs than those there.   *)
LEMMA CheckedKeeps ==
  ASSUME PoolsFit, NEW c \in Requesters, Working(c), work[c].at = "check", Others(c),
         UNCHANGED <<name, parted, fs, mounted, pools, doubtful, blurred, operations>>,
         work'[c].do = work[c].do, work'[c].on = work[c].on, work'[c].uuid = work[c].uuid,
         work'[c].at \in {"save", "unmount"}, IsWork(work[c])', TreeFits(c)',
         \A q \in DOMAIN work'[c].tree :
            \/ \E s \in Slots : work'[c].tree[q] = fs[s]
            \/ q \in DOMAIN work[c].tree /\ work'[c].tree[q] = work[c].tree[q],
         PoolIsThere(c)', Spares(c)'
  PROVE  PoolsFit'
<1>0. DisksFit /\ WorkFits /\ WorkIsSafe /\ parted \subseteq Slots
  BY DEF PoolsFit, DisksFit
<1>1. DisksFit' /\ PoolSurvives'
  BY DEF PoolsFit, DisksFit, PoolSurvives, Issued
<1>2. ASSUME NEW d \in Requesters PROVE Target(d)' = Target(d)
  BY <1>2 DEF Others, Target, SlotsOf, OnDisk, Path
<1>3. ASSUME NEW d \in Requesters \ {c} PROVE work'[d] = work[d] /\ Working(d)' = Working(d)
  BY DEF Others, Working
<1>4. Working(c)'
  BY AtWorks, <1>0 DEF Working, NoWork
<1>5. ASSUME NEW d \in Requesters \ {c}, Working(d) PROVE IsWork(work[d])' /\ TreeFits(d)'
  BY <1>0, <1>3, <1>5 DEF WorkFits, IsWork, TreeFits, Issued, Path
<1>6. ASSUME NEW d \in Requesters, Working(d)', work'[d].at \in {"check", "unmount", "act"} PROVE NewUuid(d)'
  <2>1. Working(d) /\ work[d].at \in {"check", "unmount", "act"} /\ work'[d].uuid = work[d].uuid
    BY <1>3, <1>6
  <2>2. NewUuid(d)
    BY <1>0, <2>1 DEF WorkFits
  <2>3. \A q \in DOMAIN work'[c].tree : work'[c].tree[q] # work[d].uuid
    BY <2>2 DEF NewUuid
  <2> QED BY <1>3, <2>1, <2>2, <2>3 DEF NewUuid
<1>7. ASSUME NEW d \in Requesters, NEW e \in Requesters \ {d}, Working(d)', Working(e)'
      PROVE  work'[e].uuid # work'[d].uuid /\ Meet(d, e)'
  <2>1. Working(d) /\ Working(e) /\ work'[d].uuid = work[d].uuid /\ work'[e].uuid = work[e].uuid
    BY <1>3, <1>7
  <2> QED BY <1>0, <1>2, <2>1 DEF WorkFits, Meet
<1>8. WorkFits'
  BY <1>4, <1>5, <1>3, <1>6, <1>7 DEF WorkFits, Others
<1>9. WorkIsSafe'
  BY <1>0, <1>3, SafeStays DEF WorkIsSafe, Promised
<1> QED BY <1>1, <1>8, <1>9 DEF PoolsFit

LEMMA CheckUseKeeps ==
  ASSUME PoolsFit, NEW c \in Requesters, CheckUse(c)
  PROVE  PoolsFit'
<1>1. /\ UNCHANGED <<name, parted, fs, mounted, pools, doubtful, blurred, operations>>
      /\ Working(c) /\ work[c].at = "check"
  BY AtWorks DEF CheckUse, Unchanged, Steps
<1>2. DisksFit /\ WorkFits /\ WorkIsSafe /\ IsWork(work[c]) /\ TreeFits(c) /\ Spares(c) /\ parted \subseteq Slots
  BY <1>1 DEF PoolsFit, DisksFit, WorkFits, WorkIsSafe
<1>3. CASE Reply(c)
  BY <1>1, <1>2, <1>3, ReplyEnds, OthersOnward, PoolsKept DEF Others, Onward, DisksFit
<1>4. ASSUME NEW at \in {"save", "unmount"}, Step(c, at), at = "save" => ~Does(c, {"pool"}),
             at = "unmount" => ~InUse(work[c].tree), at = "save" => work[c].do \notin Dangerous
      PROVE  PoolsFit'
  <2>1. Others(c) /\ Goes(c) /\ IsWork(work[c])' /\ work'[c].at = at
    BY <1>1, <1>4, StepGoes DEF Steps
  <2>2. Target(c)' = Target(c) /\ \A s \in Slots : Path(s)' = Path(s)
    BY <2>1, TargetStays
  <2>3. TreeFits(c)'
    BY <1>1, <1>2, <2>1, <2>2 DEF TreeFits, Goes, Issued
  <2>4. PoolIsThere(c)'
    BY <1>4, <2>1 DEF PoolIsThere, Goes, Does
  <2>5. Spares(c)'
    <3> SUFFICES ASSUME work'[c].do \in Dangerous, NEW s \in Target(c)' \cap parted', fs'[s] \in Promised'
                 PROVE  FALSE
      BY <2>1 DEF Spares, Goes
    <3>1. Path(s) \in DOMAIN work[c].tree /\ work[c].tree[Path(s)] = fs[s] /\ fs[s] \in pools
      BY <1>1, <1>2, <2>1, <2>2 DEF Spares, Goes, Promised
    <3>2. at = "unmount"
      BY <1>4, <2>1 DEF Goes
    <3> QED BY <1>4, <3>1, <3>2 DEF InUse
  <2> QED BY <1>1, <2>1, <2>3, <2>4, <2>5, CheckedKeeps DEF Goes
<1>5. ASSUME Does(c, {"pool"}), SlotAt(work[c].on) \in mounted,
             work' = [work EXCEPT ![c].at = "save", ![c].tree = [q \in {work[c].on} |-> fs[SlotAt(work[c].on)]]]
      PROVE  PoolsFit'
  <2> DEFINE s == SlotAt(work[c].on)
             tree == [q \in {work[c].on} |-> fs[s]]
  <2> HIDE DEF s, tree
  <2>1. Others(c) /\ work'[c] = [[work[c] EXCEPT !.at = "save"] EXCEPT !.tree = tree]
    BY <1>2, <1>5 DEF WorkFits, Others, s, tree
  <2>2. work'[c] = [at |-> "save", do |-> work[c].do, on |-> work[c].on, tree |-> tree,
                    left |-> work[c].left, uuid |-> work[c].uuid, purpose |-> work[c].purpose]
    BY <1>2, <2>1 DEF IsWork
  <2>3. IsWork(work[c])' /\ work'[c].at = "save" /\ work'[c].tree = tree /\ work'[c].do = work[c].do
        /\ work'[c].on = work[c].on /\ work'[c].uuid = work[c].uuid
    BY <1>1, <1>2, <2>2 DEF IsWork, Steps, Issued
  <2>4. s \in Slots /\ s \in parted /\ fs[s] # Nothing /\ fs[s] \in Issued
    BY <1>2, <1>5 DEF DisksFit, s
  <2>5. Path(s) = work[c].on
    BY <1>2, SlotIsThere DEF TreeFits, DisksFit, s
  <2>6. Target(c)' = Target(c) /\ \A t \in Slots : Path(t)' = Path(t)
    BY <1>1, <2>3 DEF Target, SlotsOf, OnDisk, Path
  <2>7. TreeFits(c)'
    <3>1. ASSUME NEW t \in Slots, fs[t] = fs[s] PROVE Path(t) = work[c].on
      BY <1>2, <2>4, <2>5, <3>1 DEF DisksFit
    <3> QED BY <1>1, <2>3, <2>4, <2>5, <2>6, <3>1 DEF TreeFits, tree, Issued
  <2>8. PoolIsThere(c)'
    <3>1. Node(c)' = fs[s] /\ work'[c].on \in DOMAIN work'[c].tree
      BY <2>3 DEF Node, tree
    <3>2. SlotAt(work[c].on)' = s
      BY <1>1, <2>3 DEF SlotAt, Path, s
    <3> QED BY <1>1, <2>3, <2>4, <2>5, <2>6, <3>1, <3>2 DEF PoolIsThere
  <2>9. Spares(c)'
    BY <1>5, <2>3 DEF Spares, Dangerous, Does
  <2> QED BY <1>1, <2>1, <2>3, <2>4, <2>7, <2>8, <2>9, CheckedKeeps DEF tree
<1> QED BY <1>1, <1>3, <1>4, <1>5 DEF CheckUse, Does, Dangerous

(* The helper has changed the slots of a request: it gave none of them a   *)
(* file system but its own, and no pool's file system appeared.            *)
LEMMA DiskKeeps ==
  ASSUME PoolsFit, NEW c \in Requesters, Working(c), work[c].at = "act", Others(c),
         work'[c] = NoWork \/ (Goes(c) /\ IsWork(work[c])' /\ work'[c].at = "after"),
         UNCHANGED <<name, pools, doubtful, blurred, operations>>, DisksFit', PoolSurvives',
         \A s \in Slots : fs'[s] \in {fs[s], Nothing, work[c].uuid},
         \A s \in Slots \ Target(c) : fs'[s] = fs[s] /\ (s \in parted' <=> s \in parted),
         \A s \in parted' : fs'[s] \in Promised => s \in parted /\ fs'[s] = fs[s]
  PROVE  PoolsFit'
<1>0. DisksFit /\ WorkFits /\ WorkIsSafe /\ NewUuid(c) /\ IsWork(work[c]) /\ parted \subseteq Slots
      /\ parted' \subseteq Slots
  BY DEF PoolsFit, DisksFit, WorkFits
<1>1. ASSUME NEW d \in Requesters \ {c} PROVE work'[d] = work[d] /\ Working(d)' = Working(d)
  BY DEF Others, Working
<1>2. ASSUME NEW d \in Requesters, Working(d)'
      PROVE  Goes(d) /\ IsWork(work[d])' /\ (d = c => work'[d].at = "after") /\ (d # c => work'[d].at = work[d].at)
  <2>1. CASE d = c
    BY <1>2, <2>1 DEF Working
  <2>2. CASE d # c
    BY <1>0, <1>1, <1>2, <2>2 DEF Goes, WorkFits, IsWork, Issued
  <2> QED BY <2>1, <2>2
<1>3. ASSUME NEW d \in Requesters, Working(d)'
      PROVE  /\ Target(d)' = Target(d) /\ Node(d)' = Node(d) /\ SlotAt(work[d].on)' = SlotAt(work[d].on)
             /\ \A s \in Slots : Path(s)' = Path(s)
  BY <1>2, <1>3, TargetStays
<1>4. ASSUME NEW d \in Requesters, Working(d)' PROVE TreeFits(d)'
  <2>1. TreeFits(d) /\ Goes(d) /\ \A q \in DOMAIN work[d].tree : work[d].tree[q] # work[c].uuid
    BY <1>0, <1>2, <1>4 DEF WorkFits, NewUuid, Goes
  <2> QED BY <1>3, <1>4, <2>1 DEF TreeFits, Goes, Issued
<1>5. ASSUME NEW d \in Requesters, Working(d)', work'[d].at \in {"check", "unmount", "act"} PROVE NewUuid(d)'
  <2>1. d # c /\ Working(d) /\ NewUuid(d) /\ work'[d].uuid = work[d].uuid
    BY <1>0, <1>2, <1>5 DEF WorkFits, Goes
  <2>2. work[c].uuid # work[d].uuid /\ work[d].uuid # Nothing
    BY <1>0, <2>1, FS_CardinalityType, StorageAssumption DEF WorkFits, IsWork, Issued, DisksFit
  <2>3. \A e \in Requesters : Working(e)' => Working(e) /\ work'[e].tree = work[e].tree
    BY <1>2 DEF Goes
  <2> QED BY <2>1, <2>2, <2>3 DEF NewUuid
<1>6. ASSUME NEW d \in Requesters, NEW e \in Requesters \ {d}, Working(d)', Working(e)'
      PROVE  work'[e].uuid # work'[d].uuid /\ Meet(d, e)'
  BY <1>0, <1>2, <1>3, <1>6 DEF WorkFits, Meet, Goes
<1>7. WorkFits'
  BY <1>2, <1>4, <1>5, <1>6 DEF WorkFits, Others
<1>8. ASSUME NEW d \in Requesters, Working(d)' PROVE PoolIsThere(d)' /\ Spares(d)'
  <2>1. CASE d = c
    BY <1>2, <1>8, <2>1 DEF PoolIsThere, Spares
  <2>2. CASE d # c
    <3>1. PoolIsThere(d) /\ Spares(d) /\ Goes(d) /\ work'[d] = work[d] /\ Meet(c, d)
      BY <1>0, <1>1, <1>2, <1>8, <2>2 DEF WorkIsSafe, WorkFits
    <3>2. ASSUME work[d].do = "pool", NEW s \in Slots, Path(s) = work[d].on, s \notin blurred PROVE s \notin Target(c)
      BY <3>1, <3>2 DEF Meet, Target, SlotsOf, OnDisk
    <3>3. PoolIsThere(d)'
      BY <1>3, <1>8, <3>1, <3>2 DEF PoolIsThere
    <3>4. Spares(d)'
      BY <1>0, <1>3, <1>8, <3>1 DEF Spares, Promised
    <3> QED BY <3>3, <3>4
  <2> QED BY <2>1, <2>2
<1> QED BY <1>7, <1>8 DEF PoolsFit, WorkIsSafe

(* Of some slots, one has the lowest number: sfdisk takes it for a new one. *)
LEMMA FirstSlot ==
  ASSUME NEW T \in SUBSET Slots, T # {}
  PROVE  \E s \in T : \A t \in T : s[2] <= t[2]
<1> DEFINE N == {s[2] : s \in T}
           R == OpToRel(<, Nat)
<1>1. N \subseteq Nat /\ N # {}
  BY StorageAssumption
<1>2. IsWellFoundedOn(R, Nat)
  BY NatLessThanWellFounded
<1>3. \A x, y \in Nat : <<x, y>> \in R <=> x < y
  BY DEF OpToRel
<1> HIDE DEF N, R
<1>4. \E n \in N : \A m \in N : ~ (<<m, n>> \in R)
  BY <1>1, <1>2, WFMin
<1>5. ASSUME NEW n \in N, NEW m \in N, ~ (<<m, n>> \in R) PROVE n <= m
  <2>1. n \in Nat /\ m \in Nat
    BY <1>1
  <2>2. ~(m < n)
    BY <1>3, <1>5, <2>1
  <2> QED BY <2>1, <2>2
<1>6. \E n \in N : \A m \in N : n <= m
  BY <1>4, <1>5
<1> QED BY <1>6 DEF N

LEMMA ActKeeps ==
  ASSUME PoolsFit, NEW c \in Requesters, Act(c)
  PROVE  PoolsFit'
<1>1. /\ UNCHANGED <<name, pools, doubtful, blurred, operations>> /\ Working(c) /\ work[c].at = "act"
      /\ Accepted(c) /\ Change(c) /\ (Reply(c) \/ Step(c, "after"))
  BY AtWorks DEF Act, Unchanged, Steps
<1>2. /\ DisksFit /\ WorkFits /\ IsWork(work[c]) /\ TreeFits(c) /\ Spares(c) /\ NewUuid(c) /\ parted \subseteq Slots
      /\ name \in Naming /\ PoolSurvives
  BY <1>1 DEF PoolsFit, DisksFit, WorkFits, WorkIsSafe
<1>3. Others(c) /\ (work'[c] = NoWork \/ (Goes(c) /\ IsWork(work[c])' /\ work'[c].at = "after"))
  BY <1>1, StepGoes, ReplyEnds DEF Steps
<1>4. work[c].uuid \in Issued /\ Nothing \notin Issued /\ work[c].uuid \notin pools /\ Issued' = Issued
      /\ \A s \in Slots : fs[s] # work[c].uuid
  BY <1>1, <1>2, FS_CardinalityType, StorageAssumption DEF IsWork, Issued, DisksFit, NewUuid
<1>5. ASSUME work[c].do \in Dangerous PROVE \A s \in Target(c) \cap parted : fs[s] \notin Promised
  BY <1>1, <1>2, <1>5 DEF Spares
<1>6. Target(c) \subseteq Slots
  BY DEF Target, SlotsOf
<1>7. CASE Does(c, {"format"})
  <2>1. Target(c) \cap mounted = {} /\ fs' = [s \in Slots |-> IF s \in Target(c) THEN work[c].uuid ELSE fs[s]]
        /\ UNCHANGED <<parted, mounted>>
    BY <1>1, <1>7 DEF Accepted, Change, Does
  <2>2. \A s, t \in Target(c) : s = t
    BY <1>2, <1>7, PathNamesOne DEF Target, SlotsOf, OnDisk, Does
  <2>3. DisksFit'
    BY <1>1, <1>2, <1>4, <2>1, <2>2 DEF DisksFit
  <2>4. PoolSurvives'
    BY <1>1, <1>2, <1>5, <1>7, <2>1 DEF PoolSurvives, Promised, Does, Dangerous
  <2>5. \A s \in parted' : fs'[s] \in Promised => s \in parted /\ fs'[s] = fs[s]
    BY <1>2, <1>4, <2>1 DEF Promised
  <2> QED BY <1>1, <1>3, <2>1, <2>3, <2>4, <2>5, DiskKeeps
<1>8. CASE Does(c, {"delete", "delete_all"})
  <2>1. Target(c) \cap mounted = {} /\ parted' = parted \ Target(c) /\ UNCHANGED <<fs, mounted>>
    BY <1>1, <1>8 DEF Accepted, Change, Does
  <2>2. DisksFit'
    BY <1>1, <1>2, <1>4, <2>1 DEF DisksFit
  <2>3. PoolSurvives'
    BY <1>1, <1>2, <1>5, <1>8, <2>1 DEF PoolSurvives, Promised, Does, Dangerous
  <2> QED BY <1>1, <1>3, <2>1, <2>2, <2>3, DiskKeeps
<1>9. CASE Does(c, {"create"})
  <2> DEFINE new == CHOOSE s \in Target(c) \ parted : \A t \in Target(c) \ parted : s[2] <= t[2]
  <2>1. parted' = parted \cup {new} /\ fs' \in {fs, [fs EXCEPT ![new] = Nothing]} /\ UNCHANGED mounted
    BY <1>1, <1>9 DEF Change, Does
  <2>2. new \in Target(c) \ parted
    BY <1>1, <1>6, <1>9, FirstSlot DEF Accepted, Does
  <2> HIDE DEF new
  <2>3. ASSUME NEW s \in Slots PROVE fs'[s] = fs[s] \/ (s = new /\ fs'[s] = Nothing)
    BY <1>2, <2>1 DEF DisksFit
  <2>4. fs' \in [Slots -> Issued \cup {Nothing}]
    BY <1>2, <2>1 DEF DisksFit
  <2>5. DisksFit'
    BY <1>1, <1>2, <1>4, <1>6, <2>1, <2>2, <2>3, <2>4 DEF DisksFit
  <2>6. PoolSurvives'
    BY <1>1, <1>2, <2>1, <2>2, <2>3 DEF PoolSurvives
  <2>7. ASSUME NEW s \in parted', fs'[s] \in Promised PROVE s \in parted /\ fs'[s] = fs[s]
    <3>1. fs'[s] # Nothing /\ fs'[s] = fs[s] /\ s \in Slots
      BY <1>2, <1>4, <1>6, <2>1, <2>2, <2>3, <2>7 DEF Promised, DisksFit
    <3>2. PICK t \in parted : fs[t] = fs[s]
      BY <1>2, <2>7, <3>1 DEF PoolSurvives, Promised
    <3> QED BY <1>2, <3>1, <3>2 DEF DisksFit
  <2> QED BY <1>1, <1>3, <2>1, <2>2, <2>3, <2>5, <2>6, <2>7, DiskKeeps
<1>10. CASE ~Does(c, {"format"}) /\ ~Does(c, {"delete", "delete_all"}) /\ ~Does(c, {"create"})
  <2>1. Target(c) \subseteq parted /\ (\A s \in Target(c) : fs[s] # Nothing) /\ mounted' = mounted \cup Target(c)
        /\ UNCHANGED <<parted, fs>>
    BY <1>1, <1>10 DEF Accepted, Change
  <2>2. DisksFit'
    BY <1>1, <1>2, <1>4, <2>1 DEF DisksFit
  <2>3. PoolSurvives'
    BY <1>1, <1>2, <2>1 DEF PoolSurvives
  <2> QED BY <1>1, <1>3, <2>1, <2>2, <2>3, DiskKeeps
<1> QED BY <1>7, <1>8, <1>9, <1>10

LEMMA SaveKeeps ==
  ASSUME PoolsFit, NEW c \in Requesters, Save(c)
  PROVE  PoolsFit'
<1>1. /\ UNCHANGED <<name, parted, fs, mounted, blurred, operations>> /\ work[c].at = "save" /\ Reply(c) /\ Working(c)
  BY AtWorks DEF Save, Unchanged, Steps
<1>2. /\ DisksFit /\ WorkFits /\ WorkIsSafe /\ TreeFits(c) /\ PoolIsThere(c) /\ PoolSurvives /\ parted \subseteq Slots
  BY <1>1 DEF PoolsFit, DisksFit, WorkFits, WorkIsSafe
<1>3. Others(c) /\ work'[c] = NoWork
  BY <1>1, ReplyEnds
<1>4. CASE ~Does(c, {"pool"})
  <2>1. UNCHANGED <<pools, doubtful>> /\ name' \in Naming
    BY <1>1, <1>2, <1>4 DEF Save, DisksFit
  <2> QED BY <1>1, <1>3, <2>1, OthersOnward, PoolsKept DEF Others, Onward
<1>5. CASE Does(c, {"pool"})
  <2> DEFINE u == Node(c)
  <2>1. pools' = pools \cup {u} /\ doubtful' = doubtful \cup {x \in {u} : SlotAt(work[c].on) \in blurred}
    BY <1>5 DEF Save
  <2>2. PICK s \in Slots : /\ Path(s) = work[c].on /\ SlotAt(work[c].on) = s
                           /\ s \notin blurred => s \in parted /\ fs[s] = u
    BY <1>1, <1>2, <1>5 DEF PoolIsThere, Does
  <2>3. u \in Issued /\ work[c].on \in DOMAIN work[c].tree /\ u # Nothing
    BY <1>1, <1>2, <1>5 DEF PoolIsThere, Does, TreeFits, Node
  <2>4. \A x \in Promised' : x \in Promised \/ (x = u /\ s \notin blurred)
    BY <2>1, <2>2 DEF Promised
  <2>5. s \in Target(c)
    BY <1>5, <2>2 DEF Target, SlotsOf, OnDisk, Does
  <2>6. ASSUME NEW d \in Requesters, Working(d), NewUuid(d) PROVE work[d].uuid # u
    BY <1>1, <2>3, <2>6 DEF NewUuid, Node
  <2> HIDE DEF u
  <2>7. DisksFit' /\ PoolSurvives'
    BY <1>1, <1>2, <2>1, <2>2, <2>3, <2>4 DEF DisksFit, PoolSurvives, Issued, Promised
  <2>8. ASSUME NEW d \in Requesters, Working(d)' PROVE d # c /\ work'[d] = work[d] /\ Working(d) /\ Goes(d)
    BY <1>1, <1>3, <2>8 DEF Others, Working, Goes
  <2>9. ASSUME NEW d \in Requesters, Working(d)'
        PROVE  /\ Target(d)' = Target(d) /\ Node(d)' = Node(d) /\ SlotAt(work[d].on)' = SlotAt(work[d].on)
               /\ \A t \in Slots : Path(t)' = Path(t)
    BY <2>8, <2>9, TargetStays
  <2>10. ASSUME NEW d \in Requesters, Working(d)'
         PROVE  /\ IsWork(work[d])' /\ TreeFits(d)'
                /\ work'[d].at \in {"check", "unmount", "act"} => NewUuid(d)'
    <3>1. IsWork(work[d])' /\ TreeFits(d)'
      BY <1>1, <1>2, <2>8, <2>9, <2>10 DEF WorkFits, IsWork, TreeFits, Issued
    <3>2. ASSUME work'[d].at \in {"check", "unmount", "act"} PROVE NewUuid(d)'
      <4>1. NewUuid(d) /\ work[d].uuid # u
        BY <1>2, <2>6, <2>8, <2>10, <3>2 DEF WorkFits
      <4> QED BY <1>1, <2>1, <2>8, <2>10, <4>1 DEF NewUuid
    <3> QED BY <3>1, <3>2
  <2>11. ASSUME NEW d \in Requesters, NEW e \in Requesters \ {d}, Working(d)', Working(e)'
         PROVE  work'[e].uuid # work'[d].uuid /\ Meet(d, e)'
    BY <1>1, <1>2, <2>8, <2>9, <2>11 DEF WorkFits, Meet
  <2>12. WorkFits'
    BY <1>3, <2>10, <2>11 DEF WorkFits, Others
  <2>13. ASSUME NEW d \in Requesters, Working(d)' PROVE PoolIsThere(d)' /\ Spares(d)'
    <3>1. PoolIsThere(d) /\ Spares(d) /\ Meet(c, d) /\ work'[d] = work[d]
      BY <1>1, <1>2, <2>8, <2>13 DEF WorkIsSafe, WorkFits
    <3>2. PoolIsThere(d)'
      BY <1>1, <2>9, <2>13, <3>1 DEF PoolIsThere
    <3>3. ASSUME NEW t \in Target(d) \cap parted, fs[t] \in Promised' PROVE fs[t] \in Promised
      <4> SUFFICES ASSUME fs[t] = u, s \notin blurred PROVE FALSE
        BY <2>4, <3>3
      <4>1. t = s
        BY <1>2, <2>2, <2>3 DEF DisksFit
      <4> QED BY <2>5, <3>1, <4>1 DEF Meet
    <3>4. Spares(d)'
      BY <1>1, <1>2, <2>9, <2>13, <3>1, <3>3 DEF Spares
    <3> QED BY <3>2, <3>4
  <2> QED BY <2>7, <2>12, <2>13 DEF PoolsFit, WorkIsSafe
<1> QED BY <1>4, <1>5

LEMMA PoolsStep ==
  ASSUME PoolsFit, StorageNext
  PROVE  PoolsFit'
<1>1. ASSUME NEW c \in Requesters, NEW p \in DevPaths, NEW do, NEW purpose, NEW seen \in BOOLEAN,
             Ask(c, do, p, purpose, seen)
      PROVE  PoolsFit'
  BY <1>1, AskKeeps
<1>2. ASSUME NEW c \in Requesters,
             CheckUse(c) \/ Unmount(c) \/ Act(c) \/ RefuseOperation(c) \/ UpdatePurposes(c) \/ Save(c)
             \/ OperationFails(c) \/ Abandon(c)
      PROVE  PoolsFit'
  BY <1>2, CheckUseKeeps, ActKeeps, SaveKeeps, QuietSteps
<1> QED BY <1>1, <1>2, HostSteps DEF StorageNext

LEMMA PoolsStutter ==
  ASSUME PoolsFit, UNCHANGED storageVars
  PROVE  PoolsFit'
<1>1. UNCHANGED <<name, parted, fs, mounted, pools, doubtful, blurred, operations, work>>
  BY DEF storageVars
<1>2. name' \in Naming /\ work' = [d \in Requesters |-> work'[d]]
  BY <1>1 DEF PoolsFit, DisksFit, WorkFits
<1> QED BY <1>1, <1>2, OthersOnward, PoolsKept

(* While requests fail, overlap, are abandoned and reach the helper after  *)
(* their client has gone, and the disks change names at every boot, the    *)
(* file system of a pool stays on its partition (filePoolStorageNode,      *)
(* storageUsageForIdentity), unless Core did not find the partition when it*)
(* was asked to change it, or the pool was made where that had happened or *)
(* requests had overlapped.                                                *)
THEOREM PoolsAreKept == StorageSpec => []PoolSurvives
<1>1. PoolsFit /\ [StorageNext]_storageVars => PoolsFit'
  BY PoolsStep, PoolsStutter
<1>2. PoolsFit => PoolSurvives
  BY DEF PoolsFit
<1> QED BY PoolsInit, <1>1, <1>2, PTL DEF StorageSpec

-----------------------------------------------------------------------------
(* Storage: what the partitions are for.  While the disks keep their names *)
(* a file system is known at one path only, so that a row of the table is  *)
(* about the partition at its path, whatever UUID it has.                  *)
RowsAt(s) == {r \in rows : r.path = Path(s)}
RowAt(s)  == {r.purpose : r \in RowsAt(s)}
RowFits(r) ==
  /\ r.path = <<r.path[1], r.path[2]>> /\ r.path[1] \in Nat /\ r.path[2] \in Nat
  /\ r.uuid \in Issued \cup {Nothing} /\ r.purpose \in Purposes
RowsAreOne == \A r, x \in rows : r.path = x.path \/ (r.uuid = x.uuid /\ r.uuid # Nothing) => r = x
RequestFits(c) ==
  /\ work[c].purpose \in Purposes \cup {Nothing}
  /\ \A p \in DOMAIN work[c].tree : \E s \in Target(c) : Path(s) = p
  /\ work[c].do \in {"assign", "pool"} => work[c].on \in DOMAIN work[c].tree
  /\ work[c].at = "save" => work[c].do \in {"assign", "pool"}
  /\ work[c].at \in {"check", "unmount", "act"} => \A r \in rows : r.uuid # work[c].uuid
TableFits ==
  /\ operations <= MaxOperations /\ blurred \subseteq Slots /\ want \in [Slots -> Purposes \cup {Nothing}]
  /\ (\A r \in rows : RowFits(r)) /\ RowsAreOne
  /\ \A c \in Requesters : Working(c) => RequestFits(c)

Bears(p, u) ==
  \/ \E s \in Slots : Path(s) = p /\ fs[s] = u
  \/ \E r \in rows : r.path = p /\ r.uuid = u
  \/ \E c \in Requesters : Working(c) /\ p \in DOMAIN work[c].tree /\ work[c].tree[p] = u
OneHome == \A u, p, q : u # Nothing /\ Bears(p, u) /\ Bears(q, u) => p = q

(* What holds of a slot that no request blurred, and what a request at     *)
(* work knows of it: no other one changes it meanwhile.                    *)
Deletion(c) == work[c].do \in {"delete", "delete_all"}
Deleting(c, s) ==
  /\ Working(c) /\ work[c].at = "after" /\ Deletion(c)
  /\ s \in Target(c) /\ Path(s) \in DOMAIN work[c].tree
Holding(s) ==
  /\ s \in parted => RowAt(s) = {want[s]} \ {Nothing} /\ (fs[s] \in pools => want[s] = "files")
  /\ s \notin parted => /\ fs[s] \notin pools /\ want[s] = Nothing
                        /\ RowAt(s) = {} \/ \E c \in Requesters : Deleting(c, s)
Seen(c, s) == Path(s) \in DOMAIN work[c].tree
Knows(c, s) ==
  /\ work[c].at \in {"check", "unmount", "act", "save"} =>
       (Seen(c, s) <=> s \in parted) /\ (Seen(c, s) => work[c].tree[Path(s)] = fs[s])
  /\ work[c].do = "format" /\ s \in parted => work[c].purpose = want[s]
  /\ work[c].do \in Dangerous /\ work[c].at \in {"unmount", "act"} /\ s \in parted => fs[s] \notin pools
  /\ work[c].do = "assign" /\ work[c].at = "save" /\ fs[s] \in pools => work[c].purpose = "files"
  /\ work[c].do = "pool" /\ work[c].at = "save" => want[s] = "files"
  /\ Deletion(c) => ~work[c].left /\ (work[c].at = "after" => s \notin parted)
  /\ work[c].do = "create" /\ work[c].at = "after" =>
       (Seen(c, s) => s \in parted) /\ (~Seen(c, s) => fs[s] \notin pools)
SlotsHold == \A s \in Slots \ blurred : Holding(s)
RequestsKnow == \A c \in Requesters : Working(c) => \A s \in Target(c) \ blurred : Knows(c, s)
StoredFits == OneHome /\ SlotsHold /\ RequestsKnow
PurposesFit == PoolsFit /\ TableFits /\ (~moved => StoredFits)

(* No UUID that was given out is the mark for none.                        *)
LEMMA IssuedAre == ASSUME DisksFit PROVE Issued \subseteq Nat /\ Nothing \notin Issued
BY FS_CardinalityType, StorageAssumption DEF DisksFit, Issued

(* A path is the name of a disk and a number.                              *)
LEMMA PathIs ==
  ASSUME name \in Naming, NEW s \in Slots
  PROVE  Path(s) = <<Path(s)[1], Path(s)[2]>> /\ Path(s)[1] \in Nat /\ Path(s)[2] \in Nat
BY StorageAssumption DEF Path, Naming, Disks

(* blockNodeForStoragePurpose: a row is about the partition at its path.   *)
LEMMA ResolvedByPath ==
  ASSUME DisksFit, OneHome, NEW r \in rows, NEW s \in parted
  PROVE  s \in Resolved(r) <=> Path(s) = r.path
<1> DEFINE same == {t \in parted : r.uuid # Nothing /\ fs[t] = r.uuid}
<1>1. ASSUME NEW t \in same PROVE Path(t) = r.path
  <2>1. Bears(Path(t), r.uuid) /\ Bears(r.path, r.uuid) /\ r.uuid # Nothing
    BY <1>1 DEF Bears, DisksFit
  <2> QED BY <2>1 DEF OneHome
<1>2. CASE same = {}
  BY <1>2 DEF Resolved
<1>3. CASE same # {}
  <2>1. PICK t \in same : Path(t) = r.path
    BY <1>1, <1>3
  <2>2. Path(s) = r.path => s = t
    BY <2>1, PathNamesOne DEF DisksFit
  <2>3. Resolved(r) = same
    BY <1>3 DEF Resolved
  <2> QED BY <1>1, <2>1, <2>2, <2>3
<1> QED BY <1>2, <1>3

(* So the purpose of a partition is that of the row at its path.           *)
LEMMA PurposeIsRow ==
  ASSUME DisksFit, OneHome, NEW s \in parted
  PROVE  PurposeOf(s) = RowAt(s)
BY ResolvedByPath DEF PurposeOf, RowAt, RowsAt

(* ClearStoragePurpose and SetStoragePurpose reach the row at the path,    *)
(* and no other: nothing else has the UUID.                                *)
LEMMA ClearedByPath ==
  ASSUME OneHome, NEW p, NEW u, Bears(p, u)
  PROVE  Cleared(p, u) = {r \in rows : r.path = p}
<1>1. ASSUME NEW r \in rows, u # Nothing, r.uuid = u PROVE r.path = p
  BY <1>1 DEF OneHome, Bears
<1> QED BY <1>1 DEF Cleared

(* An update is never refused while the UUID is known at its path only.    *)
LEMMA SetByPath ==
  ASSUME OneHome, RowsAreOne, NEW p, NEW u, Bears(p, u), NEW x
  PROVE  SetRow(p, u, x) = {r \in rows : r.path # p} \cup {[path |-> p, uuid |-> u, purpose |-> x]}
<1> DEFINE same == {r \in rows : u # Nothing /\ r.uuid = u}
           there == {r \in rows : r.path = p}
<1>1. same \subseteq there
  BY DEF OneHome, Bears
<1>2. CASE same = {}
  BY <1>2 DEF SetRow
<1>3. CASE same # {}
  <2>1. there \subseteq same
    BY <1>1, <1>3 DEF RowsAreOne
  <2> QED BY <1>1, <1>3, <2>1 DEF SetRow
<1> QED BY <1>2, <1>3

(* Whatever paths and UUIDs are, no two rows share one.                    *)
LEMMA SetRowFits ==
  ASSUME TableFits, NEW p, NEW u, NEW x, RowFits([path |-> p, uuid |-> u, purpose |-> x])
  PROVE  /\ \A r \in SetRow(p, u, x) : RowFits(r) /\ (r \in rows \/ r = [path |-> p, uuid |-> u, purpose |-> x])
         /\ \A r, y \in SetRow(p, u, x) : r.path = y.path \/ (r.uuid = y.uuid /\ r.uuid # Nothing) => r = y
<1> DEFINE row == [path |-> p, uuid |-> u, purpose |-> x]
           same == {r \in rows : u # Nothing /\ r.uuid = u}
           there == {r \in rows : r.path = p}
<1>1. /\ RowFits(row) /\ row.path = p /\ row.uuid = u
      /\ \A r \in rows : RowFits(r)
      /\ \A r, y \in rows : r.path = y.path \/ (r.uuid = y.uuid /\ r.uuid # Nothing) => r = y
  BY DEF TableFits, RowsAreOne
<1>2. SetRow(p, u, x) = IF same = {} THEN (rows \ there) \cup {row}
                        ELSE IF there \subseteq same THEN (rows \ same) \cup {row} ELSE rows
  BY DEF SetRow
<1>3. SetRow(p, u, x) \subseteq rows \cup {row}
  BY <1>2
<1> HIDE DEF row
<1>4. row \in SetRow(p, u, x) =>
        \A y \in SetRow(p, u, x) \ {row} : y.path # p /\ (u # Nothing => y.uuid # u)
  <2>1. CASE same # {} /\ ~there \subseteq same
    BY <1>1, <1>2, <2>1
  <2>2. CASE same = {} \/ there \subseteq same
    BY <1>2, <2>2
  <2> QED BY <2>1, <2>2
<1>5. ASSUME NEW r \in SetRow(p, u, x), NEW y \in SetRow(p, u, x),
             r.path = y.path \/ (r.uuid = y.uuid /\ r.uuid # Nothing)
      PROVE  r = y
  <2>1. CASE r = row \/ y = row
    BY <1>1, <1>4, <1>5, <2>1
  <2>2. CASE r # row /\ y # row
    BY <1>1, <1>3, <1>5, <2>2
  <2> QED BY <2>1, <2>2
<1> QED BY <1>1, <1>3, <1>5 DEF row

(* The row that a partition is recorded with: at most two fit.             *)
LEMMA RecordedIsPurpose ==
  ASSUME TableFits, NEW p, NEW u
  PROVE  Recorded(p, u) \in Purposes \cup {Nothing}
<1> DEFINE fit == Cleared(p, u)
           Before(x, y) == x[1] < y[1] \/ (x[1] = y[1] /\ x[2] <= y[2])
<1>1. /\ \A r \in fit : RowFits(r) /\ (r.path = p \/ (u # Nothing /\ r.uuid = u))
      /\ \A r, y \in fit : r.path = y.path \/ (r.uuid = y.uuid /\ r.uuid # Nothing) => r = y
  BY DEF Cleared, TableFits, RowsAreOne
<1>2. ASSUME NEW r \in fit, NEW y \in fit PROVE Before(r.path, r.path) /\ (Before(r.path, y.path) \/ Before(y.path, r.path))
  BY <1>1, <1>2 DEF RowFits
<1> HIDE DEF fit, Before
<1>3. ASSUME NEW r \in fit, NEW y \in fit, NEW z \in fit, r # y PROVE z = r \/ z = y
  BY <1>1, <1>3
<1>4. ASSUME fit # {} PROVE \E r \in fit : \A x \in fit : Before(r.path, x.path)
  <2>1. PICK r \in fit : TRUE
    BY <1>4
  <2>2. CASE \A y \in fit : y = r
    BY <1>2, <2>2
  <2>3. CASE \E y \in fit : y # r
    <3>1. PICK y \in fit : y # r
      BY <2>3
    <3> QED BY <1>2, <1>3, <3>1
  <2> QED BY <2>2, <2>3
<1>5. fit # {} => (CHOOSE r \in fit : \A x \in fit : Before(r.path, x.path)) \in fit
  BY <1>4
<1>6. Recorded(p, u) = IF fit = {} THEN Nothing
                       ELSE (CHOOSE r \in fit : \A x \in fit : Before(r.path, x.path)).purpose
  BY DEF Recorded, fit, Before
<1> QED BY <1>1, <1>5, <1>6 DEF RowFits

(* A format keeps what the partition is for (storagePurposeRecordForNode). *)
LEMMA RecordedHere ==
  ASSUME DisksFit, TableFits, OneHome, NEW s \in Slots, NEW q \in Purposes \cup {Nothing}, RowAt(s) = {q} \ {Nothing}
  PROVE  Recorded(Path(s), fs[s]) = q
<1> DEFINE fit == Cleared(Path(s), fs[s])
           Before(x, y) == x[1] < y[1] \/ (x[1] = y[1] /\ x[2] <= y[2])
<1>1. Bears(Path(s), fs[s])
  BY DEF Bears
<1>2. fit = RowsAt(s)
  BY <1>1, ClearedByPath DEF RowsAt
<1>3. Recorded(Path(s), fs[s]) = IF fit = {} THEN Nothing
                       ELSE (CHOOSE r \in fit : \A x \in fit : Before(r.path, x.path)).purpose
  BY DEF Recorded
<1> HIDE DEF fit
<1>4. CASE fit = {}
  BY <1>2, <1>3, <1>4 DEF RowAt
<1>5. CASE fit # {}
  <2>1. PICK r \in fit : TRUE
    BY <1>5
  <2>2. \A x \in fit : x = r /\ RowFits(r)
    BY <1>2, <2>1 DEF TableFits, RowsAreOne, RowsAt
  <2>3. Before(r.path, r.path)
    BY <2>2 DEF RowFits
  <2> HIDE DEF Before
  <2>4. (CHOOSE y \in fit : \A x \in fit : Before(y.path, x.path)) = r
    BY <2>1, <2>2, <2>3
  <2>5. r.purpose \in RowAt(s)
    BY <1>2, <2>1 DEF RowAt
  <2> QED BY <1>3, <1>5, <2>4, <2>5
<1> QED BY <1>4, <1>5

(* The host in use has a row for each purpose that was given.              *)
LEMMA PurposesInit == StorageInit => PurposesFit
<1> SUFFICES ASSUME StorageInit PROVE PurposesFit
  OBVIOUS
<1>1. PoolsFit /\ DisksFit /\ parted = Slots /\ (\A c \in Requesters : ~Working(c)) /\ blurred = {}
  BY PoolsInit DEF PoolsFit, StorageInit, Working
<1>2. PICK archive : want = [s \in Slots |-> IF s \in mounted THEN "files" ELSE IF s \in archive THEN "nvr" ELSE Nothing]
  BY DEF StorageInit
<1>3. want \in [Slots -> Purposes \cup {Nothing}] /\ \A s \in mounted : want[s] = "files"
  BY <1>1, <1>2 DEF Purposes, DisksFit
<1>4. rows = {[path |-> Path(s), uuid |-> fs[s], purpose |-> want[s]] : s \in {x \in Slots : want[x] # Nothing}}
      /\ pools \subseteq {fs[s] : s \in mounted} /\ operations = 0
  BY DEF StorageInit
<1>5. ASSUME NEW r \in rows PROVE \E s \in Slots : r = [path |-> Path(s), uuid |-> fs[s], purpose |-> want[s]] /\ want[s] # Nothing
  BY <1>4
<1>6. ASSUME NEW s \in Slots, want[s] # Nothing PROVE RowFits([path |-> Path(s), uuid |-> fs[s], purpose |-> want[s]])
  BY <1>1, <1>3, <1>6, PathIs DEF RowFits, DisksFit
<1>7. (\A r \in rows : RowFits(r)) /\ RowsAreOne
  <2>1. ASSUME NEW r \in rows, NEW x \in rows, r.path = x.path \/ (r.uuid = x.uuid /\ r.uuid # Nothing) PROVE r = x
    <3>1. PICK s \in Slots : r = [path |-> Path(s), uuid |-> fs[s], purpose |-> want[s]]
      BY <1>5
    <3>2. PICK t \in Slots : x = [path |-> Path(t), uuid |-> fs[t], purpose |-> want[t]]
      BY <1>5
    <3>3. s = t
      BY <1>1, <2>1, <3>1, <3>2, PathNamesOne DEF DisksFit
    <3> QED BY <3>1, <3>2, <3>3
  <2> QED BY <1>5, <1>6, <2>1 DEF RowsAreOne
<1>8. TableFits
  BY <1>1, <1>3, <1>4, <1>7, StorageAssumption DEF TableFits
<1>9. OneHome
  <2>1. ASSUME NEW p, NEW u, Bears(p, u) PROVE \E s \in Slots : Path(s) = p /\ fs[s] = u
    BY <1>1, <1>5, <2>1 DEF Bears
  <2> QED BY <1>1, <2>1 DEF OneHome, DisksFit
<1>10. SlotsHold
  <2>1. ASSUME NEW s \in Slots PROVE RowAt(s) = {want[s]} \ {Nothing}
    <3>1. ASSUME NEW r \in RowsAt(s) PROVE r.purpose = want[s] /\ want[s] # Nothing
      <4>1. PICK t \in Slots : r = [path |-> Path(t), uuid |-> fs[t], purpose |-> want[t]] /\ want[t] # Nothing
        BY <1>5 DEF RowsAt
      <4> QED BY <1>1, <4>1, PathNamesOne DEF RowsAt, DisksFit
    <3>2. ASSUME want[s] # Nothing PROVE want[s] \in RowAt(s)
      <4>1. [path |-> Path(s), uuid |-> fs[s], purpose |-> want[s]] \in RowsAt(s)
        BY <1>4, <3>2 DEF RowsAt
      <4> QED BY <4>1 DEF RowAt
    <3> QED BY <3>1, <3>2 DEF RowAt
  <2>2. ASSUME NEW s \in Slots, fs[s] \in pools PROVE want[s] = "files"
    <3>1. PICK t \in mounted : fs[s] = fs[t] /\ fs[t] # Nothing /\ t \in Slots
      BY <1>1, <1>4, <2>2 DEF DisksFit
    <3> QED BY <1>1, <1>3, <3>1 DEF DisksFit
  <2> QED BY <1>1, <2>1, <2>2 DEF SlotsHold, Holding
<1>11. RequestsKnow
  BY <1>1 DEF RequestsKnow
<1> QED BY <1>1, <1>8, <1>9, <1>10, <1>11 DEF PurposesFit, StoredFits

-----------------------------------------------------------------------------
(* A file system stays at its one path.                                    *)
LEMMA HomeStays ==
  ASSUME OneHome, UNCHANGED name,
         \A s \in Slots : fs'[s] # Nothing => fs'[s] = fs[s],
         \A r \in rows' : Bears(r.path, r.uuid),
         \A d \in Requesters : Working(d)' => \A p \in DOMAIN work'[d].tree : Bears(p, work'[d].tree[p])
  PROVE  OneHome'
<1>1. \A s \in Slots : Path(s)' = Path(s)
  BY DEF Path
<1>2. ASSUME NEW u, NEW p, u # Nothing, Bears(p, u)' PROVE Bears(p, u)
  <2>1. CASE \E s \in Slots : Path(s) = p /\ fs'[s] = u
    BY <1>2, <2>1 DEF Bears
  <2>2. CASE \E r \in rows' : r.path = p /\ r.uuid = u
    BY <2>2
  <2>3. CASE \E d \in Requesters : Working(d)' /\ p \in DOMAIN work'[d].tree /\ work'[d].tree[p] = u
    BY <2>3
  <2> QED BY <1>1, <1>2, <2>1, <2>2, <2>3 DEF Bears
<1> QED BY <1>2 DEF OneHome

(* What rows and trees say of a UUID is known.                             *)
LEMMA RowBears == ASSUME NEW r \in rows PROVE Bears(r.path, r.uuid)
BY DEF Bears
LEMMA TreeBears ==
  ASSUME NEW d \in Requesters, Working(d), NEW p \in DOMAIN work[d].tree
  PROVE  Bears(p, work[d].tree[p])
BY DEF Bears

(* A request goes on, and the table stays as it fits the requests.         *)
Early == {"check", "unmount", "act"}
Proceeds(d) ==
  /\ Goes(d) /\ work'[d].purpose = work[d].purpose
  /\ work'[d].at \in Early => work[d].at \in Early
  /\ work'[d].at = "save" => work[d].at = "save" \/ work[d].do = "assign"
LEMMA TableStays ==
  ASSUME TableFits, UNCHANGED <<name, operations>>, blurred' \subseteq Slots,
         want' \in [Slots -> Purposes \cup {Nothing}], \A r \in rows' : RowFits(r), RowsAreOne',
         \A r \in rows' : r \in rows \/ \A d \in Requesters : Working(d) /\ work[d].at \in Early => r.uuid # work[d].uuid,
         \A d \in Requesters : Working(d)' => Proceeds(d) \/ RequestFits(d)'
  PROVE  TableFits'
<1>1. \A r \in rows' : RowFits(r)'
  BY DEF RowFits, Issued
<1>2. ASSUME NEW d \in Requesters, Working(d)', Proceeds(d) PROVE RequestFits(d)'
  <2>1. RequestFits(d) /\ Goes(d)
    BY <1>2 DEF TableFits, Proceeds, Goes
  <2>2. Target(d)' = Target(d) /\ \A s \in Slots : Path(s)' = Path(s)
    BY <2>1, TargetStays
  <2>3. Target(d) \subseteq Slots
    BY DEF Target, SlotsOf
  <2>4. \A p \in DOMAIN work'[d].tree : \E s \in Target(d)' : Path(s)' = p
    BY <2>1, <2>2, <2>3 DEF RequestFits, Goes
  <2>5. work'[d].at \in Early => \A r \in rows' : r.uuid # work'[d].uuid
    BY <1>2, <2>1 DEF RequestFits, Goes, Proceeds, Early
  <2> QED BY <1>2, <2>1, <2>4, <2>5 DEF RequestFits, Goes, Proceeds, Early
<1> QED BY <1>1, <1>2 DEF TableFits

(* A step that leaves all that is known of a slot.                         *)
Aside(s) ==
  /\ s \in parted' <=> s \in parted
  /\ fs'[s] = fs[s] /\ want'[s] = want[s] /\ RowAt(s)' = RowAt(s)
  /\ fs[s] \in pools' <=> fs[s] \in pools
LEMMA KnowsStays ==
  ASSUME NEW d, NEW s \in Slots, Goes(d), work'[d].purpose = work[d].purpose, work'[d].left = work[d].left,
         work'[d].at = work[d].at, Aside(s), Knows(d, s)
  PROVE  Knows(d, s)'
<1>1. Path(s)' = Path(s)
  BY TargetStays
<1> QED BY <1>1 DEF Knows, Seen, Goes, Aside, Deletion

(* A step of one request, on its own slots: others know what they knew.    *)
LEMMA Around ==
  ASSUME SlotsHold, RequestsKnow, NEW c \in Requesters, NEW T \in SUBSET Slots, UNCHANGED name, Others(c),
         blurred \subseteq blurred',
         \A d \in Requesters \ {c} : Working(d) => Target(d) \cap T \subseteq blurred',
         Working(c) => Target(c) \subseteq T, Working(c)' => Target(c)' \subseteq T,
         \A s \in Slots \ (T \cup blurred') : Aside(s),
         \A s \in T \ blurred' : Holding(s)' /\ (Working(c)' /\ s \in Target(c)' => Knows(c, s)')
  PROVE  SlotsHold' /\ RequestsKnow'
<1>1. ASSUME NEW d \in Requesters \ {c}, Working(d)
      PROVE  Goes(d) /\ work'[d] = work[d] /\ Target(d)' = Target(d)
  <2>1. Goes(d) /\ work'[d] = work[d]
    BY <1>1 DEF Others, Goes
  <2> QED BY <2>1, TargetStays
<1>2. ASSUME NEW d \in Requesters \ {c} PROVE Working(d)' <=> Working(d)
  BY DEF Others, Working
<1>3. ASSUME NEW s \in Slots \ (T \cup blurred') PROVE Holding(s)'
  <2>1. Holding(s) /\ Aside(s) /\ Path(s)' = Path(s)
    BY <1>3 DEF SlotsHold, Path
  <2>2. ASSUME NEW d \in Requesters, Deleting(d, s) PROVE Deleting(d, s)'
    <3>1. d # c /\ Working(d)
      BY <1>3, <2>2 DEF Deleting
    <3> QED BY <1>1, <1>2, <2>1, <2>2, <3>1 DEF Deleting, Deletion
  <2> QED BY <2>1, <2>2 DEF Holding, Aside
<1>4. SlotsHold'
  BY <1>3 DEF SlotsHold
<1>5. ASSUME NEW d \in Requesters, Working(d)', NEW s \in Target(d)' \ blurred' PROVE Knows(d, s)'
  <2>1. CASE d = c
    BY <1>5, <2>1
  <2>2. CASE d # c
    <3>1. Working(d) /\ Goes(d) /\ work'[d] = work[d] /\ s \in Target(d) /\ s \in Slots /\ s \notin T
      BY <1>1, <1>2, <1>5, <2>2 DEF Target, SlotsOf
    <3>2. Knows(d, s) /\ Aside(s)
      BY <1>5, <3>1 DEF RequestsKnow
    <3> QED BY <3>1, <3>2, KnowsStays
  <2> QED BY <2>1, <2>2
<1> QED BY <1>4, <1>5 DEF RequestsKnow

(* Steps that leave disks, table and pools alone.                          *)
Still == UNCHANGED <<name, parted, fs, rows, pools, want, operations>>
Stays(d) ==
  /\ Working(d) /\ Target(d)' = Target(d) /\ RequestFits(d)'
  /\ \A p \in DOMAIN work'[d].tree : ~moved => Bears(p, work'[d].tree[p])
  /\ ~moved => \A s \in Target(d) \ blurred' : Knows(d, s)'
LEMMA Calm ==
  ASSUME PurposesFit, PoolsFit', Still, blurred \subseteq blurred', blurred' \subseteq Slots, ~moved' => ~moved,
         \A d \in Requesters : Working(d)' => Stays(d),
         \A d \in Requesters : Working(d) /\ Deletion(d) /\ work[d].at = "after" =>
           Target(d) \subseteq blurred' \/ work'[d] = work[d]
  PROVE  PurposesFit'
<1>1. TableFits'
  BY TableStays DEF PurposesFit, Still, TableFits, Stays, RowsAreOne
<1>2. ASSUME ~moved' PROVE StoredFits'
  <2>1. StoredFits
    BY <1>2 DEF PurposesFit
  <2>2. OneHome'
    BY <1>2, <2>1, RowBears, HomeStays DEF Still, StoredFits, Stays
  <2>3. ASSUME NEW s \in Slots \ blurred' PROVE Holding(s)'
    <3>1. Holding(s) /\ Path(s)' = Path(s) /\ RowAt(s)' = RowAt(s)
      BY <2>1, <2>3 DEF StoredFits, SlotsHold, Still, Path, RowAt, RowsAt
    <3>2. ASSUME NEW d \in Requesters, Deleting(d, s) PROVE Deleting(d, s)'
      <4>1. work'[d] = work[d]
        BY <2>3, <3>2 DEF Deleting
      <4>2. Goes(d)
        BY <3>2, <4>1 DEF Goes, Still, Deleting
      <4> QED BY <3>1, <3>2, <4>1, <4>2, TargetStays DEF Deleting, Deletion, Working
    <3> QED BY <3>1, <3>2 DEF Holding, Still
  <2>4. RequestsKnow'
    BY <1>2 DEF RequestsKnow, Stays
  <2> QED BY <2>2, <2>3, <2>4 DEF StoredFits, SlotsHold
<1> QED BY <1>1, <1>2 DEF PurposesFit

LEMMA ProceedsStays ==
  ASSUME PurposesFit, Still, NEW d \in Requesters, Proceeds(d),
         ~moved => \A s \in Target(d) \ blurred' : Knows(d, s)'
  PROVE  Stays(d)
<1>1. RequestFits(d) /\ Goes(d) /\ Working(d)
  BY DEF PurposesFit, TableFits, Proceeds, Goes
<1>2. Target(d)' = Target(d) /\ (\A s \in Slots : Path(s)' = Path(s)) /\ Target(d) \subseteq Slots
  BY <1>1, TargetStays DEF Target, SlotsOf
<1>3. \A p \in DOMAIN work'[d].tree : \E s \in Target(d)' : Path(s)' = p
  BY <1>1, <1>2 DEF RequestFits, Goes
<1>4. RequestFits(d)'
  BY <1>1, <1>3 DEF RequestFits, Goes, Proceeds, Early, Still
<1> QED BY <1>1, <1>2, <1>4, TreeBears DEF Stays, Goes

(* A request that a calm step leaves alone.                                *)
LEMMA AloneStays ==
  ASSUME PurposesFit, Still, blurred \subseteq blurred', NEW d \in Requesters, Working(d), work'[d] = work[d]
  PROVE  Stays(d)
<1>1. Goes(d) /\ Proceeds(d)
  BY DEF Goes, Proceeds, Still
<1>2. ASSUME ~moved, NEW s \in Target(d) \ blurred' PROVE Knows(d, s)'
  <2>1. Knows(d, s) /\ s \in Slots
    BY <1>2 DEF PurposesFit, StoredFits, RequestsKnow, Target, SlotsOf
  <2>2. Aside(s)
    BY <2>1 DEF Aside, Still, RowAt, RowsAt, Path
  <2> QED BY <1>1, <2>1, <2>2, KnowsStays
<1> QED BY <1>1, <1>2, ProceedsStays

(* A request ends and leaves all as it is.                                 *)
LEMMA ReplyCalm ==
  ASSUME PurposesFit, PoolsFit', Still, blurred \subseteq blurred', blurred' \subseteq Slots, moved' = moved,
         NEW c \in Requesters, Reply(c),
         Working(c) /\ Deletion(c) /\ work[c].at = "after" => Target(c) \subseteq blurred'
  PROVE  PurposesFit'
<1>1. Others(c) /\ work'[c] = NoWork
  BY ReplyEnds DEF PurposesFit
<1>2. ASSUME NEW d \in Requesters, Working(d)' PROVE Stays(d)
  BY <1>1, <1>2, AloneStays DEF Others, Working
<1> QED BY <1>1, <1>2, Calm DEF Others

(* A request goes a step further with the purpose it has.                  *)
LEMMA StepProceeds ==
  ASSUME PoolsFit, UNCHANGED <<name, operations>>, NEW c \in Requesters, Working(c), NEW at \in Steps, Step(c, at),
         at \in Early => work[c].at \in Early, at = "save" => work[c].do = "assign"
  PROVE  Proceeds(c) /\ work'[c].left = work[c].left
<1>1. work = [d \in Requesters |-> work[d]] /\ IsWork(work[c])
  BY DEF PoolsFit, WorkFits
<1>2. work'[c] = [work[c] EXCEPT !.at = at]
  BY <1>1, Zenon DEF Step
<1>3. work'[c] = [at |-> at, do |-> work[c].do, on |-> work[c].on, tree |-> work[c].tree, left |-> work[c].left,
                  uuid |-> work[c].uuid, purpose |-> work[c].purpose]
  BY <1>1, <1>2 DEF IsWork
<1> QED BY <1>3, StepGoes DEF Proceeds

(* A request goes a step further and leaves all as it is.                  *)
LEMMA StepCalm ==
  ASSUME PurposesFit, PoolsFit', Still, UNCHANGED <<blurred, moved>>, NEW c \in Requesters, Working(c),
         NEW at \in {"unmount", "act", "save"}, Step(c, at), work[c].at \in Early,
         at = "save" => work[c].do = "assign", ~moved => \A s \in Target(c) \ blurred : Knows(c, s)'
  PROVE  PurposesFit'
<1>1. PoolsFit /\ at \in Steps /\ UNCHANGED <<name, operations>> /\ blurred \subseteq Slots
  BY DEF PurposesFit, Steps, Still, TableFits
<1>2. Others(c) /\ Proceeds(c) /\ work[c].at # "after"
  BY <1>1, StepGoes, StepProceeds DEF Early
<1>3. Stays(c)
  BY <1>2, ProceedsStays
<1>4. ASSUME NEW d \in Requesters, Working(d)' PROVE Stays(d)
  BY <1>2, <1>3, <1>4, AloneStays DEF Others, Working
<1> QED BY <1>1, <1>2, <1>4, Calm DEF Others

(* What a request knows on its way, before it changes anything.            *)
LEMMA StepKnows ==
  ASSUME PurposesFit, ~moved, Still, UNCHANGED blurred, NEW c \in Requesters, Working(c), work[c].at \in Early,
         NEW at \in {"unmount", "act", "save"}, Step(c, at), NEW s \in Target(c) \ blurred,
         work[c].do \in Dangerous /\ at \in {"unmount", "act"} /\ s \in parted => fs[s] \notin pools,
         work[c].do = "assign" /\ at = "save" /\ fs[s] \in pools => work[c].purpose = "files",
         at = "save" => work[c].do = "assign"
  PROVE  Knows(c, s)'
<1>1. PoolsFit /\ at \in Steps /\ UNCHANGED <<name, operations>> /\ s \in Slots
  BY DEF PurposesFit, Steps, Still, Target, SlotsOf
<1>2. Goes(c) /\ Proceeds(c) /\ work'[c].left = work[c].left /\ work'[c].at = at
  BY <1>1, StepGoes, StepProceeds DEF Early
<1>3. Knows(c, s) /\ Path(s)' = Path(s)
  BY <1>1, <1>2, TargetStays DEF PurposesFit, StoredFits, RequestsKnow
<1>4. work[c].at \in {"check", "unmount", "act", "save"} /\ at # "after"
  BY DEF Early
<1> QED BY <1>2, <1>3, <1>4 DEF Knows, Seen, Deletion, Goes, Proceeds, Still

(* A request that is not about a disk is about one partition.              *)
LEMMA OnItself ==
  ASSUME PoolsFit, NEW c \in Requesters, Working(c), ~OnDisk(work[c].do)
  PROVE  Target(c) = {SlotAt(work[c].on)} /\ Path(SlotAt(work[c].on)) = work[c].on
<1>1. name \in Naming /\ TreeFits(c)
  BY DEF PoolsFit, DisksFit, WorkFits
<1>2. PICK s \in Slots : Path(s) = work[c].on
  BY <1>1 DEF TreeFits
<1>3. SlotAt(work[c].on) = s
  BY <1>1, <1>2, SlotIsThere
<1> QED BY <1>1, <1>2, <1>3, PathNamesOne DEF Target, SlotsOf

(* One lemma for each action: the checks before a change.                  *)
LEMMA CheckPurposes ==
  ASSUME PurposesFit, PoolsFit', NEW c \in Requesters, CheckUse(c)
  PROVE  PurposesFit'
<1>1. Still /\ UNCHANGED <<blurred, moved, mounted>> /\ Working(c) /\ work[c].at = "check"
  BY AtWorks DEF CheckUse, Unchanged, Steps, Still
<1>2. /\ PoolsFit /\ DisksFit /\ WorkFits /\ TableFits /\ RequestFits(c) /\ IsWork(work[c]) /\ blurred \subseteq Slots
      /\ Target(c) \subseteq Slots /\ name \in Naming
  BY <1>1 DEF PurposesFit, PoolsFit, TableFits, WorkFits, Target, SlotsOf, DisksFit
<1>3. CASE Reply(c)
  BY <1>1, <1>2, <1>3, ReplyCalm
<1>4. ASSUME Does(c, {"assign"}), ~KeptRows(c), Step(c, "save") PROVE PurposesFit'
  <2>1. ASSUME ~moved, NEW s \in Target(c) \ blurred, fs[s] \in pools PROVE work[c].purpose = "files"
    <3>1. Knows(c, s) /\ Path(s) \in DOMAIN work[c].tree
      BY <1>1, <1>2, <1>4, <2>1, OnItself
         DEF PurposesFit, StoredFits, RequestsKnow, RequestFits, Does, OnDisk
    <3> QED BY <1>1, <1>4, <2>1, <3>1 DEF Knows, Seen, KeptRows, InUse
  <2>2. ASSUME ~moved, NEW s \in Target(c) \ blurred PROVE Knows(c, s)'
    BY <1>1, <1>4, <2>1, <2>2, StepKnows DEF Does, Dangerous, Early
  <2> QED BY <1>1, <1>2, <1>4, <2>2, StepCalm DEF Early, Does
<1>5. ASSUME ~Does(c, {"assign"}), ~Does(c, {"pool"}), ~InUse(work[c].tree), Step(c, "unmount") PROVE PurposesFit'
  <2>1. ASSUME ~moved, NEW s \in Target(c) \ blurred, s \in parted PROVE fs[s] \notin pools
    <3>1. Knows(c, s)
      BY <1>1, <2>1 DEF PurposesFit, StoredFits, RequestsKnow
    <3> QED BY <1>1, <1>5, <2>1, <3>1 DEF Knows, Seen, InUse
  <2>2. ASSUME ~moved, NEW s \in Target(c) \ blurred PROVE Knows(c, s)'
    BY <1>1, <1>5, <2>1, <2>2, StepKnows DEF Does, Early
  <2> QED BY <1>1, <1>2, <1>5, <2>2, StepCalm DEF Early
<1>6. ASSUME Does(c, {"pool"}), "files" \in PurposeOf(SlotAt(work[c].on)), SlotAt(work[c].on) \in mounted,
             work' = [work EXCEPT ![c].at = "save", ![c].tree = [q \in {work[c].on} |-> fs[SlotAt(work[c].on)]]]
      PROVE  PurposesFit'
  <2>0. PICK s : s = SlotAt(work[c].on)
    OBVIOUS
  <2> DEFINE tree == [q \in {work[c].on} |-> fs[s]]
  <2> HIDE DEF tree
  <2>1. Others(c) /\ work'[c] = [[work[c] EXCEPT !.at = "save"] EXCEPT !.tree = tree]
    BY <1>2, <1>6, <2>0 DEF WorkFits, Others, tree
  <2>2. work'[c] = [at |-> "save", do |-> work[c].do, on |-> work[c].on, tree |-> tree,
                    left |-> work[c].left, uuid |-> work[c].uuid, purpose |-> work[c].purpose]
    BY <1>2, <2>1 DEF IsWork
  <2>3. /\ work'[c].at = "save" /\ work'[c].tree = tree /\ work'[c].do = work[c].do
        /\ work'[c].on = work[c].on /\ work'[c].purpose = work[c].purpose /\ work'[c].left = work[c].left
    BY <2>2
  <2>4. Target(c) = {s} /\ Path(s) = work[c].on /\ s \in parted /\ s \in Slots
    BY <1>1, <1>2, <1>6, <2>0, OnItself DEF Does, OnDisk, DisksFit
  <2>5. Target(c)' = Target(c) /\ \A t \in Slots : Path(t)' = Path(t)
    BY <1>1, <2>3 DEF Target, SlotsOf, OnDisk, Path, Still
  <2>6. RequestFits(c)'
    <3>1. work[c].do = "pool" /\ DOMAIN tree = {work[c].on} /\ work[c].purpose \in Purposes \cup {Nothing}
      BY <1>2, <1>6 DEF RequestFits, tree, Does
    <3>2. \A p \in DOMAIN tree : \E t \in Target(c)' : Path(t)' = p
      BY <2>4, <2>5, <3>1
    <3> QED BY <2>3, <3>1, <3>2 DEF RequestFits
  <2>7. \A p \in DOMAIN work'[c].tree : Bears(p, work'[c].tree[p])
    BY <2>3, <2>4 DEF Bears, tree
  <2>8. ASSUME ~moved, s \notin blurred PROVE Knows(c, s)'
    <3>1. Holding(s) /\ OneHome /\ Knows(c, s)
      BY <1>1, <2>4, <2>8 DEF PurposesFit, StoredFits, SlotsHold, RequestsKnow
    <3>2. "files" \in {want[s]} \ {Nothing}
      BY <1>2, <1>6, <2>0, <2>4, <3>1, PurposeIsRow DEF Holding
    <3>3. want[s] = "files" /\ work[c].do = "pool"
      BY <1>6, <3>2 DEF Does
    <3>4. Path(s)' \in DOMAIN work'[c].tree /\ work'[c].tree[Path(s)'] = fs[s]
      BY <2>3, <2>4, <2>5 DEF tree
    <3> QED BY <1>1, <2>3, <2>4, <3>3, <3>4 DEF Knows, Seen, Still, Deletion, Dangerous
  <2>9. ASSUME ~moved, NEW t \in Target(c) \ blurred' PROVE Knows(c, t)'
    BY <1>1, <2>4, <2>8, <2>9
  <2>11. Stays(c)
    BY <1>1, <2>5, <2>6, <2>7, <2>9 DEF Stays
  <2>10. ASSUME NEW d \in Requesters, Working(d)' PROVE Stays(d)
    BY <1>1, <2>1, <2>11, <2>10, AloneStays DEF Others, Working
  <2> QED BY <1>1, <1>2, <2>1, <2>10, Calm DEF Others
<1> QED BY <1>3, <1>4, <1>5, <1>6 DEF CheckUse

(* prepareDestructiveChange.                                               *)
LEMMA UnmountPurposes ==
  ASSUME PurposesFit, PoolsFit', NEW c \in Requesters, Unmount(c)
  PROVE  PurposesFit'
<1>1. Still /\ UNCHANGED <<blurred, moved>> /\ Working(c) /\ work[c].at = "unmount" /\ blurred \subseteq Slots
  BY AtWorks DEF Unmount, Unchanged, Steps, Still, PurposesFit, TableFits
<1>2. CASE Reply(c)
  BY <1>1, <1>2, ReplyCalm
<1>3. CASE Step(c, "act")
  <2>1. ASSUME ~moved, NEW s \in Target(c) \ blurred PROVE Knows(c, s)'
    <3>1. Knows(c, s)
      BY <1>1, <2>1 DEF PurposesFit, StoredFits, RequestsKnow
    <3> QED BY <1>1, <1>3, <2>1, <3>1, StepKnows DEF Early, Knows
  <2> QED BY <1>1, <1>3, <2>1, StepCalm DEF Early
<1> QED BY <1>2, <1>3 DEF Unmount

(* The helper refuses.                                                     *)
LEMMA RefusalPurposes ==
  ASSUME PurposesFit, PoolsFit', NEW c \in Requesters, RefuseOperation(c)
  PROVE  PurposesFit'
BY ReplyCalm DEF RefuseOperation, Unchanged, Still, PurposesFit, TableFits

(* A command fails; a deletion that did not clear its rows blurs its       *)
(* slots.                                                                  *)
LEMMA FailurePurposes ==
  ASSUME PurposesFit, PoolsFit', NEW c \in Requesters, OperationFails(c)
  PROVE  PurposesFit'
<1>1. Still /\ UNCHANGED moved /\ Working(c) /\ blurred \subseteq Slots /\ Target(c) \subseteq Slots /\ Reply(c)
  BY AtWorks DEF OperationFails, Trouble, Steps, Still, PurposesFit, TableFits, Target, SlotsOf
<1>2. blurred' = blurred \cup UNION {Target(d) : d \in {x \in {c} : Clearing(x)}}
  BY DEF OperationFails, Blur
<1>3. Deletion(c) => Target(c) \subseteq blurred'
  BY <1>1, <1>2 DEF Deletion, Clearing, Working, Does
<1>4. blurred \subseteq blurred' /\ blurred' \subseteq Slots
  BY <1>1, <1>2
<1> QED BY <1>1, <1>3, <1>4, ReplyCalm

(* A request whose client has left, or who is cut off with Core.           *)
LEMMA LeftStays ==
  ASSUME PurposesFit, Still, NEW d \in Requesters, Working(d), work[d].at # "after",
         work'[d] = [work[d] EXCEPT !.left = TRUE], blurred \subseteq blurred', Deletion(d) => Target(d) \subseteq blurred'
  PROVE  Stays(d)
<1>1. IsWork(work[d])
  BY DEF PurposesFit, PoolsFit, WorkFits
<1>2. work'[d] = [at |-> work[d].at, do |-> work[d].do, on |-> work[d].on, tree |-> work[d].tree, left |-> TRUE,
                  uuid |-> work[d].uuid, purpose |-> work[d].purpose]
  BY <1>1 DEF IsWork
<1>3. Goes(d) /\ Proceeds(d) /\ work'[d].at = work[d].at
  BY <1>2 DEF Proceeds, Goes, Still
<1>4. ASSUME ~moved, NEW s \in Target(d) \ blurred' PROVE Knows(d, s)'
  <2>1. Knows(d, s) /\ s \in Slots
    BY <1>4 DEF PurposesFit, StoredFits, RequestsKnow, Target, SlotsOf
  <2>2. Path(s)' = Path(s) /\ ~Deletion(d)
    BY <1>3, <1>4, <2>1, TargetStays
  <2> QED BY <1>3, <2>1, <2>2 DEF Knows, Seen, Deletion, Goes, Proceeds, Still
<1> QED BY <1>3, <1>4, ProceedsStays

(* The client goes away.                                                   *)
LEMMA AbandonPurposes ==
  ASSUME PurposesFit, PoolsFit', NEW c \in Requesters, Abandon(c)
  PROVE  PurposesFit'
<1>1. Still /\ UNCHANGED moved /\ Working(c) /\ blurred \subseteq Slots /\ Target(c) \subseteq Slots
      /\ work[c].at \in {"unmount", "act"} /\ InHelper(c)
  BY AtWorks DEF Abandon, InHelper, Trouble, Steps, Still, PurposesFit, TableFits, Target, SlotsOf
<1>2. blurred' = blurred \cup UNION {Target(d) : d \in {x \in {c} : Clearing(x)}}
  BY DEF Abandon, Blur
<1>3. Deletion(c) => Target(c) \subseteq blurred'
  BY <1>1, <1>2 DEF Deletion, Clearing, Working, Does
<1>4. blurred \subseteq blurred' /\ blurred' \subseteq Slots
  BY <1>1, <1>2
<1>5. work'[c] = [work[c] EXCEPT !.left = TRUE] /\ \A d \in Requesters \ {c} : work'[d] = work[d]
  BY <1>1 DEF Abandon, Leave, Working
<1>6. Stays(c)
  BY <1>1, <1>3, <1>4, <1>5, LeftStays
<1>7. ASSUME NEW d \in Requesters, Working(d)' PROVE Stays(d)
  BY <1>1, <1>4, <1>5, <1>6, <1>7, AloneStays DEF Working
<1> QED BY <1>1, <1>4, <1>5, <1>7, Calm

(* Core dies.                                                              *)
LEMMA RestartPurposes ==
  ASSUME PurposesFit, PoolsFit', CoreRestarts
  PROVE  PurposesFit'
<1>1. Still /\ UNCHANGED moved /\ blurred \subseteq Slots /\ \A d \in Requesters : Target(d) \subseteq Slots
  BY DEF CoreRestarts, Trouble, Still, PurposesFit, TableFits, Target, SlotsOf
<1>2. blurred' = blurred \cup UNION {Target(d) : d \in {x \in Requesters : Clearing(x)}}
  BY DEF CoreRestarts, Blur
<1>3. ASSUME NEW d \in Requesters, Working(d), Deletion(d) PROVE Target(d) \subseteq blurred'
  BY <1>2, <1>3 DEF Deletion, Clearing, Working, Does
<1>4. blurred \subseteq blurred' /\ blurred' \subseteq Slots
  BY <1>1, <1>2
<1>5. ASSUME NEW d \in Requesters, Working(d)' PROVE Stays(d)
  <2>1. Working(d) /\ InHelper(d) /\ work'[d] = [work[d] EXCEPT !.left = TRUE]
    BY <1>5 DEF CoreRestarts, Leave, Working
  <2> QED BY <1>1, <1>3, <1>4, <2>1, LeftStays DEF InHelper
<1> QED BY <1>1, <1>3, <1>4, <1>5, Calm

(* The host boots: with other names nothing is claimed any more.           *)
LEMMA RebootPurposes ==
  ASSUME PurposesFit, PoolsFit', RebootHost
  PROVE  PurposesFit'
<1>1. /\ UNCHANGED <<parted, fs, rows, pools, want, operations>> /\ blurred \subseteq Slots
      /\ \A d \in Requesters : Target(d) \subseteq Slots
      /\ moved' = (moved \/ name' # name) /\ \A d \in Requesters : ~Working(d)'
  BY DEF RebootHost, Trouble, PurposesFit, TableFits, Target, SlotsOf, Working
<1>2. blurred' = blurred \cup UNION {Target(d) : d \in {x \in Requesters : Clearing(x)}}
  BY DEF RebootHost, Blur
<1>3. blurred \subseteq blurred' /\ blurred' \subseteq Slots
  BY <1>1, <1>2
<1>4. ASSUME NEW d \in Requesters, Working(d), Deletion(d) PROVE Target(d) \subseteq blurred'
  BY <1>2, <1>4 DEF Deletion, Clearing, Working, Does
<1>5. CASE name' = name
  BY <1>1, <1>3, <1>4, <1>5, Calm DEF Still
<1>6. CASE name' # name
  <2>1. \A r \in rows : RowFits(r)'
    BY <1>1 DEF PurposesFit, TableFits, RowFits, Issued
  <2>2. TableFits'
    BY <1>1, <1>3, <2>1 DEF PurposesFit, TableFits, RowsAreOne
  <2> QED BY <1>1, <1>6, <2>2 DEF PurposesFit
<1> QED BY <1>5, <1>6

(* Steps of other parts.                                                   *)
LEMMA PurposesStutter ==
  ASSUME PurposesFit, PoolsFit', UNCHANGED storageVars
  PROVE  PurposesFit'
<1>1. Still /\ UNCHANGED <<blurred, moved, work>> /\ blurred \subseteq Slots
  BY DEF storageVars, Still, PurposesFit, TableFits
<1>2. ASSUME NEW d \in Requesters, Working(d)' PROVE Stays(d)
  BY <1>1, <1>2, AloneStays DEF Working
<1> QED BY <1>1, <1>2, Calm

-----------------------------------------------------------------------------
(* What a request and the table say of a slot that no other request is on. *)
LEMMA OwnSlot ==
  ASSUME PurposesFit, ~moved, NEW c \in Requesters, Working(c), NEW s \in Target(c) \ blurred
  PROVE  /\ Holding(s) /\ Knows(c, s) /\ s \in Slots
         /\ \A d \in Requesters \ {c} : ~(Working(d) /\ s \in Target(d))
BY DEF PurposesFit, StoredFits, SlotsHold, RequestsKnow, PoolsFit, WorkFits, Meet, Target, SlotsOf

(* A request changes its own slots, and ends or goes on.                   *)
LEMMA OwnSlotsChange ==
  ASSUME PurposesFit, PoolsFit', TableFits', NEW c \in Requesters, Working(c), UNCHANGED <<name, blurred, moved>>,
         Others(c), work'[c] = NoWork \/ Goes(c),
         ~moved =>
           /\ OneHome'
           /\ \A s \in Slots \ (Target(c) \cup blurred) : Aside(s)
           /\ \A s \in Target(c) \ blurred : Holding(s)' /\ (Working(c)' => Knows(c, s)')
  PROVE  PurposesFit'
<1> SUFFICES ASSUME ~moved' PROVE StoredFits'
  BY DEF PurposesFit
<1>1. SlotsHold /\ RequestsKnow /\ Target(c) \subseteq Slots
  BY DEF PurposesFit, StoredFits, Target, SlotsOf
<1>2. \A d \in Requesters \ {c} : Working(d) => Target(d) \cap Target(c) \subseteq blurred'
  BY DEF PurposesFit, PoolsFit, WorkFits, Meet
<1>3. Working(c)' => Target(c)' = Target(c)
  BY TargetStays DEF Working
<1>4. SlotsHold' /\ RequestsKnow'
  <2> DEFINE T == Target(c)
  <2>1. PICK U \in SUBSET Slots : U = T
    BY <1>1
  <2> QED BY <1>1, <1>2, <1>3, <2>1, Around
<1> QED BY <1>4 DEF StoredFits

(* The row of a partition is set.                                          *)
LEMMA RowSet ==
  ASSUME DisksFit, TableFits, OneHome, NEW s \in Slots, NEW u, Bears(Path(s), u), NEW x,
         rows' = SetRow(Path(s), u, x), UNCHANGED name
  PROVE  /\ RowAt(s)' = {x} /\ (rows' = rows => RowAt(s) = {x})
         /\ \A t \in Slots \ {s} : RowAt(t)' = RowAt(t)
<1> DEFINE row == [path |-> Path(s), uuid |-> u, purpose |-> x]
<1>1. rows' = {r \in rows : r.path # Path(s)} \cup {row}
  BY SetByPath DEF TableFits
<1>2. row.path = Path(s) /\ row.purpose = x
  OBVIOUS
<1>3. \A t \in Slots : Path(t)' = Path(t)
  BY DEF Path
<1> HIDE DEF row
<1>4. RowsAt(s)' = {row}
  BY <1>1, <1>2, <1>3 DEF RowsAt
<1>5. ASSUME NEW t \in Slots \ {s} PROVE RowsAt(t)' = RowsAt(t)
  <2>1. Path(t) # Path(s)
    BY PathNamesOne DEF DisksFit
  <2> QED BY <1>1, <1>2, <1>3, <2>1 DEF RowsAt
<1>6. rows' = rows => RowsAt(s) = {row}
  BY <1>1, <1>2 DEF RowsAt
<1> QED BY <1>2, <1>4, <1>5, <1>6 DEF RowAt
(* Such a row fits the table.                                              *)
LEMMA TableSet ==
  ASSUME PoolsFit, TableFits, NEW s \in Slots, NEW u \in Issued \cup {Nothing}, NEW x \in Purposes,
         rows' = SetRow(Path(s), u, x),
         \A d \in Requesters : Working(d) /\ work[d].at \in Early => u # work[d].uuid
  PROVE  /\ (\A r \in rows' : RowFits(r)) /\ RowsAreOne'
         /\ \A r \in rows' : r \in rows \/ r = [path |-> Path(s), uuid |-> u, purpose |-> x]
         /\ \A r \in rows' : r \in rows \/ \A d \in Requesters : Working(d) /\ work[d].at \in Early => r.uuid # work[d].uuid
<1>1. RowFits([path |-> Path(s), uuid |-> u, purpose |-> x])
  BY PathIs DEF RowFits, PoolsFit, DisksFit
<1> QED BY <1>1, SetRowFits DEF RowsAreOne

(* The UUID for a new file system is known nowhere yet.                    *)
LEMMA OwnNewUuid ==
  ASSUME PurposesFit, NEW d \in Requesters, Working(d), work[d].at \in Early
  PROVE  /\ \A s \in Slots : fs[s] # work[d].uuid
         /\ \A p : ~Bears(p, work[d].uuid)
         /\ work[d].uuid \notin pools
         /\ \A e \in Requesters : Working(e) => \A p \in DOMAIN work[e].tree : work[e].tree[p] # work[d].uuid
BY DEF PurposesFit, PoolsFit, WorkFits, NewUuid, TableFits, RequestFits, Bears, Early

(* A purpose is assigned, or a pool is made, by the tree read at first.    *)
LEMMA SavePurposes ==
  ASSUME PurposesFit, PoolsFit', NEW c \in Requesters, Save(c)
  PROVE  PurposesFit'
<1>1. /\ UNCHANGED <<name, parted, fs, mounted, blurred, moved, operations>> /\ work[c].at = "save"
      /\ Reply(c) /\ Working(c)
  BY AtWorks DEF Save, Unchanged, Steps
<1>2. /\ PoolsFit /\ DisksFit /\ TableFits /\ RequestFits(c) /\ TreeFits(c) /\ work[c].on \in DOMAIN work[c].tree
      /\ PoolIsThere(c) /\ blurred \subseteq Slots /\ want \in [Slots -> Purposes \cup {Nothing}]
      /\ RowsAreOne /\ \A r \in rows : RowFits(r)
  BY <1>1 DEF PurposesFit, PoolsFit, TableFits, WorkFits, RequestFits, WorkIsSafe
<1>3. Others(c) /\ work'[c] = NoWork /\ ~Working(c)'
  BY <1>1, <1>2, ReplyEnds DEF Working
<1>4. PICK s : s = SlotAt(work[c].on)
  OBVIOUS
<1>5. PICK u : u = Node(c)
  OBVIOUS
<1>6. /\ Target(c) = {s} /\ Path(s) = work[c].on /\ s \in Slots /\ u \in Issued \cup {Nothing} /\ Bears(Path(s), u)
      /\ \A t \in Slots : Path(t)' = Path(t)
  <2>1. Target(c) = {s} /\ Path(s) = work[c].on
    BY <1>1, <1>2, <1>4, OnItself DEF RequestFits, OnDisk
  <2> QED BY <1>1, <1>2, <1>5, <2>1, TreeBears DEF Node, TreeFits, Target, SlotsOf, Path
<1>7. ASSUME ~moved, s \notin blurred
      PROVE  Holding(s) /\ Knows(c, s) /\ s \in parted /\ u = fs[s]
  BY <1>1, <1>2, <1>5, <1>6, <1>7, OwnSlot DEF Knows, Seen, Node
<1>8. \A d \in Requesters : Working(d)' => Working(d) /\ Proceeds(d)
  BY <1>1, <1>3 DEF Others, Proceeds, Goes, Working
<1>9. \A d \in Requesters : Working(d)' => \A p \in DOMAIN work'[d].tree : Bears(p, work'[d].tree[p])
  BY <1>1, <1>3, <1>8, TreeBears DEF Proceeds, Goes
<1>10. CASE Does(c, {"pool"})
  <2>1. pools' = pools \cup {u} /\ UNCHANGED <<rows, want>> /\ u # Nothing
    BY <1>1, <1>2, <1>5, <1>10 DEF Save, PoolIsThere, Does
  <2>2. TableFits'
    BY <1>1, <1>2, <1>8, <2>1, TableStays DEF RowsAreOne
  <2>3. ASSUME ~moved PROVE OneHome'
    BY <1>1, <1>9, <2>1, <2>3, HomeStays, RowBears DEF PurposesFit, StoredFits
  <2>4. ASSUME NEW t \in Slots \ (Target(c) \cup blurred) PROVE Aside(t)
    <3>1. fs[t] # u
      BY <1>2, <1>5, <1>6, <2>1, <2>4, PathNamesOne DEF TreeFits, Node, DisksFit
    <3> QED BY <1>1, <1>6, <2>1, <3>1 DEF Aside, RowAt, RowsAt
  <2>5. ASSUME ~moved, s \notin blurred PROVE Holding(s)'
    BY <1>1, <1>6, <1>7, <1>10, <2>1, <2>5 DEF Holding, Knows, Does, RowAt, RowsAt
  <2> QED BY <1>1, <1>3, <1>6, <2>2, <2>3, <2>4, <2>5, OwnSlotsChange
<1>11. CASE ~Does(c, {"pool"})
  <2>1. /\ UNCHANGED pools /\ work[c].do = "assign"
        /\ rows' = IF work[c].purpose = Nothing THEN rows \ Cleared(Path(s), u) ELSE SetRow(Path(s), u, work[c].purpose)
        /\ want' = [want EXCEPT ![s] = IF rows' = rows THEN @ ELSE work[c].purpose]
    BY <1>1, <1>2, <1>4, <1>5, <1>6, <1>11 DEF Save, Does, RequestFits
  <2>2. want' \in [Slots -> Purposes \cup {Nothing}] /\ work[c].purpose \in Purposes \cup {Nothing}
    BY <1>2, <2>1 DEF RequestFits
  <2>3. \A d \in Requesters : Working(d) /\ work[d].at \in Early => u # work[d].uuid
    BY <1>1, <1>2, <1>5, OwnNewUuid DEF Node
  <2>4. /\ (\A r \in rows' : RowFits(r)) /\ RowsAreOne' /\ (\A r \in rows' : Bears(r.path, r.uuid))
        /\ \A r \in rows' : r \in rows \/ \A d \in Requesters : Working(d) /\ work[d].at \in Early => r.uuid # work[d].uuid
    <3>1. CASE work[c].purpose = Nothing
      <4>1. rows' \subseteq rows
        BY <2>1, <3>1
      <4> QED BY <1>2, <4>1, RowBears DEF RowsAreOne
    <3>2. CASE work[c].purpose # Nothing
      <4>1. work[c].purpose \in Purposes /\ rows' = SetRow(Path(s), u, work[c].purpose)
        BY <2>1, <2>2, <3>2
      <4> QED BY <1>2, <1>6, <2>3, <4>1, TableSet, RowBears
    <3> QED BY <3>1, <3>2
  <2>5. TableFits'
    BY <1>1, <1>2, <1>8, <2>2, <2>4, TableStays
  <2>6. ASSUME ~moved PROVE OneHome'
    BY <1>1, <1>9, <2>4, <2>6, HomeStays DEF PurposesFit, StoredFits
  <2>7. ASSUME ~moved
        PROVE  /\ RowAt(s)' = {work[c].purpose} \ {Nothing}
               /\ rows' = rows => RowAt(s) = {work[c].purpose} \ {Nothing}
               /\ \A t \in Slots \ {s} : RowAt(t)' = RowAt(t)
    <3>1. OneHome
      BY <2>7 DEF PurposesFit, StoredFits
    <3>2. CASE work[c].purpose = Nothing
      <4>1. rows' = {r \in rows : r.path # Path(s)}
        BY <1>6, <2>1, <3>1, <3>2, ClearedByPath
      <4>2. RowsAt(s)' = {} /\ (rows' = rows => RowsAt(s) = {})
        BY <1>6, <4>1 DEF RowsAt
      <4>3. \A t \in Slots \ {s} : RowsAt(t)' = RowsAt(t)
        BY <1>2, <1>6, <4>1, PathNamesOne DEF RowsAt, DisksFit
      <4> QED BY <3>2, <4>2, <4>3 DEF RowAt
    <3>3. CASE work[c].purpose # Nothing
      BY <1>1, <1>2, <1>6, <2>1, <3>1, <3>3, RowSet
    <3> QED BY <3>2, <3>3
  <2>8. ASSUME ~moved, NEW t \in Slots \ (Target(c) \cup blurred) PROVE Aside(t)
    BY <1>1, <1>2, <1>6, <2>1, <2>7, <2>8 DEF Aside
  <2>9. ASSUME ~moved, s \notin blurred PROVE Holding(s)'
    <3>1. want'[s] = work[c].purpose
      <4>1. CASE rows' = rows
        BY <1>2, <1>6, <1>7, <2>1, <2>2, <2>7, <2>9, <4>1 DEF Holding
      <4>2. CASE rows' # rows
        BY <1>2, <1>6, <2>1, <4>2
      <4> QED BY <4>1, <4>2
    <3>2. fs[s] \in pools => work[c].purpose = "files"
      BY <1>1, <1>7, <2>1, <2>9 DEF Knows
    <3> QED BY <1>1, <1>7, <2>1, <2>7, <2>9, <3>1, <3>2 DEF Holding
  <2> QED BY <1>1, <1>3, <1>6, <2>5, <2>6, <2>8, <2>9, OwnSlotsChange
<1> QED BY <1>10, <1>11

(* Core has heard from the helper: the row of a new or formatted partition *)
(* is set, those of deleted ones are cleared.                              *)
LEMMA UpdatePurposesKeeps ==
  ASSUME PurposesFit, PoolsFit', NEW c \in Requesters, UpdatePurposes(c)
  PROVE  PurposesFit'
<1>1. /\ UNCHANGED <<name, parted, fs, mounted, pools, blurred, moved, operations>> /\ work[c].at = "after"
      /\ Reply(c) /\ Working(c)
  BY AtWorks DEF UpdatePurposes, Unchanged, Steps
<1>2. /\ PoolsFit /\ DisksFit /\ TableFits /\ RequestFits(c) /\ blurred \subseteq Slots /\ parted \subseteq Slots
      /\ want \in [Slots -> Purposes \cup {Nothing}] /\ RowsAreOne /\ (\A r \in rows : RowFits(r))
      /\ Target(c) \subseteq Slots /\ work[c].purpose \in Purposes \cup {Nothing} /\ name \in Naming
  BY <1>1 DEF PurposesFit, PoolsFit, TableFits, WorkFits, RequestFits, DisksFit, Target, SlotsOf
<1>3. Others(c) /\ work'[c] = NoWork /\ ~Working(c)'
  BY <1>1, <1>2, ReplyEnds DEF Working
<1>4. \A d \in Requesters : Working(d)' => Working(d) /\ Proceeds(d)
  BY <1>1, <1>3 DEF Others, Proceeds, Goes, Working
<1>5. \A d \in Requesters : Working(d)' => \A p \in DOMAIN work'[d].tree : Bears(p, work'[d].tree[p])
  BY <1>1, <1>3, <1>4, TreeBears DEF Proceeds, Goes
<1>6. \A t \in Slots : Path(t)' = Path(t)
  BY <1>1 DEF Path
(* The purpose of one partition is set.                                    *)
<1>7. ASSUME NEW s \in Target(c) \cap parted, work[c].purpose # Nothing, work[c].do \in {"format", "create"},
             rows' = SetRow(Path(s), fs[s], work[c].purpose),
             work[c].do = "format" => UNCHANGED want,
             work[c].do = "create" => want' = [want EXCEPT ![s] = IF rows' = rows THEN @ ELSE work[c].purpose],
             ~moved /\ s \notin blurred /\ fs[s] \in pools => work[c].purpose = "files",
             ~moved /\ s \notin blurred /\ work[c].do = "format" => work[c].purpose = want[s]
      PROVE  PurposesFit'
  <2> DEFINE x == work[c].purpose
  <2>1. s \in Slots /\ fs[s] \in Issued \cup {Nothing} /\ x \in Purposes /\ Bears(Path(s), fs[s])
    BY <1>2, <1>7 DEF DisksFit, Bears
  <2>2. \A d \in Requesters : Working(d) /\ work[d].at \in Early => fs[s] # work[d].uuid
    BY <2>1, OwnNewUuid
  <2> HIDE DEF x
  <2>3. /\ (\A r \in rows' : RowFits(r)) /\ RowsAreOne' /\ (\A r \in rows' : Bears(r.path, r.uuid))
        /\ \A r \in rows' : r \in rows \/ \A d \in Requesters : Working(d) /\ work[d].at \in Early => r.uuid # work[d].uuid
    <3>1. rows' = SetRow(Path(s), fs[s], x)
      BY <1>7 DEF x
    <3> QED BY <1>2, <2>1, <2>2, <3>1, TableSet, RowBears
  <2>4. want' \in [Slots -> Purposes \cup {Nothing}]
    BY <1>2, <1>7
  <2>5. TableFits'
    BY <1>1, <1>2, <1>4, <2>3, <2>4, TableStays
  <2>6. ASSUME ~moved PROVE OneHome'
    BY <1>1, <1>5, <2>3, <2>6, HomeStays DEF PurposesFit, StoredFits
  <2>7. ASSUME ~moved
        PROVE  /\ RowAt(s)' = {x} /\ (rows' = rows => RowAt(s) = {x})
               /\ \A t \in Slots \ {s} : RowAt(t)' = RowAt(t)
    <3>1. OneHome
      BY <2>7 DEF PurposesFit, StoredFits
    <3> QED BY <1>1, <1>2, <1>7, <2>1, <3>1, RowSet DEF x
  <2>8. ASSUME ~moved, NEW t \in Slots \ {s} PROVE Aside(t)
    BY <1>1, <1>2, <1>7, <2>7, <2>8 DEF Aside
  <2>9. ASSUME ~moved, s \notin blurred PROVE Holding(s)'
    <3>1. Holding(s)
      BY <1>1, <1>7, <2>9, OwnSlot
    <3>2. want'[s] = x
      <4>1. CASE work[c].do = "format"
        BY <1>7, <2>9, <4>1 DEF x
      <4>2. CASE work[c].do = "create" /\ rows' = rows
        BY <1>2, <1>7, <2>1, <2>7, <2>9, <3>1, <4>2 DEF Holding
      <4>3. CASE work[c].do = "create" /\ rows' # rows
        BY <1>2, <1>7, <2>1, <4>3 DEF x
      <4> QED BY <1>7, <4>1, <4>2, <4>3
    <3> QED BY <1>1, <1>7, <2>1, <2>7, <2>9, <3>2 DEF Holding, x
  <2>10. ASSUME ~moved, NEW t \in Target(c) \ blurred PROVE Holding(t)'
    <3>1. CASE t = s
      BY <2>9, <2>10, <3>1
    <3>2. CASE t # s
      <4>1. Holding(t) /\ Aside(t) /\ t \in Slots /\ \A d \in Requesters \ {c} : ~(Working(d) /\ t \in Target(d))
        BY <1>1, <1>2, <2>8, <2>10, <3>2, OwnSlot
      <4>2. \A d \in Requesters : ~Deleting(d, t)
        BY <1>7, <4>1 DEF Deleting, Deletion
      <4> QED BY <4>1, <4>2 DEF Holding, Aside
    <3> QED BY <3>1, <3>2
  <2> QED BY <1>1, <1>3, <2>5, <2>6, <2>8, <2>10, <1>7, OwnSlotsChange
<1>8. CASE Does(c, {"format"}) /\ work[c].purpose # Nothing /\ Present(work[c].on)
  <2>1. PICK s \in parted : Path(s) = work[c].on
    BY <1>8 DEF Present
  <2>2. SlotAt(work[c].on) = s /\ s \in Target(c)
    BY <1>1, <1>2, <1>8, <2>1, SlotIsThere DEF Target, SlotsOf, OnDisk, Does
  <2>3. rows' = SetRow(Path(s), fs[s], work[c].purpose) /\ UNCHANGED want
    BY <1>8, <2>1, <2>2 DEF UpdatePurposes, Does
  <2>4. ASSUME ~moved, s \notin blurred PROVE work[c].purpose = want[s] /\ (fs[s] \in pools => work[c].purpose = "files")
    BY <1>1, <1>8, <2>1, <2>2, <2>4, OwnSlot DEF Knows, Holding, Does
  <2> QED BY <1>7, <1>8, <2>1, <2>2, <2>3, <2>4 DEF Does
<1>9. CASE Does(c, {"create"}) /\ work[c].purpose # Nothing /\ Cardinality(NewPaths(c)) = 1
  <2> DEFINE q == CHOOSE x \in NewPaths(c) : TRUE
  <2>1. q \in NewPaths(c)
    <3>1. NewPaths(c) # {}
      BY <1>9, FS_EmptySet
    <3> QED BY <3>1
  <2>2. PICK s \in Target(c) \cap parted : q = Path(s) /\ q \notin DOMAIN work[c].tree
    BY <2>1 DEF NewPaths
  <2>3. SlotAt(q) = s
    BY <1>2, <2>2, SlotIsThere
  <2>4. rows' = SetRow(q, fs[SlotAt(q)], work[c].purpose)
        /\ want' = [want EXCEPT ![SlotAt(q)] = IF rows' = rows THEN @ ELSE work[c].purpose]
    BY <1>9 DEF UpdatePurposes, Does
  <2>5. ASSUME ~moved, s \notin blurred PROVE fs[s] \notin pools
    BY <1>1, <1>9, <2>2, <2>5, OwnSlot DEF Knows, Seen, Does
  <2> HIDE DEF q
  <2> QED BY <1>7, <1>9, <2>2, <2>3, <2>4, <2>5 DEF Does
<1>10. CASE Does(c, {"delete", "delete_all"})
  <2>1. /\ rows' = rows \ UNION {Cleared(x, work[c].tree[x]) : x \in DOMAIN work[c].tree} /\ UNCHANGED want
        /\ rows' \subseteq rows
    BY <1>10 DEF UpdatePurposes, Does
  <2>2. TableFits'
    BY <1>1, <1>2, <1>4, <2>1, TableStays DEF RowsAreOne
  <2>3. ASSUME ~moved PROVE OneHome'
    BY <1>1, <1>5, <2>1, <2>3, HomeStays, RowBears DEF PurposesFit, StoredFits
  <2>4. ASSUME ~moved
        PROVE  \A t \in Slots : RowsAt(t)' = IF Seen(c, t) THEN {} ELSE RowsAt(t)
    <3>1. \A x \in DOMAIN work[c].tree : Cleared(x, work[c].tree[x]) = {r \in rows : r.path = x}
      BY <1>1, <2>4, TreeBears, ClearedByPath DEF PurposesFit, StoredFits
    <3>2. rows' = {r \in rows : r.path \notin DOMAIN work[c].tree}
      BY <2>1, <3>1
    <3> QED BY <1>6, <3>2 DEF RowsAt, Seen
  <2>5. ASSUME ~moved, NEW t \in Slots \ (Target(c) \cup blurred) PROVE Aside(t)
    <3>1. ~Seen(c, t)
      BY <1>2, <2>5, PathNamesOne DEF RequestFits, Seen
    <3> QED BY <1>1, <2>1, <2>4, <2>5, <3>1 DEF Aside, RowAt
  <2>6. ASSUME ~moved, NEW t \in Target(c) \ blurred PROVE Holding(t)'
    <3>1. Holding(t) /\ Knows(c, t) /\ t \in Slots /\ \A d \in Requesters \ {c} : ~(Working(d) /\ t \in Target(d))
      BY <1>1, <2>6, OwnSlot
    <3>2. t \notin parted
      BY <1>1, <1>10, <3>1 DEF Knows, Deletion, Does
    <3>3. RowAt(t)' = {}
      <4>1. CASE Seen(c, t)
        BY <2>4, <2>6, <3>1, <4>1 DEF RowAt
      <4>2. CASE ~Seen(c, t)
        <5>1. RowAt(t) = {}
          BY <3>1, <3>2, <4>2 DEF Holding, Deleting, Seen
        <5> QED BY <2>4, <2>6, <3>1, <4>2, <5>1 DEF RowAt
      <4> QED BY <4>1, <4>2
    <3> QED BY <1>1, <2>1, <3>1, <3>2, <3>3 DEF Holding
  <2> QED BY <1>1, <1>3, <2>2, <2>3, <2>5, <2>6, OwnSlotsChange
<1>11. CASE UNCHANGED <<rows, want>> /\ ~Deletion(c)
  BY <1>1, <1>2, <1>11, ReplyCalm DEF Still
<1> QED BY <1>8, <1>9, <1>10, <1>11 DEF UpdatePurposes, Does, Deletion

(* The helper changes the disk; the table follows later.                   *)
LEMMA ActPurposes ==
  ASSUME PurposesFit, PoolsFit', NEW c \in Requesters, Act(c)
  PROVE  PurposesFit'
<1>1. /\ UNCHANGED <<name, rows, pools, blurred, moved, operations>> /\ Working(c) /\ work[c].at = "act"
      /\ Accepted(c) /\ Change(c)
      /\ IF work[c].left \/ Does(c, {"mount"}) THEN Reply(c) ELSE Step(c, "after")
  BY AtWorks DEF Act, Unchanged, Steps
<1>2. /\ PoolsFit /\ DisksFit /\ TableFits /\ RequestFits(c) /\ blurred \subseteq Slots /\ parted \subseteq Slots
      /\ want \in [Slots -> Purposes \cup {Nothing}] /\ RowsAreOne /\ (\A r \in rows : RowFits(r))
      /\ Target(c) \subseteq Slots /\ name \in Naming /\ Nothing \notin pools
  BY <1>1, IssuedAre DEF PurposesFit, PoolsFit, TableFits, WorkFits, RequestFits, DisksFit, Target, SlotsOf
<1>3. /\ Others(c) /\ (work'[c] = NoWork \/ Goes(c))
      /\ Working(c)' => Proceeds(c) /\ work'[c].at = "after" /\ work'[c].left = work[c].left
  <2>1. CASE Reply(c)
    BY <1>2, <2>1, ReplyEnds DEF Working
  <2>2. CASE Step(c, "after")
    BY <1>1, <1>2, <2>2, StepGoes, StepProceeds DEF Steps, Early
  <2> QED BY <1>1, <2>1, <2>2
<1>4. \A d \in Requesters : Working(d)' => Working(d) /\ Proceeds(d)
  BY <1>1, <1>3 DEF Others, Proceeds, Goes, Working
<1>5. \A d \in Requesters : Working(d)' => \A p \in DOMAIN work'[d].tree : Bears(p, work'[d].tree[p])
  BY <1>1, <1>3, <1>4, TreeBears DEF Proceeds, Goes
<1>6. \A t \in Slots : Path(t)' = Path(t) /\ RowAt(t)' = RowAt(t)
  BY <1>1 DEF Path, RowAt, RowsAt
<1>7. Working(c)' => Target(c)' = Target(c)
  BY <1>3, TargetStays DEF Proceeds
<1>8. ASSUME want' \in [Slots -> Purposes \cup {Nothing}] PROVE TableFits'
  BY <1>1, <1>2, <1>4, <1>8, TableStays DEF RowsAreOne
<1>9. ASSUME ~moved, \A s \in Slots : fs'[s] # Nothing => fs'[s] = fs[s] PROVE OneHome'
  BY <1>1, <1>5, <1>9, HomeStays, RowBears DEF PurposesFit, StoredFits
<1>10. ASSUME ~moved, NEW s \in Target(c) \ blurred
       PROVE  /\ Holding(s) /\ Knows(c, s) /\ s \in Slots /\ ~\E d \in Requesters : Deleting(d, s)
              /\ s \notin parted => fs[s] \notin pools /\ want[s] = Nothing /\ RowAt(s) = {}
              /\ Seen(c, s) <=> s \in parted
  <2>1. Holding(s) /\ Knows(c, s) /\ s \in Slots /\ \A d \in Requesters \ {c} : ~(Working(d) /\ s \in Target(d))
    BY <1>1, <1>10, OwnSlot
  <2>2. ~\E d \in Requesters : Deleting(d, s)
    BY <1>1, <2>1 DEF Deleting
  <2> QED BY <1>1, <2>1, <2>2 DEF Holding, Knows
<1>11. \A s \in Slots : Working(c)' => Seen(c, s)' = Seen(c, s)
  BY <1>3, <1>6 DEF Seen, Proceeds, Goes
<1>12. Working(c)' => work'[c].do = work[c].do /\ work'[c].purpose = work[c].purpose /\ work'[c].tree = work[c].tree
  BY <1>3 DEF Proceeds, Goes
<1>13. CASE Does(c, {"format"})
  <2>1. /\ Target(c) \subseteq parted /\ fs' = [s \in Slots |-> IF s \in Target(c) THEN work[c].uuid ELSE fs[s]]
        /\ UNCHANGED <<parted, mounted, want>> /\ work[c].do = "format"
    BY <1>1, <1>13 DEF Accepted, Change, Does
  <2>2. \A s, t \in Target(c) : s = t
    BY <1>2, <1>13, PathNamesOne DEF Target, SlotsOf, OnDisk, Does
  <2>0. PICK made : made = work[c].uuid
    OBVIOUS
  <2>3. made \notin pools /\ \A p : ~Bears(p, made)
    BY <1>1, <2>0, OwnNewUuid DEF Early
  <2>4. ASSUME ~moved PROVE OneHome'
    <3>1. ASSUME NEW p, NEW u, u # made, Bears(p, u)' PROVE Bears(p, u)
      <4>1. CASE \E s \in Slots : Path(s)' = p /\ fs'[s] = u
        BY <1>6, <2>0, <2>1, <3>1, <4>1 DEF Bears
      <4>2. CASE \E r \in rows' : r.path = p /\ r.uuid = u
        BY <1>1, <4>2 DEF Bears
      <4>3. CASE \E d \in Requesters : Working(d)' /\ p \in DOMAIN work'[d].tree /\ work'[d].tree[p] = u
        BY <1>5, <4>3
      <4> QED BY <3>1, <4>1, <4>2, <4>3 DEF Bears
    <3>2. ASSUME NEW p, Bears(p, made)' PROVE \E s \in Target(c) : p = Path(s)
      <4>1. PICK s \in Slots : Path(s)' = p /\ fs'[s] = made
        <5>1. ~\E r \in rows' : r.path = p /\ r.uuid = made
          BY <1>1, <2>3 DEF Bears
        <5>2. ~\E d \in Requesters : Working(d)' /\ p \in DOMAIN work'[d].tree /\ work'[d].tree[p] = made
          BY <1>5, <2>3
        <5> QED BY <3>2, <5>1, <5>2 DEF Bears
      <4>2. s \in Target(c)
        BY <2>0, <2>1, <2>3, <4>1 DEF Bears
      <4> QED BY <1>6, <4>1, <4>2
    <3>3. OneHome
      BY <2>4 DEF PurposesFit, StoredFits
    <3> QED BY <2>2, <3>1, <3>2, <3>3 DEF OneHome
  <2>5. ASSUME NEW t \in Slots \ (Target(c) \cup blurred) PROVE Aside(t)
    BY <1>1, <1>6, <2>1, <2>5 DEF Aside
  <2>6. ASSUME ~moved, NEW s \in Target(c) \ blurred PROVE Holding(s)' /\ (Working(c)' => Knows(c, s)')
    <3>1. Holding(s)'
      BY <1>1, <1>6, <1>10, <2>0, <2>1, <2>3, <2>6 DEF Holding
    <3>2. Working(c)' => Knows(c, s)'
      BY <1>3, <1>10, <1>12, <2>1, <2>6 DEF Knows, Deletion, Dangerous
    <3> QED BY <3>1, <3>2
  <2> QED BY <1>1, <1>2, <1>3, <1>8, <2>1, <2>4, <2>5, <2>6, OwnSlotsChange
<1>14. CASE Does(c, {"delete", "delete_all"})
  <2>1. /\ parted' = parted \ Target(c) /\ UNCHANGED <<fs, mounted>> /\ Deletion(c)
        /\ want' = [s \in Slots |-> IF s \in Target(c) THEN Nothing ELSE want[s]]
    BY <1>1, <1>14 DEF Change, Does, Deletion
  <2>2. want' \in [Slots -> Purposes \cup {Nothing}]
    BY <1>2, <2>1
  <2>3. ASSUME NEW t \in Slots \ (Target(c) \cup blurred) PROVE Aside(t)
    BY <1>1, <1>6, <2>1, <2>3 DEF Aside
  <2>4. ASSUME ~moved, NEW s \in Target(c) \ blurred PROVE Holding(s)' /\ (Working(c)' => Knows(c, s)')
    <3>1. ~work[c].left /\ ~Does(c, {"mount"})
      BY <1>10, <1>14, <2>1, <2>4 DEF Knows, Does
    <3>2. Working(c)' /\ work'[c].at = "after" /\ ~work'[c].left
      <4>1. Step(c, "after")
        BY <1>1, <3>1
      <4>2. work'[c].at = "after" /\ Goes(c)
        BY <1>1, <1>2, <4>1, StepGoes DEF Steps
      <4>3. Working(c)'
        BY <4>2, AtWorks DEF Working, NoWork
      <4> QED BY <1>3, <3>1, <4>2, <4>3
    <3>3. fs[s] \notin pools
      BY <1>1, <1>10, <2>1, <2>4 DEF Knows, Deletion, Dangerous
    <3>4. RowAt(s)' = {} \/ Deleting(c, s)'
      <4>1. CASE s \in parted
        <5>1. Seen(c, s)'
          BY <1>10, <1>11, <2>4, <3>2, <4>1
        <5> QED BY <1>7, <1>12, <2>1, <2>4, <3>2, <5>1 DEF Deleting, Deletion, Seen
      <4>2. CASE s \notin parted
        BY <1>6, <1>10, <2>4, <4>2
      <4> QED BY <4>1, <4>2
    <3>5. Holding(s)'
      BY <1>1, <1>10, <2>1, <2>4, <3>3, <3>4 DEF Holding
    <3>6. Knows(c, s)'
      BY <1>10, <1>12, <2>1, <2>4, <3>2 DEF Knows, Deletion, Dangerous
    <3> QED BY <3>5, <3>6
  <2> QED BY <1>1, <1>2, <1>3, <1>8, <1>9, <2>1, <2>2, <2>3, <2>4, OwnSlotsChange
<1>15. CASE Does(c, {"create"})
  <2> DEFINE first == CHOOSE s \in Target(c) \ parted : \A t \in Target(c) \ parted : s[2] <= t[2]
  <2>1. /\ parted' = parted \cup {first} /\ fs' \in {fs, [fs EXCEPT ![first] = Nothing]} /\ UNCHANGED <<mounted, want>>
        /\ work[c].do = "create"
    BY <1>1, <1>15 DEF Change, Does
  <2>2. first \in Target(c) \ parted
    BY <1>1, <1>2, <1>15, FirstSlot DEF Accepted, Does
  <2> HIDE DEF first
  <2>3. PICK new \in Target(c) \ parted : new = first
    BY <2>2
  <2>4. ASSUME NEW s \in Slots PROVE fs'[s] = fs[s] \/ (s = new /\ fs'[s] = Nothing)
    BY <1>2, <2>1, <2>3 DEF DisksFit
  <2>5. ASSUME NEW t \in Slots \ {new} PROVE Aside(t)
    BY <1>1, <1>6, <2>1, <2>3, <2>4, <2>5 DEF Aside
  <2>6. ASSUME ~moved, NEW s \in Target(c) \ blurred PROVE Holding(s)' /\ (Working(c)' => Knows(c, s)')
    <3>1. Holding(s)'
      <4>1. CASE s = new
        <5>1. s \notin parted /\ fs'[s] \notin pools /\ want[s] = Nothing /\ RowAt(s) = {}
          BY <1>2, <1>10, <2>3, <2>4, <2>6, <4>1
        <5>2. RowAt(s)' = {want'[s]} \ {Nothing} /\ s \in parted' /\ fs'[s] \notin pools'
          BY <1>1, <1>2, <1>6, <2>1, <2>3, <4>1, <5>1
        <5> QED BY <5>2 DEF Holding
      <4>2. CASE s # new
        BY <1>1, <1>2, <1>10, <2>5, <2>6, <4>2 DEF Holding, Aside
      <4> QED BY <4>1, <4>2
    <3>2. Seen(c, s) => s \in parted'
      BY <1>10, <2>1, <2>6
    <3>3. ~Seen(c, s) => fs'[s] \notin pools'
      BY <1>1, <1>2, <1>10, <2>4, <2>6
    <3>4. Working(c)' => Knows(c, s)'
      BY <1>3, <1>10, <1>11, <1>12, <2>1, <2>6, <3>2, <3>3 DEF Knows, Deletion, Dangerous
    <3> QED BY <3>1, <3>4
  <2>7. \A s \in Slots : fs'[s] # Nothing => fs'[s] = fs[s]
    BY <2>4
  <2> QED BY <1>1, <1>2, <1>3, <1>8, <1>9, <2>1, <2>2, <2>5, <2>6, <2>7, <2>3, OwnSlotsChange
<1>16. CASE ~Does(c, {"format"}) /\ ~Does(c, {"delete", "delete_all"}) /\ ~Does(c, {"create"})
  <2>1. UNCHANGED <<parted, fs, want>>
    BY <1>1, <1>16 DEF Change
  <2>2. ASSUME NEW t \in Slots PROVE Aside(t)
    BY <1>1, <1>6, <2>1, <2>2 DEF Aside
  <2>3. ASSUME ~moved, NEW s \in Target(c) \ blurred PROVE Holding(s)' /\ (Working(c)' => Knows(c, s)')
    <3>1. Holding(s)'
      BY <1>1, <1>10, <2>1, <2>2, <2>3 DEF Holding, Aside
    <3>2. Working(c)' => Knows(c, s)'
      BY <1>3, <1>12, <1>16 DEF Knows, Deletion, Does, Dangerous
    <3> QED BY <3>1, <3>2
  <2> QED BY <1>1, <1>2, <1>3, <1>8, <1>9, <2>1, <2>2, <2>3, OwnSlotsChange
<1> QED BY <1>13, <1>14, <1>15, <1>16

(* A request reads the tree: it knows its slots unless another is on them. *)
LEMMA AskPurposes ==
  ASSUME PurposesFit, PoolsFit', NEW c \in Requesters, NEW do, NEW p \in DevPaths,
         NEW purpose \in Purposes \cup {Nothing}, NEW seen \in BOOLEAN, Ask(c, do, p, purpose, seen),
         do \in {"assign", "pool"} => Present(p) /\ seen
  PROVE  PurposesFit'
<1>1. /\ UNCHANGED <<name, parted, fs, mounted, rows, pools, want, moved>> /\ operations' = operations + 1
      /\ operations < MaxOperations /\ work[c] = NoWork
  BY DEF Ask
<1>2. /\ PoolsFit /\ DisksFit /\ WorkFits /\ TableFits /\ blurred \subseteq Slots /\ parted \subseteq Slots
      /\ want \in [Slots -> Purposes \cup {Nothing}] /\ RowsAreOne /\ (\A r \in rows : RowFits(r))
      /\ name \in Naming /\ operations \in Nat
  BY DEF PurposesFit, PoolsFit, TableFits, DisksFit
<1>3. PICK slots \in SUBSET Slots : slots = SlotsOf(do, p)
  BY DEF SlotsOf
<1>a. PICK found \in SUBSET (slots \cap parted) : found = {x \in slots \cap parted : seen}
  OBVIOUS
<1>4. PICK tree : tree = [q \in {Path(s) : s \in found} |-> fs[SlotAt(q)]]
  OBVIOUS
<1>5. PICK uuid : uuid = Cardinality(Slots) + operations'
  OBVIOUS
<1>6. PICK kept : kept = IF do = "format" /\ p \in DOMAIN tree THEN Recorded(p, tree[p]) ELSE purpose
  OBVIOUS
<1>7. blurred' = blurred \cup {s \in slots : AtWork(s) \/ ~seen}
  BY <1>3 DEF Ask
<1>8. /\ Others(c)
      /\ work'[c] = [at |-> IF do \in {"mount", "create"} THEN "act" ELSE "check", do |-> do, on |-> p,
                     tree |-> tree, left |-> FALSE, uuid |-> uuid, purpose |-> kept]
  BY <1>2, <1>3, <1>a, <1>4, <1>5, <1>6, Zenon DEF Ask, WorkFits, Others
<1>9. /\ work'[c].at = (IF do \in {"mount", "create"} THEN "act" ELSE "check") /\ work'[c].do = do /\ work'[c].on = p
      /\ work'[c].tree = tree /\ work'[c].left = FALSE /\ work'[c].uuid = uuid /\ work'[c].purpose = kept
  BY <1>8
<1>10. /\ DOMAIN tree = {Path(s) : s \in found}
       /\ \A s \in found : tree[Path(s)] = fs[s]
       /\ seen => found = slots \cap parted
  BY <1>2, <1>a, <1>4, SlotIsThere
<1>11. Target(c)' = slots /\ \A t \in Slots : Path(t)' = Path(t)
  BY <1>1, <1>3, <1>9 DEF Target, SlotsOf, OnDisk, Path
<1>12. kept \in Purposes \cup {Nothing}
  BY <1>2, <1>6, RecordedIsPurpose
<1>13. uuid \notin Issued \cup {Nothing} /\ Issued \subseteq Issued'
  BY <1>1, <1>2, <1>5, FS_CardinalityType, StorageAssumption DEF Issued
<1>14. RequestFits(c)'
  <2>1. \A q \in DOMAIN tree : \E s \in slots : Path(s)' = q
    BY <1>10, <1>11
  <2>2. do \in {"assign", "pool"} => p \in DOMAIN tree
    BY <1>2, <1>3, <1>10 DEF Present, SlotsOf, OnDisk
  <2>3. \A r \in rows' : r.uuid # uuid
    BY <1>1, <1>2, <1>13 DEF RowFits
  <2>4. work'[c].at # "save"
    BY <1>9
  <2> QED BY <1>9, <1>11, <1>12, <2>1, <2>2, <2>3, <2>4 DEF RequestFits
<1>15. ASSUME NEW d \in Requesters \ {c}, Working(d)'
       PROVE  Working(d) /\ Goes(d) /\ work'[d] = work[d] /\ Target(d)' = Target(d) /\ RequestFits(d)'
  <2>1. Working(d) /\ Goes(d) /\ work'[d] = work[d]
    BY <1>1, <1>8, <1>15 DEF Others, Goes, Working
  <2>2. RequestFits(d) /\ Target(d)' = Target(d) /\ Target(d) \subseteq Slots
    BY <2>1, TargetStays DEF PurposesFit, TableFits, Target, SlotsOf
  <2> QED BY <1>1, <1>11, <2>1, <2>2 DEF RequestFits
<1>16. blurred \subseteq blurred' /\ blurred' \subseteq Slots
  BY <1>2, <1>7
<1>17. TableFits'
  <2>1. \A r \in rows' : RowFits(r)'
    BY <1>1, <1>2, <1>13 DEF RowFits
  <2>2. operations' <= MaxOperations
    BY <1>1, <1>2, StorageAssumption
  <2> QED BY <1>1, <1>2, <1>14, <1>15, <1>16, <2>1, <2>2 DEF TableFits, RowsAreOne
<1>18. ASSUME ~moved PROVE OneHome'
  <2>1. ASSUME NEW d \in Requesters, Working(d)', NEW q \in DOMAIN work'[d].tree PROVE Bears(q, work'[d].tree[q])
    <3>1. CASE d = c
      BY <1>9, <1>10, <2>1, <3>1 DEF Bears
    <3>2. CASE d # c
      BY <1>15, <2>1, <3>2, TreeBears
    <3> QED BY <3>1, <3>2
  <2> QED BY <1>1, <1>18, <2>1, HomeStays, RowBears DEF PurposesFit, StoredFits
<1>19. ASSUME NEW t \in Slots PROVE Aside(t)
  BY <1>1, <1>11, <1>19 DEF Aside, RowAt, RowsAt
<1>20. ASSUME ~moved, NEW s \in slots \ blurred' PROVE Holding(s)' /\ Knows(c, s)'
  <2>1. ~AtWork(s) /\ Holding(s) /\ seen
    BY <1>7, <1>20 DEF PurposesFit, StoredFits, SlotsHold
  <2>2. ~\E d \in Requesters : Deleting(d, s)
    BY <2>1 DEF Deleting, AtWork, Working
  <2>3. Holding(s)'
    BY <1>1, <1>19, <1>20, <2>1, <2>2 DEF Holding, Aside
  <2>4. Seen(c, s)' <=> s \in parted
    BY <1>2, <1>9, <1>10, <1>11, <1>20, <2>1, PathNamesOne DEF Seen
  <2>5. s \in parted => work'[c].tree[Path(s)'] = fs[s]
    BY <1>9, <1>10, <1>11, <1>20, <2>1
  <2>6. do = "format" /\ s \in parted => kept = want[s]
    <3> SUFFICES ASSUME do = "format", s \in parted PROVE kept = want[s]
      OBVIOUS
    <3>1. Path(s) = p
      BY <1>3, <1>20 DEF SlotsOf, OnDisk
    <3>2. kept = Recorded(Path(s), fs[s])
      BY <1>6, <1>10, <1>20, <2>1, <3>1
    <3>3. RowAt(s) = {want[s]} \ {Nothing} /\ OneHome /\ want[s] \in Purposes \cup {Nothing}
      BY <1>2, <1>20, <2>1 DEF Holding, PurposesFit, StoredFits
    <3> QED BY <1>2, <3>2, <3>3, RecordedHere
  <2>7. Knows(c, s)'
    <3>1. work'[c].do = do /\ work'[c].purpose = kept /\ work'[c].left = FALSE /\ work'[c].at \in {"act", "check"}
          /\ (do \in Dangerous => work'[c].at = "check")
      BY <1>9 DEF Dangerous
    <3> QED BY <1>1, <2>4, <2>5, <2>6, <3>1 DEF Knows, Deletion, Dangerous
  <2> QED BY <2>3, <2>7
<1>21. ASSUME ~moved PROVE SlotsHold' /\ RequestsKnow'
  <2>1. SlotsHold /\ RequestsKnow
    BY <1>21 DEF PurposesFit, StoredFits
  <2>2. \A d \in Requesters \ {c} : Working(d) => Target(d) \cap slots \subseteq blurred'
    BY <1>7 DEF AtWork, Working
  <2>3. ~Working(c) /\ UNCHANGED name
    BY <1>1 DEF Working
  <2> QED BY <1>8, <1>11, <1>16, <1>19, <1>20, <1>21, <2>1, <2>2, <2>3, Around
<1> QED BY <1>1, <1>17, <1>18, <1>21 DEF PurposesFit, StoredFits

(* All actions.                                                            *)
LEMMA PurposesStep ==
  ASSUME PurposesFit, StorageNext
  PROVE  PurposesFit'
<1>1. PoolsFit'
  BY PoolsStep DEF PurposesFit
<1>2. ASSUME NEW c \in Requesters, NEW do, NEW p \in DevPaths, NEW purpose \in Purposes \cup {Nothing},
             NEW seen \in BOOLEAN, Ask(c, do, p, purpose, seen), do \in {"assign", "pool"} => Present(p) /\ seen
      PROVE  PurposesFit'
  BY <1>1, <1>2, AskPurposes
<1>3. ASSUME NEW c \in Requesters,
             CheckUse(c) \/ Unmount(c) \/ Act(c) \/ RefuseOperation(c) \/ UpdatePurposes(c) \/ Save(c)
             \/ OperationFails(c) \/ Abandon(c)
      PROVE  PurposesFit'
  BY <1>1, <1>3, CheckPurposes, UnmountPurposes, ActPurposes, RefusalPurposes, UpdatePurposesKeeps, SavePurposes,
     FailurePurposes, AbandonPurposes
<1>4. CASE CoreRestarts \/ RebootHost
  BY <1>1, <1>4, RestartPurposes, RebootPurposes
<1>5. ASSUME NEW c \in Requesters, NEW p \in DevPaths,
             \/ Ask(c, "mount", p, Nothing, TRUE)
             \/ \E do \in {"format", "delete", "unmount", "delete_all"}, seen \in BOOLEAN :
                  Ask(c, do, p, Nothing, seen)
             \/ Present(p) /\ \E q \in Purposes \cup {Nothing} : Ask(c, "assign", p, q, TRUE)
             \/ Present(p) /\ Ask(c, "pool", p, Nothing, TRUE)
             \/ \E q \in Purposes \cup {Nothing}, seen \in BOOLEAN : Ask(c, "create", p, q, seen)
      PROVE  PurposesFit'
  BY <1>2, <1>5
<1> QED BY <1>3, <1>4, <1>5 DEF StorageNext

(* What the rows say of a partition is what PurposeOf makes of them.       *)
LEMMA PurposesAre ==
  ASSUME PurposesFit
  PROVE  PurposesHold
<1>1. DisksFit /\ TableFits
  BY DEF PurposesFit, PoolsFit
<1>2. StorageTypeOK
  <2>1. Issued \subseteq Uuids
    BY <1>1, FS_CardinalityType, StorageAssumption DEF Issued, Uuids, DisksFit, TableFits
  <2>2. /\ parted \subseteq Slots /\ mounted \subseteq parted /\ blurred \subseteq Slots
        /\ fs \in [Slots -> Uuids \cup {Nothing}] /\ pools \subseteq Uuids
    BY <1>1, <2>1 DEF DisksFit, TableFits
  <2>3. /\ \A r \in rows : r.uuid \in Uuids \cup {Nothing} /\ r.purpose \in Purposes
        /\ \A r, x \in rows : r.path = x.path \/ (r.uuid = x.uuid /\ r.uuid # Nothing) => r = x
    BY <1>1, <2>1 DEF TableFits, RowFits, RowsAreOne
  <2> QED BY <2>2, <2>3 DEF StorageTypeOK
<1>3. ASSUME ~moved, NEW s \in parted \ blurred
      PROVE  PurposeOf(s) = {want[s]} \ {Nothing} /\ (fs[s] \in pools => PurposeOf(s) = {"files"})
  <2>1. Holding(s) /\ OneHome
    BY <1>1, <1>3 DEF PurposesFit, StoredFits, SlotsHold, DisksFit
  <2>2. PurposeOf(s) = RowAt(s)
    BY <1>1, <2>1, PurposeIsRow
  <2>3. "files" # Nothing
    BY StorageAssumption DEF Purposes
  <2> QED BY <1>3, <2>1, <2>2, <2>3 DEF Holding
<1> QED BY <1>2, <1>3 DEF PurposesHold, PurposeAsAssigned, PoolStaysFiles, AsAssigned

(* While requests fail, overlap, are abandoned and reach the helper after  *)
(* their client has gone, and rows are looked up by a UUID or else by a    *)
(* path: a partition is for what the administrator said last, and what a   *)
(* pool uses is for files (SetStoragePurpose, blockNodeForStoragePurpose,  *)
(* storageUsageForIdentity), unless requests overlapped on it, Core did not*)
(* find it when it was asked to change it, its deletion was cut off, or the*)
(* disks have got other names.                                             *)
THEOREM PurposesAreKept == StorageSpec => []PurposesHold
<1>1. PurposesFit /\ [StorageNext]_storageVars => PurposesFit'
  <2>1. PurposesFit => PoolsFit
    BY DEF PurposesFit
  <2> QED BY <2>1, PoolsStutter, PurposesStep, PurposesStutter
<1> QED BY PurposesInit, <1>1, PurposesAre, PTL DEF StorageSpec

-----------------------------------------------------------------------------
(* HostNetwork: what the variables hold and how far each operation is.     *)
TunnelSteps  == {"look", "temp", "rename", "active", "set", "up", "unlink", "down", "enable", "disable", "remove"}
ProfileSteps == {"check", "include", "draft", "profile", "query", "ifdown", "reload", "apply"}
PeerChanges  == {"peer.add", "peer.delete"}
IsTunnelCall(r) ==
  /\ r.at \in TunnelSteps
  /\ r = [at |-> r.at, do |-> r.do, on |-> r.on, p |-> r.p, key |-> r.key, new |-> r.new, old |-> r.old]
  /\ r.on \in Tunnels /\ r.key \in 0..MaxCalls /\ r.new \in Conf /\ r.old \in Conf
  /\ r.do = "peer.add" => r.p \in Peers
IsSave(r) ==
  /\ r.at \in ProfileSteps
  /\ r = [at |-> r.at, do |-> r.do, on |-> r.on, profile |-> r.profile, seen |-> r.seen]
  /\ r.on \in Interfaces /\ r.profile \in 0..MaxCalls /\ r.profile < calls
OnTunnel(c) == call[c].at \in TunnelSteps
Saving(c)   == call[c].at \in ProfileSteps

TunnelsFit ==
  /\ file \in [Tunnels -> Conf] /\ temp \in [Tunnels -> Conf] /\ link \in [Tunnels -> Conf]
  /\ boot \subseteq Tunnels /\ marred \subseteq Tunnels
ProfilesFit ==
  /\ own \in [Interfaces -> Profiles] /\ loaded \in [Interfaces -> Profiles]
  /\ draft \in [Interfaces -> Profiles] /\ running \in [Interfaces -> Profiles]
  /\ up \subseteq Interfaces /\ unfinished \subseteq Interfaces /\ unheeded \subseteq Interfaces
  /\ \A i \in Interfaces : draft[i] # Absent => draft[i] < calls
  /\ backend \in {"ifupdown", "systemd-networkd", "networkmanager"}
CallsFit ==
  /\ calls \in 0..MaxCalls /\ call = [c \in Goroutines |-> call[c]]
  /\ \A c \in Goroutines : call[c] = NoCall \/ IsTunnelCall(call[c]) \/ IsSave(call[c])

(* A tunnel that nobody changes, and one whose only change has come to a   *)
(* step: the file is ahead of what runs, or behind it.                     *)
Settled(t) == (link[t] # Absent => link[t] = file[t]) /\ (link[t] # Absent <=> t \in boot)
Down(t)    == link[t] = Absent /\ t \notin boot
Edited(r) ==
  /\ r.do \in {"create"} \cup PeerChanges /\ r.new # Absent
  /\ r.do = "create" => r.old = Absent
  /\ r.do = "peer.add" => r.old # Absent /\ r.new = [r.old EXCEPT !.peers = @ \cup {r.p}]
  /\ r.do = "peer.delete" => r.old # Absent /\ r.new = [r.old EXCEPT !.peers = @ \ {r.p}]
Written(r, t) ==
  /\ r.do = "restore" => link[t] = r.new /\ link[t] # Absent /\ t \in boot
  /\ r.do # "restore" => Edited(r) /\ r.old = file[t] /\ Settled(t)
Changed(r, t) ==
  r.do \in PeerChanges /\ Edited(r) /\ file[t] = r.new /\ (link[t] # Absent <=> t \in boot)
Midway(r, t) ==
  /\ r.at = "look" => Settled(t) /\ r.do # "restore"
  /\ r.at = "temp" => Written(r, t)
  /\ r.at = "rename" => Written(r, t) /\ temp[t] = r.new
  /\ r.at = "active" => IF r.do = "delete" THEN Settled(t)
                        ELSE Changed(r, t) /\ (link[t] # Absent => link[t] = r.old)
  /\ r.at = "set" => Changed(r, t) /\ link[t] = r.old
  /\ r.at = "up" => IF r.do = "create" THEN Down(t) /\ file[t] # Absent ELSE Settled(t)
  /\ r.at = "down" => Settled(t)
  /\ r.at = "enable" => link[t] = file[t] /\ link[t] # Absent
  /\ r.at = "disable" => link[t] = Absent
  /\ r.at \in {"unlink", "remove"} => Down(t)
AllMidway ==
  \A t \in Tunnels \ marred :
    /\ \A c, d \in Goroutines : OnTunnel(c) /\ OnTunnel(d) /\ Tunnel(c) = t /\ Tunnel(d) = t => c = d
    /\ \A c \in Goroutines : OnTunnel(c) /\ Tunnel(c) = t => Midway(call[c], t)
    /\ (\A c \in Goroutines : ~(OnTunnel(c) /\ Tunnel(c) = t)) => Settled(t)

(* An interface: a profile that does not run yet has a save on the way that*)
(* will bring it up, and a save that is about to end after writing the     *)
(* profile will find what it needs.                                        *)
Read(i) == backend = "systemd-networkd" => loaded[i] = own[i]
Taken(i) == backend = "ifupdown" => i \in unheeded \/ i \notin up \/ running[i] = own[i]
WillRun(i) ==
  i \in unfinished \/ i \in unheeded
  \/ (\E c \in Goroutines : call[c].at \in {"query", "ifdown", "reload"} /\ call[c].on = i)
  \/ (running[i] = own[i] /\ Read(i))
  \/ ((\E c \in Goroutines : call[c].at = "apply" /\ call[c].on = i) /\ Taken(i) /\ Read(i))
Applies(c) ==
  LET i == call[c].on IN
  /\ call[c].at = "apply" /\ own[i] = call[c].profile => Read(i) /\ Taken(i)
  /\ call[c].at \in {"include", "draft", "profile"} => i \notin main /\ (i \in dropin => ~call[c].seen)
  /\ backend = "systemd-networkd" /\ draft[i] = call[c].profile => call[c].at = "profile"
  /\ call[c].at \in SaveSteps
AllWillRun ==
  /\ \A c \in Goroutines : Saving(c) => Applies(c)
  /\ \A c, d \in Goroutines : Saving(c) /\ Saving(d) /\ c # d => call[c].profile # call[d].profile
  /\ \A i \in Interfaces : WillRun(i)

NetworkFits == TunnelsFit /\ ProfilesFit /\ CallsFit /\ AllMidway /\ AllWillRun

LEMMA NetworkStarts == NetworkInit => NetworkFits
<1> SUFFICES ASSUME NetworkInit PROVE NetworkFits
  OBVIOUS
<1>1. \A c \in Goroutines : call[c] = NoCall /\ ~OnTunnel(c) /\ ~Saving(c)
  BY DEF NetworkInit, NoCall, OnTunnel, Saving, TunnelSteps, ProfileSteps
<1>2. TunnelsFit /\ ProfilesFit
  BY DEF NetworkInit, TunnelsFit, ProfilesFit, Conf, Profiles
<1>3. CallsFit
  BY <1>1, NetworkAssumption DEF NetworkInit, CallsFit
<1>4. AllMidway
  BY <1>1 DEF NetworkInit, AllMidway, Settled
<1>5. AllWillRun
  BY <1>1 DEF NetworkInit, AllWillRun, WillRun, Read
<1> QED BY <1>2, <1>3, <1>4, <1>5 DEF NetworkFits

(* A call is a tunnel's or a profile's.                                    *)
LEMMA KindOf ==
  ASSUME NEW r
  PROVE  /\ r = NoCall => r.at \notin TunnelSteps /\ r.at \notin ProfileSteps
         /\ IsTunnelCall(r) => r.at \in TunnelSteps /\ r.at \notin ProfileSteps /\ r # NoCall
         /\ IsSave(r) => r.at \in ProfileSteps /\ r.at \notin TunnelSteps /\ r # NoCall
<1>1. \A at \in TunnelSteps : at \notin ProfileSteps /\ at # "none"
  BY DEF TunnelSteps, ProfileSteps
<1>2. \A at \in ProfileSteps : at # "none"
  BY DEF ProfileSteps
<1>3. r = NoCall => r.at = "none"
  BY DEF NoCall
<1>4. IsTunnelCall(r) => r.at \in TunnelSteps
  BY DEF IsTunnelCall
<1>5. IsSave(r) => r.at \in ProfileSteps
  BY DEF IsSave
<1> QED BY <1>1, <1>2, <1>3, <1>4, <1>5

LEMMA OneKind ==
  ASSUME CallsFit, NEW c \in Goroutines
  PROVE  /\ OnTunnel(c) => IsTunnelCall(call[c]) /\ ~Saving(c)
         /\ Saving(c) => IsSave(call[c]) /\ ~OnTunnel(c)
         /\ call[c] # NoCall => OnTunnel(c) \/ Saving(c)
         /\ call[c] = NoCall => ~OnTunnel(c) /\ ~Saving(c)
<1>1. call[c] = NoCall \/ IsTunnelCall(call[c]) \/ IsSave(call[c])
  BY DEF CallsFit
<1> QED BY <1>1, KindOf DEF OnTunnel, Saving

(* A step changes the call of one goroutine.                               *)
OneCall(c) == call' = [d \in Goroutines |-> call'[d]] /\ \A d \in Goroutines \ {c} : call'[d] = call[d]

LEMMA GotoGoes ==
  ASSUME CallsFit, NEW c \in Goroutines, NEW at, Goto(c, at)
  PROVE  /\ OneCall(c)
         /\ OnTunnel(c) => call'[c] = [at |-> at, do |-> call[c].do, on |-> call[c].on, p |-> call[c].p,
                                       key |-> call[c].key, new |-> call[c].new, old |-> call[c].old]
         /\ Saving(c) => call'[c] = [at |-> at, do |-> call[c].do, on |-> call[c].on,
                                     profile |-> call[c].profile, seen |-> call[c].seen]
<1>1. OneCall(c) /\ call'[c] = [call[c] EXCEPT !.at = at]
  BY DEF Goto, OneCall, CallsFit
<1>2. OnTunnel(c) => IsTunnelCall(call[c])
  BY OneKind
<1>3. Saving(c) => IsSave(call[c])
  BY OneKind
<1>4. IsTunnelCall(call[c]) =>
        call[c] = [at |-> call[c].at, do |-> call[c].do, on |-> call[c].on, p |-> call[c].p,
                   key |-> call[c].key, new |-> call[c].new, old |-> call[c].old]
  BY DEF IsTunnelCall
<1>5. IsSave(call[c]) =>
        call[c] = [at |-> call[c].at, do |-> call[c].do, on |-> call[c].on,
                   profile |-> call[c].profile, seen |-> call[c].seen]
  BY DEF IsSave
<1> QED BY <1>1, <1>2, <1>3, <1>4, <1>5

LEMMA EndEnds ==
  ASSUME CallsFit, NEW c \in Goroutines, End(c)
  PROVE  OneCall(c) /\ call'[c] = NoCall
BY DEF End, OneCall, CallsFit

LEMMA TunnelFacts ==
  ASSUME NetworkFits, NEW c \in Goroutines, OnTunnel(c)
  PROVE  /\ IsTunnelCall(call[c]) /\ TunnelsFit /\ CallsFit /\ Tunnel(c) \in Tunnels
         /\ Tunnel(c) \notin marred => Midway(call[c], Tunnel(c))
<1>1. IsTunnelCall(call[c])
  BY OneKind DEF NetworkFits
<1>2. Tunnel(c) \in Tunnels
  BY <1>1 DEF IsTunnelCall, Tunnel
<1> QED BY <1>1, <1>2 DEF NetworkFits, AllMidway

(* A goroutine's step on its tunnel leaves everything else.                *)
LEMMA TunnelFrame ==
  ASSUME NetworkFits, NEW c \in Goroutines, OnTunnel(c), NEW t \in Tunnels, t = Tunnel(c), OneCall(c),
         call'[c] = NoCall \/ (IsTunnelCall(call'[c]) /\ call'[c].on = t),
         UNCHANGED <<main, dropin, included, own, loaded, draft, running, up, unfinished, unheeded, backend, calls>>, TunnelsFit',
         \A x \in Tunnels \ {t} :
           file'[x] = file[x] /\ temp'[x] = temp[x] /\ link'[x] = link[x] /\ (x \in boot' <=> x \in boot),
         marred \subseteq marred',
         t \notin marred' => IF call'[c] = NoCall THEN Settled(t)' ELSE Midway(call[c], t)'
  PROVE  NetworkFits'
<1>1. CallsFit /\ AllMidway /\ AllWillRun /\ ProfilesFit /\ ~Saving(c) /\ IsTunnelCall(call[c])
  BY OneKind DEF NetworkFits
<1>2. ASSUME NEW d \in Goroutines, d # c
      PROVE  call'[d] = call[d] /\ OnTunnel(d)' = OnTunnel(d) /\ Saving(d)' = Saving(d) /\ Tunnel(d)' = Tunnel(d)
  BY <1>2 DEF OneCall, OnTunnel, Saving, Tunnel
<1>3. CallsFit'
  BY <1>1, <1>2 DEF CallsFit, OneCall, IsSave
<1>4. ~Saving(c)' /\ (OnTunnel(c)' => Tunnel(c)' = t) /\ (OnTunnel(c)' <=> call'[c] # NoCall)
  BY KindOf DEF OnTunnel, Saving, Tunnel
<1>5. AllMidway'
  <2>1. ASSUME NEW x \in Tunnels \ marred', x # t
        PROVE  (Settled(x)' <=> Settled(x)) /\ x \notin marred
    BY <2>1 DEF Settled
  <2>2. ASSUME NEW x \in Tunnels \ marred', x # t
        PROVE  /\ \A d, e \in Goroutines : OnTunnel(d)' /\ OnTunnel(e)' /\ Tunnel(d)' = x /\ Tunnel(e)' = x => d = e
               /\ \A d \in Goroutines : OnTunnel(d)' /\ Tunnel(d)' = x => Midway(call[d], x)'
               /\ (\A d \in Goroutines : ~(OnTunnel(d)' /\ Tunnel(d)' = x)) => Settled(x)'
    <3>1. \A d \in Goroutines : OnTunnel(d)' /\ Tunnel(d)' = x <=> OnTunnel(d) /\ Tunnel(d) = x
      BY <1>2, <1>4, <2>2
    <3>2. ASSUME NEW d \in Goroutines, OnTunnel(d), Tunnel(d) = x PROVE Midway(call[d], x)'
      <4>1. call'[d] = call[d] /\ Midway(call[d], x)
        BY <1>1, <1>2, <2>1, <2>2, <3>2 DEF AllMidway
      <4> QED BY <2>2, <4>1 DEF Settled, Midway, Written, Changed, Down
    <3> QED BY <1>1, <2>1, <2>2, <3>1, <3>2 DEF AllMidway
  <2>3. ASSUME t \notin marred', NEW d \in Goroutines, OnTunnel(d)', Tunnel(d)' = t PROVE d = c
    <3>1. OnTunnel(c) /\ Tunnel(c) = t /\ t \notin marred
      BY <2>3
    <3> QED BY <1>1, <1>2, <2>3, <3>1 DEF AllMidway
  <2>4. ASSUME t \notin marred', \A d \in Goroutines : ~(OnTunnel(d)' /\ Tunnel(d)' = t) PROVE Settled(t)'
    BY <1>4, <2>4
  <2>5. ASSUME t \notin marred', OnTunnel(c)' PROVE Midway(call[c], t)'
    BY <1>4, <2>5
  <2> QED BY <2>2, <2>3, <2>4, <2>5 DEF AllMidway
<1>6. AllWillRun'
  <2>1. ASSUME NEW d \in Goroutines, Saving(d)' PROVE Saving(d) /\ call'[d] = call[d] /\ Applies(d)'
    <3>1. Saving(d) /\ call'[d] = call[d] /\ Applies(d)
      BY <1>1, <1>2, <1>4, <2>1 DEF AllWillRun
    <3> QED BY <3>1 DEF Applies, Read, Taken, SaveSteps
  <2>2. ASSUME NEW i \in Interfaces PROVE WillRun(i)'
    <3>1. \A d \in Goroutines : call[d].at \in {"query", "ifdown", "reload", "apply"} => call'[d] = call[d]
      BY <1>1, <1>2 DEF Saving, ProfileSteps
    <3> QED BY <1>1, <3>1 DEF AllWillRun, WillRun, Read, Taken
  <2> QED BY <1>1, <2>1, <2>2 DEF AllWillRun
<1> QED BY <1>1, <1>3, <1>5, <1>6 DEF NetworkFits, ProfilesFit

(* The steps on tunnels.                                                   *)
LEMMA GoesOn ==
  ASSUME NetworkFits, NEW c \in Goroutines, OnTunnel(c), NEW at \in TunnelSteps, Goto(c, at)
  PROVE  /\ OneCall(c) /\ IsTunnelCall(call'[c]) /\ call'[c].on = Tunnel(c) /\ call'[c] # NoCall
         /\ call'[c] = [at |-> at, do |-> call[c].do, on |-> call[c].on, p |-> call[c].p,
                        key |-> call[c].key, new |-> call[c].new, old |-> call[c].old]
<1>1. CallsFit /\ IsTunnelCall(call[c])
  BY TunnelFacts
<1>2. /\ OneCall(c)
      /\ call'[c] = [at |-> at, do |-> call[c].do, on |-> call[c].on, p |-> call[c].p,
                     key |-> call[c].key, new |-> call[c].new, old |-> call[c].old]
  BY <1>1, GotoGoes
<1>3. IsTunnelCall(call'[c]) /\ call'[c].on = Tunnel(c) /\ call'[c].at = at
  BY <1>1, <1>2 DEF IsTunnelCall, Tunnel
<1>4. call'[c] # NoCall
  BY <1>3 DEF NoCall, TunnelSteps
<1> QED BY <1>2, <1>3, <1>4

(* A step that ends or goes on, and leaves the files and links.            *)
LEMMA StepOnly ==
  ASSUME NetworkFits, NEW c \in Goroutines, OnTunnel(c), UNCHANGED <<file, temp, link, boot>>, TunnelStep,
         \/ End(c) /\ (Tunnel(c) \notin marred => Settled(Tunnel(c)))
         \/ \E at \in TunnelSteps :
              /\ Goto(c, at)
              /\ Tunnel(c) \notin marred =>
                   Midway([at |-> at, do |-> call[c].do, on |-> call[c].on, p |-> call[c].p,
                           key |-> call[c].key, new |-> call[c].new, old |-> call[c].old], Tunnel(c))
  PROVE  NetworkFits'
<1> SUFFICES ASSUME NEW t \in Tunnels, t = Tunnel(c) PROVE NetworkFits'
  BY TunnelFacts
<1>1. IsTunnelCall(call[c]) /\ TunnelsFit /\ CallsFit /\ t \in Tunnels
  BY TunnelFacts
<1>2. /\ UNCHANGED <<main, dropin, included, own, loaded, draft, running, up, unfinished, unheeded, backend, calls, marred>>
      /\ TunnelsFit'
  BY <1>1 DEF TunnelStep, profileVars, TunnelsFit
<1>3. CASE End(c) /\ (t \notin marred => Settled(t))
  <2>1. OneCall(c) /\ call'[c] = NoCall
    BY <1>1, <1>3, EndEnds
  <2>2. t \notin marred' => Settled(t)'
    BY <1>2, <1>3 DEF Settled
  <2> QED BY <1>1, <1>2, <2>1, <2>2, TunnelFrame
<1>4. ASSUME NEW at \in TunnelSteps, Goto(c, at),
             t \notin marred =>
                   Midway([at |-> at, do |-> call[c].do, on |-> call[c].on, p |-> call[c].p,
                           key |-> call[c].key, new |-> call[c].new, old |-> call[c].old], t)
      PROVE  NetworkFits'
  <2>1. /\ OneCall(c) /\ IsTunnelCall(call'[c]) /\ call'[c].on = t /\ call'[c] # NoCall
        /\ call'[c] = [at |-> at, do |-> call[c].do, on |-> call[c].on, p |-> call[c].p,
                       key |-> call[c].key, new |-> call[c].new, old |-> call[c].old]
    BY <1>4, GoesOn
  <2>2. t \notin marred' => Midway(call[c], t)'
    BY <1>2, <1>4, <2>1 DEF Midway, Settled, Down, Written, Changed
  <2> QED BY <1>1, <1>2, <2>1, <2>2, TunnelFrame
<1> QED BY <1>3, <1>4

LEMMA ActiveKeeps ==
  ASSUME NetworkFits, NEW c \in Goroutines, Active(c)
  PROVE  NetworkFits'
<1>1. OnTunnel(c) /\ On(c, "active") /\ UNCHANGED <<file, temp, link, boot>> /\ TunnelStep
  BY DEF Active, On, OnTunnel, TunnelSteps
<1>2. Tunnel(c) \notin marred => Midway(call[c], Tunnel(c))
  BY <1>1, TunnelFacts
<1>3. CASE link[Tunnel(c)] # Absent /\ Is(c, {"delete"})
  <2>1. Goto(c, "down")
    BY <1>3 DEF Active
  <2>2. Tunnel(c) \notin marred => Settled(Tunnel(c))
    BY <1>1, <1>2, <1>3 DEF Midway, On, Is
  <2> QED BY <1>1, <2>1, <2>2, StepOnly DEF Midway, TunnelSteps
<1>4. CASE link[Tunnel(c)] # Absent /\ ~Is(c, {"delete"})
  <2>1. Goto(c, "set")
    BY <1>4 DEF Active
  <2>2. ASSUME Tunnel(c) \notin marred
        PROVE  Changed(call[c], Tunnel(c)) /\ link[Tunnel(c)] = call[c].old
    BY <1>1, <1>2, <1>4, <2>2 DEF Midway, On, Is
  <2> QED BY <1>1, <2>1, <2>2, StepOnly DEF Midway, TunnelSteps, Edited, Changed
<1>5. CASE link[Tunnel(c)] = Absent /\ Is(c, {"delete"})
  <2>1. Goto(c, "disable")
    BY <1>5 DEF Active
  <2> QED BY <1>1, <1>5, <2>1, StepOnly DEF Midway, TunnelSteps
<1>6. CASE link[Tunnel(c)] = Absent /\ ~Is(c, {"delete"})
  <2>1. End(c)
    BY <1>6 DEF Active
  <2>2. Tunnel(c) \notin marred => Settled(Tunnel(c))
    BY <1>1, <1>2, <1>6 DEF Midway, On, Is, Settled, Changed
  <2> QED BY <1>1, <2>1, <2>2, StepOnly
<1> QED BY <1>3, <1>4, <1>5, <1>6

(* A command has failed.                                                   *)
LEMMA ErrorKeeps ==
  ASSUME NetworkFits, NEW c \in Goroutines, OnTunnel(c),
         On(c, "set") \/ On(c, "up") \/ On(c, "down") \/ On(c, "remove")
         \/ (On(c, "temp") /\ (Tunnel(c) \notin marred' => ~Is(c, {"restore"}))),
         OnError(c), UNCHANGED <<file, temp, link, boot, profileVars, backend, calls>>,
         marred \subseteq marred', marred' \subseteq Tunnels
  PROVE  NetworkFits'
<1> SUFFICES ASSUME NEW t \in Tunnels, t = Tunnel(c) PROVE NetworkFits'
  BY TunnelFacts
<1>1. IsTunnelCall(call[c]) /\ TunnelsFit /\ CallsFit /\ t \in Tunnels /\ (t \notin marred => Midway(call[c], t))
  BY TunnelFacts
<1>2. UNCHANGED <<main, dropin, included, own, loaded, draft, running, up, unfinished, unheeded>> /\ TunnelsFit'
  BY <1>1 DEF profileVars, TunnelsFit
<1>3. CASE On(c, "set")
  <2>1. call' = [call EXCEPT ![c].do = "restore", ![c].at = "temp", ![c].new = call[c].old]
    BY <1>3 DEF OnError
  <2>2. OneCall(c) /\ call'[c] = [[[call[c] EXCEPT !.do = "restore"] EXCEPT !.at = "temp"] EXCEPT !.new = call[c].old]
    BY <1>1, <2>1 DEF OneCall, CallsFit
  <2>3. call'[c] = [at |-> "temp", do |-> "restore", on |-> call[c].on, p |-> call[c].p,
                    key |-> call[c].key, new |-> call[c].old, old |-> call[c].old]
    BY <1>1, <2>2 DEF IsTunnelCall
  <2>4. IsTunnelCall(call'[c]) /\ call'[c].on = t /\ call'[c].at = "temp" /\ call'[c].do = "restore"
        /\ call'[c].new = call[c].old
    BY <1>1, <2>3 DEF IsTunnelCall, TunnelSteps, Tunnel
  <2>5. t \notin marred' => link[t] = call[c].old /\ link[t] # Absent /\ t \in boot
    BY <1>1, <1>3 DEF Midway, On, Changed, Edited, PeerChanges
  <2>6. t \notin marred' => Midway(call[c], t)'
    BY <2>4, <2>5 DEF Midway, Written
  <2>7. call'[c] # NoCall
    BY <2>4 DEF NoCall
  <2> QED BY <1>1, <1>2, <2>2, <2>4, <2>6, <2>7, TunnelFrame
<1>4. CASE On(c, "up") /\ Is(c, {"create"})
  <2>1. Goto(c, "unlink")
    BY <1>4 DEF OnError, On
  <2>a. "unlink" \in TunnelSteps
    BY DEF TunnelSteps
  <2>b. OneCall(c) /\ IsTunnelCall(call'[c]) /\ call'[c].on = t /\ call'[c] # NoCall
        /\ call'[c] = [at |-> "unlink", do |-> call[c].do, on |-> call[c].on, p |-> call[c].p,
                       key |-> call[c].key, new |-> call[c].new, old |-> call[c].old]
    BY <2>1, <2>a, GoesOn
  <2>2. call'[c].at = "unlink"
    BY <2>b
  <2>3. t \notin marred' => Down(t)
    BY <1>1, <1>4 DEF Midway, On, Is
  <2>4. t \notin marred' => Midway(call[c], t)'
    BY <2>2, <2>3 DEF Midway, Down
  <2> QED BY <1>1, <1>2, <2>b, <2>4, TunnelFrame
<1>5. CASE ~On(c, "set") /\ ~(On(c, "up") /\ Is(c, {"create"}))
  <2>1. End(c)
    BY <1>5 DEF OnError
  <2>2. OneCall(c) /\ call'[c] = NoCall
    BY <1>1, <2>1, EndEnds
  <2>3. t \notin marred' => Settled(t)
    BY <1>1, <1>5 DEF Midway, On, Is, Down, Settled, Written
  <2>4. t \notin marred' => Settled(t)'
    BY <2>3 DEF Settled
  <2> QED BY <1>1, <1>2, <2>2, <2>4, TunnelFrame
<1> QED BY <1>3, <1>4, <1>5

LEMMA LookKeeps ==
  ASSUME NetworkFits, NEW c \in Goroutines, Look(c)
  PROVE  NetworkFits'
<1>a. OnTunnel(c) /\ On(c, "look") /\ UNCHANGED <<file, temp, link, boot>> /\ TunnelStep
  BY DEF Look, On, OnTunnel, TunnelSteps
<1> SUFFICES ASSUME NEW t \in Tunnels, t = Tunnel(c) PROVE NetworkFits'
  BY <1>a, TunnelFacts
<1>1. IsTunnelCall(call[c]) /\ TunnelsFit /\ CallsFit /\ (t \notin marred => Midway(call[c], t))
  BY <1>a, TunnelFacts
<1>2. t \notin marred => Settled(t) /\ call[c].do # "restore"
  BY <1>a, <1>1 DEF Midway, On
<1>3. ASSUME NEW conf \in Conf, Write(c, conf), conf # Absent,
             \/ Is(c, {"create"}) /\ file[t] = Absent
             \/ Is(c, {"peer.add"}) /\ file[t] # Absent /\ conf = [file[t] EXCEPT !.peers = @ \cup {call[c].p}]
             \/ Is(c, {"peer.delete"}) /\ file[t] # Absent /\ conf = [file[t] EXCEPT !.peers = @ \ {call[c].p}]
      PROVE  NetworkFits'
  <2>1. OneCall(c) /\ call'[c] = [[[call[c] EXCEPT !.new = conf] EXCEPT !.old = file[t]] EXCEPT !.at = "temp"]
    BY <1>1, <1>3 DEF Write, OneCall, CallsFit
  <2>2. call'[c] = [at |-> "temp", do |-> call[c].do, on |-> call[c].on, p |-> call[c].p,
                    key |-> call[c].key, new |-> conf, old |-> file[t]]
    BY <1>1, <2>1 DEF IsTunnelCall
  <2>3. /\ call'[c].at = "temp" /\ call'[c].do = call[c].do /\ call'[c].p = call[c].p /\ call'[c].on = t
        /\ call'[c].new = conf /\ call'[c].old = file[t]
    BY <2>2 DEF Tunnel
  <2>4. IsTunnelCall(call'[c])
    BY <1>1, <1>3, <2>2, <2>3 DEF IsTunnelCall, TunnelSteps, TunnelsFit
  <2>5. Edited(call'[c]) /\ call'[c].do # "restore"
    BY <1>3, <2>3 DEF Edited, PeerChanges, Is
  <2>6. t \notin marred' => Midway(call[c], t)'
    BY <1>a, <1>2, <2>3, <2>5 DEF Midway, Written, Edited, Settled, TunnelStep
  <2>7. call'[c] # NoCall
    BY <2>4, KindOf
  <2>8. /\ UNCHANGED <<main, dropin, included, own, loaded, draft, running, up, unfinished, unheeded, backend, calls, marred>>
        /\ TunnelsFit'
    BY <1>a, <1>1 DEF TunnelStep, profileVars, TunnelsFit
  <2> QED BY <1>a, <1>1, <2>1, <2>3, <2>4, <2>6, <2>7, <2>8, TunnelFrame
<1>4. CASE End(c)
  BY <1>a, <1>2, <1>4, StepOnly
<1>5. ASSUME NEW at \in {"up", "down", "active"}, Goto(c, at), call[c].do \in {"up", "down", "delete"},
             at = "active" => call[c].do = "delete"
      PROVE  NetworkFits'
  <2>1. at \in TunnelSteps
    BY DEF TunnelSteps
  <2>2. t \notin marred =>
           Midway([at |-> at, do |-> call[c].do, on |-> call[c].on, p |-> call[c].p,
                   key |-> call[c].key, new |-> call[c].new, old |-> call[c].old], t)
    BY <1>2, <1>5 DEF Midway
  <2> QED BY <1>a, <1>5, <2>1, <2>2, StepOnly
<1>6. CASE Is(c, {"create"}) /\ file[t] = Absent
  <2>1. Write(c, [key |-> call[c].key, peers |-> {}])
    BY <1>6 DEF Look, Is
  <2>2. [key |-> call[c].key, peers |-> {}] \in Conf /\ [key |-> call[c].key, peers |-> {}] # Absent
    BY <1>1, NetworkAssumption DEF IsTunnelCall, Conf
  <2> QED BY <1>3, <1>6, <2>1, <2>2
<1>7. CASE Is(c, {"peer.add"}) /\ file[t] # Absent /\ call[c].p \notin file[t].peers
  <2> DEFINE conf == [file[t] EXCEPT !.peers = @ \cup {call[c].p}]
  <2>1. Write(c, conf)
    BY <1>7 DEF Look, Is
  <2>2. conf \in Conf /\ conf # Absent
    <3>1. call[c].p \in Peers /\ file[t] \in [key : 0..MaxCalls, peers : SUBSET Peers]
      BY <1>1, <1>7 DEF IsTunnelCall, Is, TunnelsFit, Conf
    <3>2. conf \in [key : 0..MaxCalls, peers : SUBSET Peers]
      BY <3>1
    <3> QED BY <3>2, NetworkAssumption DEF Conf
  <2> QED BY <1>3, <1>7, <2>1, <2>2
<1>8. CASE Is(c, {"peer.delete"}) /\ file[t] # Absent /\ call[c].p \in file[t].peers
  <2> DEFINE conf == [file[t] EXCEPT !.peers = @ \ {call[c].p}]
  <2>1. Write(c, conf)
    BY <1>8 DEF Look, Is
  <2>2. conf \in Conf /\ conf # Absent
    <3>1. file[t] \in [key : 0..MaxCalls, peers : SUBSET Peers]
      BY <1>1, <1>8 DEF TunnelsFit, Conf
    <3>2. conf \in [key : 0..MaxCalls, peers : SUBSET Peers]
      BY <3>1
    <3> QED BY <3>2, NetworkAssumption DEF Conf
  <2> QED BY <1>3, <1>8, <2>1, <2>2
<1>9. CASE ~(Is(c, {"create"}) /\ file[t] = Absent)
           /\ ~(Is(c, {"peer.add"}) /\ file[t] # Absent /\ call[c].p \notin file[t].peers)
           /\ ~(Is(c, {"peer.delete"}) /\ file[t] # Absent /\ call[c].p \in file[t].peers)
  <2>1. \/ End(c) \/ (Goto(c, "up") /\ Is(c, {"up"})) \/ (Goto(c, "down") /\ Is(c, {"down"}))
        \/ (Goto(c, "active") /\ Is(c, {"delete"}))
    BY <1>9 DEF Look
  <2> QED BY <1>4, <1>5, <2>1 DEF Is
<1> QED BY <1>6, <1>7, <1>8, <1>9

(* Writing the file, by way of the temporary one.                          *)
LEMMA WriteTempKeeps ==
  ASSUME NetworkFits, NEW c \in Goroutines, WriteConfTemp(c)
  PROVE  NetworkFits'
<1>a. OnTunnel(c) /\ On(c, "temp")
  BY DEF WriteConfTemp, On, OnTunnel, TunnelSteps
<1> SUFFICES ASSUME NEW t \in Tunnels, t = Tunnel(c) PROVE NetworkFits'
  BY <1>a, TunnelFacts
<1>1. IsTunnelCall(call[c]) /\ TunnelsFit /\ CallsFit /\ (t \notin marred => Midway(call[c], t))
  BY <1>a, TunnelFacts
<1>2. /\ UNCHANGED <<main, dropin, included, own, loaded, draft, running, up, unfinished, unheeded, backend, calls, marred, file, link, boot>>
      /\ temp' = [temp EXCEPT ![t] = call[c].new] /\ Goto(c, "rename")
  BY DEF WriteConfTemp, TunnelStep, profileVars
<1>3. /\ OneCall(c) /\ IsTunnelCall(call'[c]) /\ call'[c].on = t /\ call'[c] # NoCall
      /\ call'[c] = [at |-> "rename", do |-> call[c].do, on |-> call[c].on, p |-> call[c].p,
                     key |-> call[c].key, new |-> call[c].new, old |-> call[c].old]
  <2>1. "rename" \in TunnelSteps
    BY DEF TunnelSteps
  <2> QED BY <1>a, <1>2, <2>1, GoesOn
<1>4. TunnelsFit' /\ temp'[t] = call[c].new /\ \A x \in Tunnels \ {t} : temp'[x] = temp[x]
  BY <1>1, <1>2 DEF TunnelsFit, IsTunnelCall
<1>5. /\ call'[c].at = "rename" /\ call'[c].do = call[c].do /\ call'[c].p = call[c].p
      /\ call'[c].new = call[c].new /\ call'[c].old = call[c].old
  BY <1>3
<1>6. t \notin marred => Written(call[c], t)
  BY <1>a, <1>1 DEF Midway, On
<1>7. t \notin marred' => Written(call[c], t)'
  BY <1>2, <1>5, <1>6 DEF Written, Edited, Settled
<1>8. t \notin marred' => Midway(call[c], t)'
  BY <1>4, <1>5, <1>7 DEF Midway
<1> QED BY <1>a, <1>1, <1>2, <1>3, <1>4, <1>8, TunnelFrame

LEMMA RenameKeeps ==
  ASSUME NetworkFits, NEW c \in Goroutines, RenameTemp(c)
  PROVE  NetworkFits'
<1>a. OnTunnel(c) /\ On(c, "rename")
  BY DEF RenameTemp, On, OnTunnel, TunnelSteps
<1> SUFFICES ASSUME NEW t \in Tunnels, t = Tunnel(c) PROVE NetworkFits'
  BY <1>a, TunnelFacts
<1>1. IsTunnelCall(call[c]) /\ TunnelsFit /\ CallsFit /\ (t \notin marred => Midway(call[c], t))
  BY <1>a, TunnelFacts
<1>2. UNCHANGED <<main, dropin, included, own, loaded, draft, running, up, unfinished, unheeded, backend, calls, marred, link, boot>>
  BY DEF RenameTemp, TunnelStep, profileVars
<1>3. t \notin marred => Written(call[c], t) /\ temp[t] = call[c].new
  BY <1>a, <1>1 DEF Midway, On
<1>4. t \notin marred => call[c].new # Absent
  BY <1>3 DEF Written, Edited
<1>5. CASE temp[t] = Absent
  <2>1. End(c) /\ UNCHANGED <<file, temp>>
    BY <1>5 DEF RenameTemp
  <2>2. t \in marred
    BY <1>3, <1>4, <1>5
  <2> QED BY <1>a, <2>1, <2>2, StepOnly DEF RenameTemp
<1>6. CASE temp[t] # Absent
  <2>1. file' = [file EXCEPT ![t] = temp[t]] /\ temp' = [temp EXCEPT ![t] = Absent]
    BY <1>6 DEF RenameTemp
  <2>2. /\ TunnelsFit' /\ file'[t] = temp[t]
        /\ \A x \in Tunnels \ {t} : file'[x] = file[x] /\ temp'[x] = temp[x]
    BY <1>1, <1>2, <2>1 DEF TunnelsFit, Conf
  <2>3. CASE Is(c, {"restore"})
    <3>1. OneCall(c) /\ call'[c] = NoCall
      BY <1>1, <1>6, <2>3, EndEnds DEF RenameTemp
    <3>2. t \notin marred' => Settled(t)'
      BY <1>2, <1>3, <2>2, <2>3 DEF Written, Settled, Is
    <3> QED BY <1>a, <1>1, <1>2, <2>2, <3>1, <3>2, TunnelFrame
  <2>4. ASSUME ~Is(c, {"restore"}), NEW at \in {"up", "active"}, Goto(c, at), at = "up" <=> Is(c, {"create"})
        PROVE  NetworkFits'
    <3>a. at \in TunnelSteps
      BY DEF TunnelSteps
    <3>1. /\ OneCall(c) /\ IsTunnelCall(call'[c]) /\ call'[c].on = t /\ call'[c] # NoCall
          /\ call'[c] = [at |-> at, do |-> call[c].do, on |-> call[c].on, p |-> call[c].p,
                         key |-> call[c].key, new |-> call[c].new, old |-> call[c].old]
      BY <1>a, <2>4, <3>a, GoesOn
    <3>2. /\ call'[c].at = at /\ call'[c].do = call[c].do /\ call'[c].p = call[c].p
          /\ call'[c].new = call[c].new /\ call'[c].old = call[c].old
      BY <3>1
    <3>3. ASSUME t \notin marred
          PROVE  Edited(call[c]) /\ call[c].old = file[t] /\ Settled(t) /\ file'[t] = call[c].new
      BY <1>3, <2>2, <2>4, <3>3 DEF Written, Is
    <3>4. ASSUME t \notin marred', at = "up" PROVE Midway(call[c], t)'
      <4>1. call[c].do = "create" /\ call[c].old = Absent /\ Down(t)
        BY <1>2, <2>4, <3>3, <3>4 DEF Is, Edited, Settled, Down
      <4> QED BY <1>2, <1>4, <3>2, <3>3, <3>4, <4>1 DEF Midway, Down
    <3>5. ASSUME t \notin marred', at = "active" PROVE Midway(call[c], t)'
      <4>1. call[c].do \in PeerChanges /\ Edited(call[c]) /\ call[c].do # "delete"
        BY <1>2, <2>4, <3>3, <3>5 DEF Is, Edited, PeerChanges
      <4>2. Changed(call[c], t)' /\ (link'[t] # Absent => link'[t] = call'[c].old)
        BY <1>2, <3>2, <3>3, <3>5, <4>1 DEF Changed, Edited, Settled
      <4> QED BY <3>2, <3>5, <4>1, <4>2 DEF Midway
    <3> QED BY <1>a, <1>1, <1>2, <2>2, <3>1, <3>4, <3>5, TunnelFrame
  <2> QED BY <1>6, <2>3, <2>4 DEF RenameTemp, Is
<1> QED BY <1>5, <1>6

(* The links.                                                              *)
LEMMA SetPeerKeeps ==
  ASSUME NetworkFits, NEW c \in Goroutines, SetPeer(c)
  PROVE  NetworkFits'
<1>a. OnTunnel(c) /\ On(c, "set")
  BY DEF SetPeer, On, OnTunnel, TunnelSteps
<1> SUFFICES ASSUME NEW t \in Tunnels, t = Tunnel(c) PROVE NetworkFits'
  BY <1>a, TunnelFacts
<1>1. IsTunnelCall(call[c]) /\ TunnelsFit /\ CallsFit /\ (t \notin marred => Midway(call[c], t))
  BY <1>a, TunnelFacts
<1>2. UNCHANGED <<main, dropin, included, own, loaded, draft, running, up, unfinished, unheeded, backend, calls, marred, file, temp, boot>>
  BY DEF SetPeer, TunnelStep, profileVars
<1>3. CASE link[t] = Absent
  <2>1. OnError(c) /\ UNCHANGED link
    BY <1>3 DEF SetPeer
  <2>2. UNCHANGED profileVars /\ marred' \subseteq Tunnels
    BY <1>1, <1>2 DEF profileVars, TunnelsFit
  <2> QED BY <1>a, <1>2, <2>1, <2>2, ErrorKeeps
<1>4. CASE link[t] # Absent
  <2> DEFINE peers == IF Is(c, {"peer.add"}) THEN link[t].peers \cup {call[c].p} ELSE link[t].peers \ {call[c].p}
  <2>1. End(c) /\ link' = [link EXCEPT ![t] = [link[t] EXCEPT !.peers = peers]]
    BY <1>4 DEF SetPeer
  <2>2. OneCall(c) /\ call'[c] = NoCall
    BY <1>1, <2>1, EndEnds
  <2>3. link[t] \in [key : 0..MaxCalls, peers : SUBSET Peers] /\ peers \subseteq Peers
    BY <1>1, <1>4 DEF TunnelsFit, Conf, IsTunnelCall, Is
  <2> HIDE DEF peers
  <2>4. [link[t] EXCEPT !.peers = peers] \in Conf
    BY <2>3 DEF Conf
  <2>5. TunnelsFit' /\ link'[t] = [link[t] EXCEPT !.peers = peers] /\ \A x \in Tunnels \ {t} : link'[x] = link[x]
    BY <1>1, <1>2, <2>1, <2>4 DEF TunnelsFit
  <2>6. ASSUME t \notin marred' PROVE Settled(t)'
    <3>1. Changed(call[c], t) /\ link[t] = call[c].old
      BY <1>a, <1>1, <1>2, <2>6 DEF Midway, On
    <3>2. link'[t] = call[c].new
      BY <2>5, <3>1 DEF Changed, Edited, PeerChanges, Is, peers
    <3> QED BY <1>2, <1>4, <3>1, <3>2 DEF Changed, Edited, Settled
  <2> QED BY <1>a, <1>1, <1>2, <2>2, <2>5, <2>6, TunnelFrame
<1> QED BY <1>3, <1>4

(* A step that changes one file or link of its tunnel, and goes on or ends.*)
LEMMA OneChange ==
  ASSUME NetworkFits, NEW c \in Goroutines, OnTunnel(c), NEW t \in Tunnels, t = Tunnel(c),
         TunnelStep, UNCHANGED temp, NEW conf \in Conf,
         \/ file' = [file EXCEPT ![t] = conf] /\ UNCHANGED <<link, boot>>
         \/ link' = [link EXCEPT ![t] = conf] /\ UNCHANGED <<file, boot>>
         \/ boot' \in {boot \cup {t}, boot \ {t}} /\ UNCHANGED <<file, link>>,
         \/ End(c) /\ (t \notin marred => Settled(t)')
         \/ \E at \in TunnelSteps :
              /\ Goto(c, at)
              /\ t \notin marred /\ call'[c].at = at /\ call'[c].do = call[c].do => Midway(call[c], t)'
  PROVE  NetworkFits'
<1>1. IsTunnelCall(call[c]) /\ TunnelsFit /\ CallsFit
  BY TunnelFacts
<1>2. UNCHANGED <<main, dropin, included, own, loaded, draft, running, up, unfinished, unheeded, backend, calls, marred>>
  BY DEF TunnelStep, profileVars
<1>3. /\ TunnelsFit'
      /\ \A x \in Tunnels \ {t} :
           file'[x] = file[x] /\ temp'[x] = temp[x] /\ link'[x] = link[x] /\ (x \in boot' <=> x \in boot)
  BY <1>1, <1>2 DEF TunnelsFit
<1>4. CASE End(c) /\ (t \notin marred => Settled(t)')
  <2>1. OneCall(c) /\ call'[c] = NoCall
    BY <1>1, <1>4, EndEnds
  <2> QED BY <1>2, <1>3, <1>4, <2>1, TunnelFrame
<1>5. ASSUME NEW at \in TunnelSteps, Goto(c, at),
             t \notin marred /\ call'[c].at = at /\ call'[c].do = call[c].do => Midway(call[c], t)'
      PROVE  NetworkFits'
  <2>1. /\ OneCall(c) /\ IsTunnelCall(call'[c]) /\ call'[c].on = t /\ call'[c] # NoCall
        /\ call'[c] = [at |-> at, do |-> call[c].do, on |-> call[c].on, p |-> call[c].p,
                       key |-> call[c].key, new |-> call[c].new, old |-> call[c].old]
    BY <1>5, GoesOn
  <2>2. call'[c].at = at /\ call'[c].do = call[c].do
    BY <2>1
  <2> QED BY <1>2, <1>3, <1>5, <2>1, <2>2, TunnelFrame
<1> QED BY <1>4, <1>5

LEMMA BringUpKeeps ==
  ASSUME NetworkFits, NEW c \in Goroutines, BringUp(c)
  PROVE  NetworkFits'
<1>a. OnTunnel(c) /\ On(c, "up") /\ TunnelStep /\ UNCHANGED <<file, temp, boot>> /\ "enable" \in TunnelSteps
  BY DEF BringUp, On, OnTunnel, TunnelSteps
<1> SUFFICES ASSUME NEW t \in Tunnels, t = Tunnel(c) PROVE NetworkFits'
  BY <1>a, TunnelFacts
<1>1. TunnelsFit
  BY <1>a, TunnelFacts
<1>2. CASE link[t] # Absent \/ file[t] = Absent
  <2>1. OnError(c) /\ UNCHANGED link
    BY <1>2 DEF BringUp
  <2> QED BY <1>a, <1>1, <2>1, ErrorKeeps DEF TunnelStep, TunnelsFit
<1>3. CASE link[t] = Absent /\ file[t] # Absent
  <2>1. Goto(c, "enable") /\ link' = [link EXCEPT ![t] = file[t]] /\ file[t] \in Conf
    BY <1>1, <1>3 DEF BringUp, TunnelsFit
  <2>2. link'[t] = file[t]
    BY <1>1, <2>1 DEF TunnelsFit
  <2>3. call'[c].at = "enable" => Midway(call[c], t)'
    BY <1>a, <1>3, <2>2 DEF Midway
  <2> QED BY <1>a, <2>1, <2>3, OneChange
<1> QED BY <1>2, <1>3

LEMMA TakeDownKeeps ==
  ASSUME NetworkFits, NEW c \in Goroutines, TakeDown(c)
  PROVE  NetworkFits'
<1>a. OnTunnel(c) /\ On(c, "down") /\ TunnelStep /\ UNCHANGED <<file, temp, boot>> /\ "disable" \in TunnelSteps
  BY DEF TakeDown, On, OnTunnel, TunnelSteps
<1> SUFFICES ASSUME NEW t \in Tunnels, t = Tunnel(c) PROVE NetworkFits'
  BY <1>a, TunnelFacts
<1>1. TunnelsFit
  BY <1>a, TunnelFacts
<1>2. CASE link[t] = Absent \/ file[t] = Absent
  <2>1. OnError(c) /\ UNCHANGED link
    BY <1>2 DEF TakeDown
  <2> QED BY <1>a, <1>1, <2>1, ErrorKeeps DEF TunnelStep, TunnelsFit
<1>3. CASE link[t] # Absent /\ file[t] # Absent
  <2>1. Goto(c, "disable") /\ link' = [link EXCEPT ![t] = Absent] /\ Absent \in Conf
    BY <1>3 DEF TakeDown, Conf
  <2>2. link'[t] = Absent
    BY <1>1, <2>1 DEF TunnelsFit
  <2>3. call'[c].at = "disable" => Midway(call[c], t)'
    BY <2>2 DEF Midway
  <2> QED BY <1>a, <2>1, <2>3, OneChange
<1> QED BY <1>2, <1>3

(* The service of a tunnel, and the removal of its file.                   *)
LEMMA ServiceKeeps ==
  ASSUME NetworkFits, NEW c \in Goroutines, EnableService(c) \/ DisableService(c)
  PROVE  NetworkFits'
<1>a. /\ OnTunnel(c) /\ TunnelStep /\ UNCHANGED <<file, temp, link>> /\ "remove" \in TunnelSteps
      /\ Absent \in Conf
  BY DEF EnableService, DisableService, On, OnTunnel, TunnelSteps, Conf
<1> SUFFICES ASSUME NEW t \in Tunnels, t = Tunnel(c) PROVE NetworkFits'
  BY <1>a, TunnelFacts
<1>1. t \notin marred => Midway(call[c], t)
  BY <1>a, TunnelFacts
<1>2. CASE EnableService(c)
  <2>1. End(c) /\ boot' = boot \cup {t} /\ On(c, "enable")
    BY <1>2 DEF EnableService
  <2>2. t \notin marred => Settled(t)'
    BY <1>a, <1>1, <2>1 DEF Midway, On, Settled
  <2> QED BY <1>a, <2>1, <2>2, OneChange
<1>3. CASE DisableService(c)
  <2>1. boot' = boot \ {t} /\ On(c, "disable")
    BY <1>3 DEF DisableService
  <2>2. t \notin marred => link'[t] = Absent
    BY <1>a, <1>1, <2>1 DEF Midway, On
  <2>3. CASE Goto(c, "remove")
    <3>1. t \notin marred /\ call'[c].at = "remove" => Midway(call[c], t)'
      BY <2>1, <2>2 DEF Midway, Down
    <3> QED BY <1>a, <2>1, <2>3, <3>1, OneChange
  <2>4. CASE End(c)
    <3>1. t \notin marred => Settled(t)'
      BY <2>1, <2>2 DEF Settled
    <3> QED BY <1>a, <2>1, <2>4, <3>1, OneChange
  <2> QED BY <1>3, <2>3, <2>4 DEF DisableService
<1> QED BY <1>2, <1>3

LEMMA RemoveKeeps ==
  ASSUME NetworkFits, NEW c \in Goroutines, UnlinkFile(c) \/ RemoveFile(c)
  PROVE  NetworkFits'
<1>a. /\ OnTunnel(c) /\ TunnelStep /\ UNCHANGED <<temp, link, boot>> /\ End(c) /\ Absent \in Conf
      /\ On(c, "unlink") \/ On(c, "remove")
  BY DEF UnlinkFile, RemoveFile, On, OnTunnel, TunnelSteps, Conf
<1> SUFFICES ASSUME NEW t \in Tunnels, t = Tunnel(c) PROVE NetworkFits'
  BY <1>a, TunnelFacts
<1>1. t \notin marred => Down(t)
  BY <1>a, TunnelFacts DEF Midway, On
<1>2. file' = [file EXCEPT ![t] = Absent]
  BY DEF UnlinkFile, RemoveFile
<1>3. t \notin marred => Settled(t)'
  BY <1>a, <1>1 DEF Settled, Down
<1> QED BY <1>a, <1>2, <1>3, OneChange

(* A profile's step leaves the tunnels.                                    *)
LEMMA ProfileFrame ==
  ASSUME NetworkFits, NEW c \in Goroutines, ~OnTunnel(c), OneCall(c),
         call'[c] = NoCall \/ IsSave(call[c])', UNCHANGED <<file, temp, link, boot, marred>>,
         calls' \in {calls, calls + 1}, calls' \in 0..MaxCalls
  PROVE  TunnelsFit' /\ CallsFit' /\ AllMidway'
<1>1. CallsFit /\ AllMidway /\ TunnelsFit /\ calls \in Nat
  BY NetworkAssumption DEF NetworkFits, CallsFit
<1>2. ASSUME NEW d \in Goroutines, d # c
      PROVE  call'[d] = call[d] /\ OnTunnel(d)' = OnTunnel(d) /\ Tunnel(d)' = Tunnel(d)
  BY <1>2 DEF OneCall, OnTunnel, Tunnel
<1>3. ASSUME NEW d \in Goroutines, d # c PROVE call'[d] = NoCall \/ IsTunnelCall(call'[d]) \/ IsSave(call[d])'
  <2>1. call[d] = NoCall \/ IsTunnelCall(call[d]) \/ IsSave(call[d])
    BY <1>1 DEF CallsFit
  <2>2. IsSave(call[d]) => IsSave(call[d])'
    <3>1. \A n \in Nat : n < calls => n < calls'
      BY <1>1
    <3> QED BY <1>2, <1>3, <3>1, NetworkAssumption DEF IsSave
  <2> QED BY <1>2, <1>3, <2>1, <2>2
<1>4. CallsFit'
  BY <1>2, <1>3 DEF CallsFit, OneCall, IsTunnelCall
<1>5. ~OnTunnel(c)'
  <2>1. call'[c].at \notin TunnelSteps
    <3>1. IsSave(call[c])' => call'[c].at \in ProfileSteps
      BY DEF IsSave
    <3> QED BY <3>1, KindOf DEF ProfileSteps, TunnelSteps
  <2> QED BY <2>1 DEF OnTunnel
<1>6. ASSUME NEW t \in Tunnels \ marred
      PROVE  /\ Settled(t)' <=> Settled(t)
             /\ \A d \in Goroutines : OnTunnel(d)' /\ Tunnel(d)' = t <=> OnTunnel(d) /\ Tunnel(d) = t
  BY <1>2, <1>5 DEF Settled
<1>7. ASSUME NEW t \in Tunnels \ marred, NEW d \in Goroutines, OnTunnel(d), Tunnel(d) = t PROVE Midway(call[d], t)'
  <2>1. call'[d] = call[d] /\ Midway(call[d], t)
    BY <1>1, <1>2, <1>7 DEF AllMidway
  <2> QED BY <2>1 DEF Settled, Midway, Written, Changed, Down
<1>8. AllMidway'
  BY <1>1, <1>6, <1>7 DEF AllMidway
<1> QED BY <1>1, <1>4, <1>8 DEF TunnelsFit

LEMMA SaveGoes ==
  ASSUME NetworkFits, NEW c \in Goroutines, Saving(c), NEW at \in ProfileSteps, Goto(c, at)
  PROVE  /\ OneCall(c) /\ call'[c].at = at /\ call'[c].on = call[c].on
         /\ call'[c].profile = call[c].profile /\ call'[c].seen = call[c].seen
         /\ call'[c] = [at |-> at, do |-> call[c].do, on |-> call[c].on,
                        profile |-> call[c].profile, seen |-> call[c].seen]
<1>1. CallsFit
  BY DEF NetworkFits
<1>2. OneCall(c) /\ call'[c] = [at |-> at, do |-> call[c].do, on |-> call[c].on,
                                profile |-> call[c].profile, seen |-> call[c].seen]
  BY <1>1, GotoGoes
<1> QED BY <1>2

LEMMA SaveIsSave ==
  ASSUME NetworkFits, NEW c \in Goroutines, Saving(c), call'[c].at \in ProfileSteps, UNCHANGED calls,
         call'[c].on = call[c].on, call'[c].profile = call[c].profile,
         call'[c] = [at |-> call'[c].at, do |-> call'[c].do, on |-> call'[c].on,
                     profile |-> call'[c].profile, seen |-> call'[c].seen]
  PROVE  IsSave(call[c])'
<1>1. IsSave(call[c])
  BY OneKind DEF NetworkFits
<1> QED BY <1>1 DEF IsSave

(* A step of a save goes on or ends.                                       *)
LEMMA SaveFrame ==
  ASSUME NetworkFits, NEW c \in Goroutines, Saving(c), OneCall(c),
         \/ call'[c] = NoCall
         \/ /\ call'[c].at \in ProfileSteps
            /\ call'[c].on = call[c].on /\ call'[c].profile = call[c].profile
            /\ call'[c] = [at |-> call'[c].at, do |-> call'[c].do, on |-> call'[c].on,
                           profile |-> call'[c].profile, seen |-> call'[c].seen]
            /\ Applies(c)',
         UNCHANGED <<file, temp, link, boot, marred, backend, calls>>, ProfilesFit',
         \A d \in Goroutines \ {c} : Saving(d) => Applies(d)',
         \A i \in Interfaces : WillRun(i)'
  PROVE  NetworkFits'
<1>1. CallsFit /\ AllWillRun /\ calls \in 0..MaxCalls /\ ~OnTunnel(c)
  BY OneKind DEF NetworkFits, CallsFit
<1>2. call'[c] = NoCall \/ IsSave(call[c])'
  BY SaveIsSave
<1>3. TunnelsFit' /\ CallsFit' /\ AllMidway'
  BY <1>1, <1>2, ProfileFrame
<1>4. ASSUME NEW d \in Goroutines, Saving(d)'
      PROVE  Saving(d) /\ call'[d].profile = call[d].profile /\ Applies(d)'
  <2>1. CASE d = c
    <3>1. call'[c] # NoCall
      BY <1>4, <2>1, KindOf DEF Saving
    <3> QED BY <2>1, <3>1
  <2>2. CASE d # c
    BY <1>4, <2>2 DEF OneCall, Saving
  <2> QED BY <2>1, <2>2
<1>5. AllWillRun'
  BY <1>1, <1>4 DEF AllWillRun
<1> QED BY <1>3, <1>5 DEF NetworkFits

(* What a save leaves alone.                                               *)
LEMMA Untouched ==
  ASSUME NetworkFits, NEW c \in Goroutines, Saving(c), OneCall(c), UNCHANGED <<backend, main, dropin>>
  PROVE  /\ \A d \in Goroutines \ {c} :
              /\ Saving(d) /\ own'[call[d].on] = own[call[d].on] /\ loaded'[call[d].on] = loaded[call[d].on]
              /\ draft'[call[d].on] \in {draft[call[d].on], Absent, call[c].profile}
              /\ \A i \in Interfaces : i = call[d].on /\ Taken(i) => Taken(i)'
              => Applies(d)'
         /\ \A i \in Interfaces :
              /\ own'[i] = own[i] /\ loaded'[i] = loaded[i] /\ running'[i] = running[i]
              /\ (i \in up' <=> i \in up) /\ (i \in unheeded' <=> i \in unheeded)
              /\ i \in unfinished => i \in unfinished'
              /\ i # call[c].on \/ i \in unfinished' \/ call[c].at \in {"check", "include", "draft", "profile"}
              => WillRun(i)'
         /\ UNCHANGED <<own, running, up, unheeded>> => \A i \in Interfaces : Taken(i)' = Taken(i)
<1>1. AllWillRun /\ \A d \in Goroutines \ {c} : call'[d] = call[d]
  BY DEF NetworkFits, OneCall
<1>2. ASSUME NEW d \in Goroutines \ {c}, Saving(d), own'[call[d].on] = own[call[d].on],
             loaded'[call[d].on] = loaded[call[d].on],
             draft'[call[d].on] \in {draft[call[d].on], Absent, call[c].profile},
             \A i \in Interfaces : i = call[d].on /\ Taken(i) => Taken(i)'
      PROVE  Applies(d)'
  <2>1. Applies(d) /\ call'[d] = call[d] /\ call[d].on \in Interfaces /\ call[d].profile # Absent
        /\ call[d].profile # call[c].profile
    <3>1. IsSave(call[d]) /\ Applies(d) /\ call[d].profile # call[c].profile
      BY <1>1, <1>2, OneKind DEF AllWillRun, NetworkFits
    <3> QED BY <1>1, <3>1, NetworkAssumption DEF IsSave
  <2>2. PICK i \in Interfaces : i = call[d].on
    BY <2>1
  <2>3. (Taken(i) => Taken(i)') /\ call'[d].on = i /\ own'[i] = own[i] /\ loaded'[i] = loaded[i]
        /\ draft'[i] \in {draft[i], Absent, call[c].profile}
    BY <1>2, <2>1, <2>2
  <2> QED BY <2>1, <2>2, <2>3 DEF Applies, Read, SaveSteps
<1>3. ASSUME NEW i \in Interfaces, own'[i] = own[i], loaded'[i] = loaded[i], running'[i] = running[i],
             i \in up' <=> i \in up, i \in unheeded' <=> i \in unheeded, i \in unfinished => i \in unfinished',
             i # call[c].on \/ i \in unfinished' \/ call[c].at \in {"check", "include", "draft", "profile"}
      PROVE  WillRun(i)'
  <2>1. WillRun(i)
    BY <1>1 DEF AllWillRun
  <2>2. CASE i \in unfinished'
    BY <2>2 DEF WillRun
  <2>3. ASSUME i \notin unfinished', NEW d \in Goroutines, call[d].on = i,
               call[d].at \in {"query", "ifdown", "reload", "apply"}
        PROVE  call'[d] = call[d]
    BY <1>1, <1>3, <2>3
  <2>4. Read(i)' = Read(i) /\ Taken(i)' = Taken(i)
    BY <1>3 DEF Read, Taken
  <2> QED BY <1>3, <2>1, <2>2, <2>3, <2>4 DEF WillRun
<1>4. ASSUME UNCHANGED <<own, running, up, unheeded>>, NEW i \in Interfaces PROVE Taken(i)' = Taken(i)
  BY <1>4 DEF Taken
<1> QED BY <1>2, <1>3, <1>4

LEMMA SaveFacts ==
  ASSUME NetworkFits, NEW c \in Goroutines, Saving(c)
  PROVE  /\ IsSave(call[c]) /\ ProfilesFit /\ CallsFit /\ Applies(c) /\ call[c].on \in Interfaces
         /\ \A d \in Goroutines \ {c} : Saving(d) => Applies(d) /\ call[d].profile # call[c].profile
                                                     /\ call[d].on \in Interfaces
<1>1. \A d \in Goroutines : Saving(d) => IsSave(call[d]) /\ call[d].on \in Interfaces
  BY OneKind DEF NetworkFits, IsSave
<1> QED BY <1>1 DEF NetworkFits, AllWillRun

(* The steps of a save.                                                    *)
LEMMA CheckKeeps ==
  ASSUME NetworkFits, NEW c \in Goroutines, CheckOwnership(c)
  PROVE  NetworkFits'
<1>1. /\ Saving(c) /\ On(c, "check")
      /\ UNCHANGED <<file, temp, link, boot, marred, backend, calls, main, dropin, included, own, loaded,
                     draft, running, up, unfinished, unheeded>>
  BY DEF CheckOwnership, On, Saving, ProfileSteps, ProfileStep, Soundly, NoIfDown, tunnelVars
<1>2. IsSave(call[c]) /\ ProfilesFit /\ CallsFit /\ Applies(c) /\ call[c].on \in Interfaces
      /\ \A d \in Goroutines \ {c} : Saving(d) => call[d].on \in Interfaces
  BY <1>1, SaveFacts
<1>3. ProfilesFit'
  BY <1>1, <1>2 DEF ProfilesFit
<1>4. CASE End(c)
  <2>1. OneCall(c) /\ call'[c] = NoCall
    BY <1>2, <1>4, EndEnds
  <2>2. (\A d \in Goroutines \ {c} : Saving(d) => Applies(d)') /\ \A i \in Interfaces : WillRun(i)'
    BY <1>1, <2>1, Untouched DEF On
  <2> QED BY <1>1, <1>3, <2>1, <2>2, SaveFrame
<1>5. ASSUME Stanzas(call[c].on) \subseteq {"own"},
             call' = [call EXCEPT ![c].at = After("check"), ![c].seen = included]
      PROVE  NetworkFits'
  <2>1. OneCall(c) /\ call'[c] = [[call[c] EXCEPT !.at = After("check")] EXCEPT !.seen = included]
    BY <1>2, <1>5 DEF OneCall, CallsFit
  <2>2. call'[c] = [at |-> After("check"), do |-> call[c].do, on |-> call[c].on,
                    profile |-> call[c].profile, seen |-> included]
    BY <1>2, <2>1 DEF IsSave
  <2>3. /\ After("check") \in {"include", "draft", "profile"}
        /\ After("check") = "include" => backend = "ifupdown"
        /\ After("check") = "draft" => backend = "systemd-networkd"
    BY <1>2 DEF After, ProfilesFit
  <2>4. call[c].on \notin main /\ (call[c].on \in dropin => ~included)
    <3>1. "main" \notin Stanzas(call[c].on) /\ "dropin" \notin Stanzas(call[c].on)
      BY <1>5
    <3> QED BY <3>1 DEF Stanzas
  <2>5. /\ call'[c].at = After("check") /\ call'[c].on = call[c].on /\ call'[c].seen = included
        /\ call'[c].profile = call[c].profile /\ call'[c].do = call[c].do
    BY <2>2
  <2>6. Applies(c)'
    BY <1>1, <1>2, <2>3, <2>4, <2>5 DEF Applies, SaveSteps, On
  <2>7. (\A d \in Goroutines \ {c} : Saving(d) => Applies(d)') /\ \A i \in Interfaces : WillRun(i)'
    BY <1>1, <2>1, Untouched DEF On
  <2>8. call'[c].at \in ProfileSteps
    BY <2>3, <2>5 DEF ProfileSteps
  <2> HIDE DEF After
  <2> QED BY <1>1, <1>3, <2>1, <2>2, <2>5, <2>6, <2>7, <2>8, SaveFrame
<1> QED BY <1>4, <1>5 DEF CheckOwnership

LEMMA IncludeKeeps ==
  ASSUME NetworkFits, NEW c \in Goroutines, EnsureInclude(c)
  PROVE  NetworkFits'
<1>1. /\ Saving(c) /\ On(c, "include") /\ Goto(c, After("include"))
      /\ UNCHANGED <<file, temp, link, boot, marred, backend, calls, main, dropin, own, loaded, draft, running, up, unfinished, unheeded>>
  BY DEF EnsureInclude, On, Saving, ProfileSteps, ProfileStep, Soundly, NoIfDown, tunnelVars
<1>2. ProfilesFit /\ Applies(c)
  BY <1>1, SaveFacts
<1>3. ProfilesFit'
  BY <1>1, <1>2 DEF ProfilesFit
<1>4. After("include") = "profile"
  BY <1>1, <1>2 DEF Applies, On, SaveSteps, After, ProfilesFit
<1>5. /\ OneCall(c) /\ call'[c].at = "profile" /\ call'[c].on = call[c].on
      /\ call'[c].profile = call[c].profile /\ call'[c].seen = call[c].seen
      /\ call'[c] = [at |-> "profile", do |-> call[c].do, on |-> call[c].on,
                     profile |-> call[c].profile, seen |-> call[c].seen]
  BY <1>1, <1>4, SaveGoes DEF ProfileSteps
<1>6. call'[c].do = call[c].do /\ "profile" \in ProfileSteps
  BY <1>5 DEF ProfileSteps
<1>7. Applies(c)'
  BY <1>1, <1>2, <1>5 DEF Applies, On, SaveSteps
<1>8. (\A d \in Goroutines \ {c} : Saving(d) => Applies(d)') /\ \A i \in Interfaces : WillRun(i)'
  BY <1>1, <1>5, Untouched DEF On
<1> QED BY <1>1, <1>3, <1>5, <1>6, <1>7, <1>8, SaveFrame

LEMMA DraftKeeps ==
  ASSUME NetworkFits, NEW c \in Goroutines, WriteDraft(c)
  PROVE  NetworkFits'
<1>1. /\ Saving(c) /\ On(c, "draft") /\ Goto(c, After("draft"))
      /\ draft' = [draft EXCEPT ![call[c].on] = call[c].profile]
      /\ UNCHANGED <<file, temp, link, boot, marred, backend, calls, main, dropin, included, own, loaded,
                     running, up, unfinished, unheeded>>
  BY DEF WriteDraft, On, Saving, ProfileSteps, ProfileStep, Soundly, NoIfDown, tunnelVars
<1>2. ProfilesFit /\ Applies(c) /\ IsSave(call[c])
  BY <1>1, SaveFacts
<1>3. ProfilesFit'
  BY <1>1, <1>2 DEF ProfilesFit, IsSave, Profiles
<1>4. After("draft") = "profile"
  BY <1>1, <1>2 DEF Applies, On, SaveSteps, After, ProfilesFit
<1>5. /\ OneCall(c) /\ call'[c].at = "profile" /\ call'[c].on = call[c].on
      /\ call'[c].profile = call[c].profile /\ call'[c].seen = call[c].seen
      /\ call'[c] = [at |-> "profile", do |-> call[c].do, on |-> call[c].on,
                     profile |-> call[c].profile, seen |-> call[c].seen]
  BY <1>1, <1>4, SaveGoes DEF ProfileSteps
<1>6. call'[c].do = call[c].do /\ "profile" \in ProfileSteps
  BY <1>5 DEF ProfileSteps
<1>7. Applies(c)'
  BY <1>1, <1>2, <1>5 DEF Applies, On, SaveSteps
<1>8. (\A d \in Goroutines \ {c} : Saving(d) => Applies(d)') /\ \A i \in Interfaces : WillRun(i)'
  BY <1>1, <1>5, Untouched DEF On
<1> QED BY <1>1, <1>3, <1>5, <1>6, <1>7, <1>8, SaveFrame

(* A profile takes the place of another one: of this save's, or networkd's *)
(* draft, which may be another save's.                                     *)
LEMMA WriteKeeps ==
  ASSUME NetworkFits, NEW c \in Goroutines, WriteProfile(c)
  PROVE  NetworkFits'
<1>1. /\ Saving(c) /\ On(c, "profile")
      /\ UNCHANGED <<file, temp, link, boot, marred, backend, calls, main, dropin, included, loaded, running, up,
                     unfinished, unheeded>>
  BY DEF WriteProfile, On, Saving, ProfileSteps, ProfileStep, Soundly, NoIfDown, tunnelVars
<1>2. /\ ProfilesFit /\ CallsFit /\ Applies(c) /\ IsSave(call[c]) /\ call[c].on \in Interfaces
      /\ \A d \in Goroutines \ {c} : Saving(d) => Applies(d) /\ call[d].profile # call[c].profile
                                                  /\ call[d].on \in Interfaces
  BY <1>1, SaveFacts
<1>b. CASE End(c) /\ UNCHANGED <<own, draft>>
  <2>1. OneCall(c) /\ call'[c] = NoCall
    BY <1>2, <1>b, EndEnds
  <2>2. ProfilesFit'
    BY <1>1, <1>2, <1>b DEF ProfilesFit
  <2>3. (\A d \in Goroutines \ {c} : Saving(d) => Applies(d)') /\ \A i \in Interfaces : WillRun(i)'
    BY <1>1, <1>b, <2>1, Untouched DEF On
  <2> QED BY <1>1, <2>1, <2>2, <2>3, SaveFrame
<1>c. ASSUME NEW new \in Profiles, own' = [own EXCEPT ![call[c].on] = new], draft' \in [Interfaces -> Profiles],
             backend = "systemd-networkd" => new = draft[call[c].on],
             \A i \in Interfaces : draft'[i] = draft[i] \/ draft'[i] = Absent,
             backend = "systemd-networkd" => draft'[call[c].on] = Absent,
             backend # "systemd-networkd" => new = call[c].profile, Goto(c, After("profile"))
      PROVE  NetworkFits'
  <2>3. ProfilesFit' /\ own'[call[c].on] = new
        /\ \A i \in Interfaces \ {call[c].on} : own'[i] = own[i]
    BY <1>1, <1>2, <1>c DEF ProfilesFit
  <2>4. /\ After("profile") \in {"query", "reload", "apply"}
        /\ After("profile") = "query" => backend = "ifupdown"
        /\ After("profile") = "reload" => backend = "systemd-networkd"
        /\ After("profile") = "apply" => backend = "networkmanager"
    BY <1>2 DEF After, ProfilesFit
  <2> DEFINE at == After("profile")
  <2>a. at \in ProfileSteps
    BY <2>4 DEF ProfileSteps
  <2> HIDE DEF at
  <2>5. /\ OneCall(c) /\ call'[c].at = at /\ call'[c].on = call[c].on
        /\ call'[c].profile = call[c].profile /\ call'[c].seen = call[c].seen
        /\ call'[c] = [at |-> at, do |-> call[c].do, on |-> call[c].on,
                       profile |-> call[c].profile, seen |-> call[c].seen]
    BY <1>1, <1>c, <2>a, SaveGoes DEF at
  <2>6. call'[c].do = call[c].do
    BY <2>5
  <2>7. Applies(c)'
    <3>1. draft'[call[c].on] = call[c].profile => backend # "systemd-networkd"
      BY <1>2, <1>c, NetworkAssumption DEF IsSave
    <3>2. call'[c].at = "apply" => backend = "networkmanager"
      BY <2>4, <2>5 DEF at
    <3> QED BY <1>1, <2>4, <2>5, <3>1, <3>2 DEF Applies, SaveSteps, Read, Taken, at
  <2>8. ASSUME NEW d \in Goroutines \ {c}, Saving(d) PROVE Applies(d)'
    <3>1. CASE call[d].on # call[c].on
      <4>1. \A i \in Interfaces : i = call[d].on /\ Taken(i) => Taken(i)'
        BY <1>1, <2>3, <3>1 DEF Taken
      <4>2. /\ own'[call[d].on] = own[call[d].on] /\ loaded'[call[d].on] = loaded[call[d].on]
            /\ draft'[call[d].on] \in {draft[call[d].on], Absent, call[c].profile}
        BY <1>1, <1>2, <1>c, <2>3, <2>8, <3>1
      <4> QED BY <1>1, <2>5, <2>8, <4>1, <4>2, Untouched
    <3>2. CASE call[d].on = call[c].on
      <4>1. call'[d] = call[d] /\ Applies(d)
        BY <1>2, <2>3, <2>5, <2>8, <3>2 DEF OneCall
      <4>2. IsSave(call[d]) /\ call[d].profile # Absent
        BY <2>8, OneKind, NetworkAssumption DEF NetworkFits, IsSave
      <4>3. call[d].at # "apply" \/ own'[call[d].on] # call[d].profile
        BY <1>2, <1>c, <2>3, <2>8, <3>2, <4>1 DEF Applies
      <4> QED BY <1>1, <1>c, <3>2, <4>1, <4>2, <4>3 DEF Applies, SaveSteps
    <3> QED BY <3>1, <3>2
  <2>9. ASSUME NEW i \in Interfaces PROVE WillRun(i)'
    <3>1. CASE i # call[c].on
      BY <1>1, <2>3, <2>5, <3>1, Untouched
    <3>2. CASE i = call[c].on
      BY <1>1, <2>4, <2>5, <3>2 DEF WillRun, Read, Taken, at
    <3> QED BY <3>1, <3>2
  <2> QED BY <1>1, <2>3, <2>a, <2>5, <2>6, <2>7, <2>8, <2>9, SaveFrame
<1>d. \A i \in Interfaces : draft[i] \in Profiles /\ call[c].profile \in Profiles
  BY <1>2 DEF ProfilesFit, IsSave, Profiles
<1>e. CASE backend # "systemd-networkd"
  BY <1>2, <1>c, <1>d, <1>e DEF WriteProfile, ProfilesFit
<1>f. CASE backend = "systemd-networkd" /\ ~(End(c) /\ UNCHANGED <<own, draft>>)
  <2>1. /\ own' = [own EXCEPT ![call[c].on] = draft[call[c].on]] /\ Goto(c, After("profile"))
        /\ draft' = [draft EXCEPT ![call[c].on] = Absent]
    BY <1>f DEF WriteProfile
  <2>2. /\ draft' \in [Interfaces -> Profiles] /\ draft'[call[c].on] = Absent
        /\ \A i \in Interfaces : draft'[i] = draft[i] \/ draft'[i] = Absent
    BY <1>2, <2>1 DEF ProfilesFit, Profiles
  <2> QED BY <1>2, <1>c, <1>d, <1>f, <2>1, <2>2
<1> QED BY <1>b, <1>e, <1>f

LEMMA QueryKeeps ==
  ASSUME NetworkFits, NEW c \in Goroutines, QueryProfile(c)
  PROVE  NetworkFits'
<1>1. /\ Saving(c) /\ On(c, "query") /\ Goto(c, After("query"))
      /\ UNCHANGED <<file, temp, link, boot, marred, backend, calls, main, dropin, included, own, loaded,
                     draft, running, up, unfinished, unheeded>>
  BY DEF QueryProfile, On, Saving, ProfileSteps, ProfileStep, Soundly, NoIfDown, tunnelVars
<1>2. ProfilesFit /\ Applies(c)
  BY <1>1, SaveFacts
<1>3. ProfilesFit' /\ backend = "ifupdown"
  BY <1>1, <1>2 DEF ProfilesFit, Applies, On, SaveSteps
<1>4. After("query") = "ifdown" /\ "ifdown" \in ProfileSteps
  BY <1>3 DEF After, ProfileSteps
<1>5. /\ OneCall(c) /\ call'[c].at = "ifdown" /\ call'[c].on = call[c].on
      /\ call'[c].profile = call[c].profile /\ call'[c].seen = call[c].seen
      /\ call'[c] = [at |-> "ifdown", do |-> call[c].do, on |-> call[c].on,
                     profile |-> call[c].profile, seen |-> call[c].seen]
  BY <1>1, <1>4, SaveGoes
<1>6. call'[c].do = call[c].do
  BY <1>5
<1>7. Applies(c)'
  BY <1>1, <1>3, <1>5 DEF Applies, SaveSteps
<1>8. \A d \in Goroutines \ {c} : Saving(d) => Applies(d)'
  BY <1>1, <1>5, Untouched
<1>9. ASSUME NEW i \in Interfaces PROVE WillRun(i)'
  <2>1. CASE i # call[c].on
    BY <1>1, <1>5, <2>1, Untouched
  <2>2. CASE i = call[c].on
    BY <1>5, <2>2 DEF WillRun
  <2> QED BY <2>1, <2>2
<1> QED BY <1>1, <1>3, <1>4, <1>5, <1>6, <1>7, <1>8, <1>9, SaveFrame

(* ifdown takes the interface down, or it stays up and unheeded.           *)
LEMMA IfDownKeeps ==
  ASSUME NetworkFits, NEW c \in Goroutines, IfDown(c) \/ IfDownFails(c)
  PROVE  NetworkFits'
<1> SUFFICES ASSUME NEW i \in Interfaces, i = call[c].on PROVE NetworkFits'
  BY SaveFacts DEF IfDown, IfDownFails, On, Saving, ProfileSteps
<1>1. /\ Saving(c) /\ On(c, "ifdown") /\ Goto(c, After("ifdown"))
      /\ UNCHANGED <<file, temp, link, boot, marred, backend, calls, main, dropin, included, own, loaded, draft, unfinished>>
      /\ \/ running' = [running EXCEPT ![i] = Absent] /\ up' = up \ {i} /\ unheeded' = unheeded \ {i}
         \/ UNCHANGED <<running, up>> /\ unheeded' = unheeded \cup {i}
  BY DEF IfDown, IfDownFails, On, Saving, ProfileSteps, ProfileStep, tunnelVars
<1>2. ProfilesFit /\ Applies(c)
      /\ \A d \in Goroutines \ {c} : Saving(d) => call[d].on \in Interfaces
  BY <1>1, SaveFacts
<1>3. /\ ProfilesFit' /\ backend = "ifupdown" /\ Taken(i)'
      /\ \A x \in Interfaces \ {i} :
            running'[x] = running[x] /\ (x \in up' <=> x \in up) /\ (x \in unheeded' <=> x \in unheeded)
  <2>1. backend = "ifupdown"
    BY <1>1, <1>2 DEF ProfilesFit, Applies, On, SaveSteps
  <2>2. ProfilesFit' /\ \A x \in Interfaces \ {i} : running'[x] = running[x]
    BY <1>1, <1>2 DEF ProfilesFit, Profiles
  <2>3. \A x \in Interfaces \ {i} : (x \in up' <=> x \in up) /\ (x \in unheeded' <=> x \in unheeded)
    BY <1>1
  <2>4. Taken(i)'
    BY <1>1 DEF Taken
  <2> QED BY <2>1, <2>2, <2>3, <2>4
<1>4. After("ifdown") = "apply" /\ "apply" \in ProfileSteps
  BY <1>3 DEF After, ProfileSteps
<1>5. /\ OneCall(c) /\ call'[c].at = "apply" /\ call'[c].on = call[c].on
      /\ call'[c].profile = call[c].profile /\ call'[c].seen = call[c].seen
      /\ call'[c] = [at |-> "apply", do |-> call[c].do, on |-> call[c].on,
                     profile |-> call[c].profile, seen |-> call[c].seen]
  BY <1>1, <1>4, SaveGoes
<1>6. call'[c].do = call[c].do
  BY <1>5
<1>7. Applies(c)'
  BY <1>1, <1>3, <1>5 DEF Applies, SaveSteps, Read
<1>8. ASSUME NEW d \in Goroutines \ {c}, Saving(d) PROVE Applies(d)'
  <2>1. \A x \in Interfaces : Taken(x) => Taken(x)'
    BY <1>1, <1>3 DEF Taken
  <2> QED BY <1>1, <1>5, <1>8, <2>1, Untouched
<1>9. ASSUME NEW x \in Interfaces PROVE WillRun(x)'
  <2>1. CASE x # i
    BY <1>1, <1>3, <1>5, <2>1, Untouched
  <2>2. CASE x = i
    BY <1>1, <1>3, <1>5, <2>2 DEF WillRun, Read
  <2> QED BY <2>1, <2>2
<1> QED BY <1>1, <1>3, <1>4, <1>5, <1>6, <1>7, <1>8, <1>9, SaveFrame

LEMMA ReloadKeeps ==
  ASSUME NetworkFits, NEW c \in Goroutines, ReloadNetworkd(c)
  PROVE  NetworkFits'
<1>1. /\ Saving(c) /\ On(c, "reload") /\ Goto(c, After("reload")) /\ loaded' = own
      /\ UNCHANGED <<file, temp, link, boot, marred, backend, calls, main, dropin, included, own, draft, running, up, unfinished,
                     unheeded>>
  BY DEF ReloadNetworkd, On, Saving, ProfileSteps, ProfileStep, Soundly, NoIfDown, tunnelVars
<1>2. ProfilesFit /\ Applies(c) /\ AllWillRun
  BY <1>1, SaveFacts DEF NetworkFits
<1>3. ProfilesFit' /\ backend = "systemd-networkd"
  BY <1>1, <1>2 DEF ProfilesFit, Applies, On, SaveSteps
<1>4. After("reload") = "apply" /\ "apply" \in ProfileSteps
  BY <1>3 DEF After, ProfileSteps
<1>5. /\ OneCall(c) /\ call'[c].at = "apply" /\ call'[c].on = call[c].on
      /\ call'[c].profile = call[c].profile /\ call'[c].seen = call[c].seen
      /\ call'[c] = [at |-> "apply", do |-> call[c].do, on |-> call[c].on,
                     profile |-> call[c].profile, seen |-> call[c].seen]
  BY <1>1, <1>4, SaveGoes
<1>6. call'[c].do = call[c].do
  BY <1>5
<1>7. Applies(c)'
  BY <1>1, <1>2, <1>3, <1>5 DEF Applies, On, SaveSteps, Read, Taken
<1>8. ASSUME NEW d \in Goroutines \ {c}, Saving(d) PROVE Applies(d)'
  <2>1. Applies(d) /\ call'[d] = call[d]
    BY <1>2, <1>5, <1>8 DEF AllWillRun, OneCall
  <2> QED BY <1>1, <1>3, <2>1 DEF Applies, SaveSteps, Read, Taken
<1>9. ASSUME NEW i \in Interfaces PROVE WillRun(i)'
  <2>1. WillRun(i) /\ \A d \in Goroutines \ {c} : call'[d] = call[d]
    BY <1>2, <1>5 DEF AllWillRun, OneCall
  <2>2. CASE i # call[c].on
    <3>1. \A d \in Goroutines : call[d].at \in {"query", "ifdown", "reload", "apply"} /\ call[d].on = i
                                  => call'[d] = call[d]
      BY <2>1, <2>2
    <3> QED BY <1>1, <1>3, <2>1, <3>1 DEF WillRun, Read, Taken
  <2>3. CASE i = call[c].on
    BY <1>1, <1>3, <1>5, <2>3 DEF WillRun, Read, Taken
  <2> QED BY <2>2, <2>3
<1> QED BY <1>1, <1>3, <1>4, <1>5, <1>6, <1>7, <1>8, <1>9, SaveFrame

LEMMA ApplyKeeps ==
  ASSUME NetworkFits, NEW c \in Goroutines, ApplyProfile(c)
  PROVE  NetworkFits'
<1> SUFFICES ASSUME NEW i \in Interfaces, i = call[c].on PROVE NetworkFits'
  BY SaveFacts DEF ApplyProfile, On, Saving, ProfileSteps
<1>1. /\ Saving(c) /\ On(c, "apply") /\ End(c) /\ running' = [running EXCEPT ![i] = Applied(i)]
      /\ unfinished' = unfinished \ {x \in {i} : own[x] = call[c].profile}
      /\ UNCHANGED <<file, temp, link, boot, marred, backend, calls, main, dropin, included, own, loaded, draft, unheeded>>
      /\ up' = up \cup {x \in {i} : backend = "ifupdown"}
  BY DEF ApplyProfile, On, Saving, ProfileSteps, ProfileStep, NoIfDown, tunnelVars
<1>2. ProfilesFit /\ Applies(c) /\ AllWillRun /\ CallsFit
      /\ \A d \in Goroutines \ {c} : Saving(d) => call[d].on \in Interfaces
  BY <1>1, SaveFacts DEF NetworkFits
<1>3. OneCall(c) /\ call'[c] = NoCall
  BY <1>1, <1>2, EndEnds
<1>4. /\ backend = "ifupdown" => Applied(i) = IF i \in up THEN running[i] ELSE own[i]
      /\ backend = "systemd-networkd" => Applied(i) = loaded[i]
      /\ backend = "networkmanager" => Applied(i) = own[i]
  BY DEF Applied
<1>5. /\ ProfilesFit' /\ running'[i] = Applied(i)
      /\ \A x \in Interfaces \ {i} : running'[x] = running[x] /\ (x \in unfinished' <=> x \in unfinished)
  BY <1>1, <1>2, <1>4 DEF ProfilesFit
<1>6. ASSUME NEW d \in Goroutines \ {c}, Saving(d) PROVE Applies(d)'
  <2>1. ASSUME NEW x \in Interfaces, Taken(x) PROVE Taken(x)'
    <3>1. CASE backend = "ifupdown" /\ x = i
      BY <1>1, <1>4, <1>5, <2>1, <3>1 DEF Taken
    <3>2. CASE x # i
      BY <1>1, <1>5, <2>1, <3>2 DEF Taken
    <3>3. CASE backend # "ifupdown"
      BY <1>1, <3>3 DEF Taken
    <3> QED BY <3>1, <3>2, <3>3
  <2> QED BY <1>1, <1>3, <1>6, <2>1, Untouched
<1>7. ASSUME NEW x \in Interfaces PROVE WillRun(x)'
  <2>1. CASE x # i
    <3>1. x \in unfinished => x \in unfinished'
      BY <1>1, <2>1
    <3> QED BY <1>1, <1>3, <1>5, <2>1, <3>1, Untouched
  <2>2. CASE x = i /\ i \in unfinished'
    BY <2>2 DEF WillRun
  <2>3. CASE x = i /\ i \in unfinished /\ i \notin unfinished'
    <3>1. own[i] = call[c].profile
      BY <1>1, <2>3
    <3>2. Read(i) /\ Taken(i)
      BY <1>1, <1>2, <3>1 DEF Applies, On
    <3>3. i \in unheeded \/ running'[i] = own[i]
      BY <1>2, <1>4, <1>5, <3>2 DEF Read, Taken, ProfilesFit
    <3> QED BY <1>1, <2>3, <3>2, <3>3 DEF WillRun, Read
  <2>4. CASE x = i /\ i \notin unfinished
    <3>1. WillRun(i) /\ \A d \in Goroutines \ {c} : call'[d] = call[d]
      BY <1>2, <1>3 DEF AllWillRun, OneCall
    <3>2. CASE \E d \in Goroutines : call[d].at \in {"query", "ifdown", "reload"} /\ call[d].on = i
      <4>1. PICK d \in Goroutines : call[d].at \in {"query", "ifdown", "reload"} /\ call[d].on = i
        BY <3>2
      <4>2. call'[d] = call[d]
        BY <1>1, <3>1, <4>1 DEF On
      <4> QED BY <2>4, <4>1, <4>2 DEF WillRun
    <3>3. CASE ~\E d \in Goroutines : call[d].at \in {"query", "ifdown", "reload"} /\ call[d].on = i
      <4>1. i \in unheeded \/ (Read(i) /\ Taken(i))
        BY <2>4, <3>1, <3>3 DEF WillRun, Taken
      <4>2. i \in unheeded \/ (Read(i) /\ running'[i] = own[i])
        BY <1>2, <1>4, <1>5, <4>1 DEF Read, Taken, ProfilesFit
      <4> QED BY <1>1, <2>4, <4>2 DEF WillRun, Read
    <3> QED BY <3>2, <3>3
  <2> QED BY <2>1, <2>2, <2>3, <2>4
<1> QED BY <1>1, <1>3, <1>5, <1>6, <1>7, SaveFrame

LEMMA ProfileFailureKeeps ==
  ASSUME NetworkFits, NEW c \in Goroutines, ProfileCommandFails(c)
  PROVE  NetworkFits'
<1>1. /\ Saving(c) /\ End(c) /\ call[c].at \in {"include", "draft", "profile", "query", "reload", "apply"}
      /\ unfinished' = unfinished \cup {i \in {call[c].on} : call[c].at \in {"query", "reload", "apply"}}
      /\ UNCHANGED <<file, temp, link, boot, marred, backend, calls, main, dropin, included, own, loaded, running, up, unheeded>>
      /\ draft' = IF On(c, "profile") THEN [draft EXCEPT ![call[c].on] = Absent] ELSE draft
  BY DEF ProfileCommandFails, Saving, ProfileSteps, tunnelVars
<1>2. ProfilesFit /\ CallsFit /\ call[c].on \in Interfaces
      /\ \A d \in Goroutines \ {c} : Saving(d) => call[d].on \in Interfaces
  BY <1>1, SaveFacts
<1>3. OneCall(c) /\ call'[c] = NoCall
  BY <1>1, <1>2, EndEnds
<1>4. ProfilesFit' /\ \A i \in Interfaces : draft'[i] = draft[i] \/ draft'[i] = Absent
  BY <1>1, <1>2 DEF ProfilesFit, Profiles
<1>5. ASSUME NEW d \in Goroutines \ {c}, Saving(d) PROVE Applies(d)'
  <2>1. draft'[call[d].on] \in {draft[call[d].on], Absent, call[c].profile}
    BY <1>2, <1>4, <1>5
  <2> QED BY <1>1, <1>3, <1>5, <2>1, Untouched
<1>6. ASSUME NEW i \in Interfaces PROVE WillRun(i)'
  <2>1. i # call[c].on \/ i \in unfinished' \/ call[c].at \in {"check", "include", "draft", "profile"}
    BY <1>1
  <2>2. i \in unfinished => i \in unfinished'
    BY <1>1
  <2> QED BY <1>1, <1>3, <2>1, <2>2, Untouched
<1> QED BY <1>1, <1>3, <1>4, <1>5, <1>6, SaveFrame

LEMMA AskProfileKeeps ==
  ASSUME NetworkFits, NEW c \in Goroutines, NEW i \in Interfaces, AskProfile(c, i)
  PROVE  NetworkFits'
<1>1. /\ call[c] = NoCall /\ calls < MaxCalls /\ calls' = calls + 1
      /\ call' = [call EXCEPT ![c] = [at |-> "check", do |-> "save", on |-> i, profile |-> calls, seen |-> TRUE]]
      /\ UNCHANGED <<file, temp, link, boot, marred, backend, main, dropin, included, own, loaded, draft, running, up, unfinished, unheeded>>
  BY DEF AskProfile, Asked, tunnelVars, profileVars
<1>2. ProfilesFit /\ CallsFit /\ AllWillRun /\ ~OnTunnel(c) /\ ~Saving(c) /\ calls \in 0..MaxCalls
  BY <1>1, OneKind DEF NetworkFits, CallsFit
<1>3. OneCall(c) /\ call'[c] = [at |-> "check", do |-> "save", on |-> i, profile |-> calls, seen |-> TRUE]
  BY <1>1, <1>2 DEF OneCall, CallsFit
<1>4. call'[c].at = "check" /\ call'[c].on = i /\ call'[c].profile = calls
  BY <1>3
<1>5. calls' \in 0..MaxCalls /\ calls < calls'
  BY <1>1, <1>2, NetworkAssumption
<1>6. IsSave(call[c])'
  BY <1>2, <1>3, <1>5 DEF IsSave, ProfileSteps
<1>7. TunnelsFit' /\ CallsFit' /\ AllMidway'
  BY <1>1, <1>2, <1>3, <1>5, <1>6, ProfileFrame
<1>8. ASSUME NEW d \in Goroutines \ {c}, Saving(d)'
      PROVE  Saving(d) /\ call'[d] = call[d] /\ call[d].profile # calls /\ Applies(d)'
  <2>1. Saving(d) /\ call'[d] = call[d]
    BY <1>3, <1>8 DEF OneCall, Saving
  <2>2. IsSave(call[d]) /\ Applies(d)
    BY <1>2, <2>1, OneKind DEF AllWillRun
  <2>3. call[d].profile # calls
    BY <1>2, <2>2 DEF IsSave
  <2> QED BY <1>1, <2>1, <2>2, <2>3 DEF Applies, Read, Taken, SaveSteps
<1>9. Applies(c)'
  <2>1. draft'[i] # calls
    BY <1>1, <1>2, NetworkAssumption DEF ProfilesFit
  <2> QED BY <1>4, <2>1 DEF Applies, SaveSteps
<1>10. ASSUME NEW x \in Interfaces PROVE WillRun(x)'
  <2>1. WillRun(x) /\ \A d \in Goroutines : call[d].at \in {"query", "ifdown", "reload", "apply"} => call'[d] = call[d]
    BY <1>1, <1>2, <1>3 DEF AllWillRun, OneCall, NoCall
  <2> QED BY <1>1, <2>1 DEF WillRun, Read, Taken
<1>11. AllWillRun'
  BY <1>2, <1>4, <1>8, <1>9, <1>10 DEF AllWillRun
<1>12. \A x \in Interfaces : draft'[x] # Absent => draft'[x] < calls'
  BY <1>1, <1>2, NetworkAssumption DEF ProfilesFit, Profiles
<1> QED BY <1>1, <1>2, <1>7, <1>11, <1>12 DEF NetworkFits, ProfilesFit

LEMMA ByHandKeeps ==
  ASSUME NetworkFits, NEW c \in Goroutines, NEW i \in Interfaces, ChangeByHand(c, i)
  PROVE  NetworkFits'
<1>1. /\ call[c] = NoCall /\ calls < MaxCalls /\ calls' = calls + 1
      /\ running' = [running EXCEPT ![i] = Absent] /\ unfinished' = unfinished \cup {i}
      /\ UNCHANGED <<file, temp, link, boot, marred, backend, main, dropin, included, own, loaded, draft, up, call>>
      /\ unheeded' = unheeded \cup {x \in {i} : backend = "ifupdown"}
  BY DEF ChangeByHand, tunnelVars
<1>2. ProfilesFit /\ CallsFit /\ AllWillRun /\ ~OnTunnel(c) /\ calls \in 0..MaxCalls
  BY <1>1, OneKind DEF NetworkFits, CallsFit
<1>3. calls' \in 0..MaxCalls
  BY <1>1, <1>2, NetworkAssumption
<1>4. OneCall(c) /\ call'[c] = NoCall
  BY <1>1, <1>2 DEF OneCall, CallsFit
<1>5. TunnelsFit' /\ CallsFit' /\ AllMidway'
  BY <1>1, <1>2, <1>3, <1>4, ProfileFrame
<1>6. ProfilesFit' /\ running'[i] = Absent /\ \A x \in Interfaces \ {i} : running'[x] = running[x]
  BY <1>1, <1>2 DEF ProfilesFit, Profiles
<1>7. ASSUME NEW d \in Goroutines, Saving(d) PROVE Applies(d)'
  <2>1. Applies(d) /\ call[d].on \in Interfaces
    BY <1>2, <1>7, OneKind DEF AllWillRun, IsSave
  <2> QED BY <1>1, <1>6, <2>1 DEF Applies, Read, Taken, SaveSteps
<1>8. ASSUME NEW x \in Interfaces PROVE WillRun(x)'
  <2>1. WillRun(x)
    BY <1>2 DEF AllWillRun
  <2> QED BY <1>1, <1>6, <2>1 DEF WillRun, Read, Taken
<1>9. AllWillRun'
  BY <1>1, <1>2, <1>7, <1>8 DEF AllWillRun, Saving
<1> QED BY <1>5, <1>6, <1>9 DEF NetworkFits

LEMMA AskTunnelKeeps ==
  ASSUME NetworkFits, NEW c \in Goroutines, NEW t \in Tunnels, NEW do, NEW p \in Peers \cup {Absent},
         do = "peer.add" => p \in Peers, do # "restore", AskTunnel(c, do, t, p)
  PROVE  NetworkFits'
<1>1. /\ call[c] = NoCall /\ calls < MaxCalls /\ calls' = calls + 1 /\ marred' = marred \cup {x \in {t} : Busy(x)}
      /\ call' = [call EXCEPT ![c] = [at |-> "look", do |-> do, on |-> t, p |-> p, key |-> calls,
                                      new |-> Absent, old |-> Absent]]
      /\ UNCHANGED <<file, temp, link, boot, backend, main, dropin, included, own, loaded, draft, running, up, unfinished,
                     unheeded>>
  BY DEF AskTunnel, Asked, profileVars
<1>2. ProfilesFit /\ TunnelsFit /\ CallsFit /\ AllMidway /\ AllWillRun /\ ~OnTunnel(c) /\ ~Saving(c)
      /\ calls \in 0..MaxCalls
  BY <1>1, OneKind DEF NetworkFits, CallsFit
<1>3. OneCall(c) /\ call'[c] = [at |-> "look", do |-> do, on |-> t, p |-> p, key |-> calls,
                                new |-> Absent, old |-> Absent]
  BY <1>1, <1>2 DEF OneCall, CallsFit
<1>4. call'[c].at = "look" /\ call'[c].on = t /\ call'[c].do = do
  BY <1>3
<1>5. IsTunnelCall(call'[c])
  BY <1>2, <1>3 DEF IsTunnelCall, TunnelSteps, Conf
<1>6. calls' \in 0..MaxCalls /\ \A n \in Nat : n < calls => n < calls'
  BY <1>1, <1>2, NetworkAssumption
<1>7. ASSUME NEW d \in Goroutines, d # c
      PROVE  /\ call'[d] = call[d] /\ OnTunnel(d)' = OnTunnel(d) /\ Saving(d)' = Saving(d) /\ Tunnel(d)' = Tunnel(d)
             /\ IsSave(call[d]) => IsSave(call[d])'
  BY <1>3, <1>6, <1>7, NetworkAssumption DEF OneCall, OnTunnel, Saving, Tunnel, IsSave
<1>8. CallsFit'
  BY <1>2, <1>3, <1>5, <1>6, <1>7 DEF CallsFit, OneCall
<1>9. OnTunnel(c)' /\ Tunnel(c)' = t /\ ~Saving(c)'
  BY <1>4, <1>5, KindOf DEF OnTunnel, Saving, Tunnel
<1>10. AllMidway'
  <2>1. ASSUME NEW x \in Tunnels \ marred'
        PROVE  x \in Tunnels \ marred /\ (Settled(x)' <=> Settled(x))
    BY <1>1, <2>1 DEF Settled
  <2>2. ASSUME NEW x \in Tunnels \ marred', NEW d \in Goroutines, d # c, OnTunnel(d), Tunnel(d) = x
        PROVE  Midway(call[d], x)'
    <3>1. call'[d] = call[d] /\ Midway(call[d], x)
      BY <1>2, <1>7, <2>1, <2>2 DEF AllMidway
    <3> QED BY <1>1, <3>1 DEF Settled, Midway, Written, Changed, Down
  <2>3. ASSUME t \notin marred', NEW d \in Goroutines PROVE ~(OnTunnel(d) /\ Tunnel(d) = t)
    <3>1. ~Busy(t)
      BY <1>1, <2>3
    <3> QED BY <1>2, <3>1, OneKind DEF Busy, Tunnel
  <2>4. ASSUME t \notin marred' PROVE Settled(t)'
    BY <1>2, <2>1, <2>3, <2>4 DEF AllMidway
  <2>5. ASSUME t \notin marred' PROVE Midway(call[c], t)'
    BY <1>4, <2>4, <2>5 DEF Midway
  <2>6. ASSUME NEW x \in Tunnels \ marred', x = t
        PROVE  /\ \A d \in Goroutines : OnTunnel(d)' /\ Tunnel(d)' = x => d = c
               /\ Midway(call[c], x)'
    BY <1>7, <2>3, <2>5, <2>6
  <2>7. ASSUME NEW x \in Tunnels \ marred', x # t
        PROVE  \A d \in Goroutines : OnTunnel(d)' /\ Tunnel(d)' = x <=> OnTunnel(d) /\ Tunnel(d) = x
    BY <1>2, <1>7, <1>9, <2>7
  <2>8. ASSUME NEW x \in Tunnels \ marred', x # t
        PROVE  /\ \A d, e \in Goroutines : OnTunnel(d)' /\ OnTunnel(e)' /\ Tunnel(d)' = x /\ Tunnel(e)' = x => d = e
               /\ \A d \in Goroutines : OnTunnel(d)' /\ Tunnel(d)' = x => Midway(call[d], x)'
               /\ (\A d \in Goroutines : ~(OnTunnel(d)' /\ Tunnel(d)' = x)) => Settled(x)'
    BY <1>2, <2>1, <2>2, <2>7, <2>8 DEF AllMidway
  <2>9. ASSUME NEW x \in Tunnels \ marred', x = t
        PROVE  /\ \A d, e \in Goroutines : OnTunnel(d)' /\ OnTunnel(e)' /\ Tunnel(d)' = x /\ Tunnel(e)' = x => d = e
               /\ \A d \in Goroutines : OnTunnel(d)' /\ Tunnel(d)' = x => Midway(call[d], x)'
               /\ (\A d \in Goroutines : ~(OnTunnel(d)' /\ Tunnel(d)' = x)) => Settled(x)'
    BY <1>9, <2>6, <2>9
  <2> QED BY <2>8, <2>9 DEF AllMidway
<1>11. AllWillRun'
  <2>1. ASSUME NEW d \in Goroutines, Saving(d)' PROVE Saving(d) /\ call'[d] = call[d] /\ Applies(d)'
    <3>1. Saving(d) /\ call'[d] = call[d] /\ Applies(d)
      BY <1>2, <1>7, <1>9, <2>1 DEF AllWillRun
    <3> QED BY <1>1, <3>1 DEF Applies, Read, Taken, SaveSteps
  <2>2. ASSUME NEW i \in Interfaces PROVE WillRun(i)'
    <3>1. \A d \in Goroutines : call[d].at \in {"query", "ifdown", "reload", "apply"} => call'[d] = call[d]
      BY <1>2, <1>7 DEF Saving, ProfileSteps
    <3> QED BY <1>1, <1>2, <3>1 DEF AllWillRun, WillRun, Read, Taken
  <2> QED BY <1>2, <2>1, <2>2 DEF AllWillRun
<1>12. \A x \in Interfaces : draft'[x] # Absent => draft'[x] < calls'
  BY <1>1, <1>2, NetworkAssumption DEF ProfilesFit, Profiles
<1> QED BY <1>1, <1>2, <1>8, <1>10, <1>11, <1>12 DEF NetworkFits, ProfilesFit, TunnelsFit

LEMMA TunnelFailureKeeps ==
  ASSUME NetworkFits, NEW c \in Goroutines, TunnelCommandFails(c) \/ UnheededFailure(c)
  PROVE  NetworkFits'
<1>a. OnTunnel(c)
  BY DEF TunnelCommandFails, UnheededFailure, OnTunnel, TunnelSteps
<1> SUFFICES ASSUME NEW t \in Tunnels, t = Tunnel(c) PROVE NetworkFits'
  BY <1>a, TunnelFacts
<1>1. IsTunnelCall(call[c]) /\ TunnelsFit /\ CallsFit /\ (t \notin marred => Midway(call[c], t))
  BY <1>a, TunnelFacts
<1>2. /\ UNCHANGED <<file, link, boot, profileVars, backend, calls>> /\ marred \subseteq marred' /\ marred' \subseteq Tunnels
      /\ UNCHANGED <<main, dropin, included, own, loaded, draft, running, up, unfinished, unheeded>>
  BY <1>1 DEF TunnelCommandFails, UnheededFailure, profileVars, TunnelsFit
<1>3. CASE TunnelCommandFails(c) /\ ~On(c, "rename")
  <2>1. OnError(c) /\ UNCHANGED temp
    BY <1>3 DEF TunnelCommandFails
  <2>2. On(c, "set") \/ On(c, "up") \/ On(c, "down") \/ On(c, "remove")
        \/ (On(c, "temp") /\ (t \notin marred' => ~Is(c, {"restore"})))
    BY <1>3 DEF TunnelCommandFails, On
  <2> QED BY <1>a, <1>2, <2>1, <2>2, ErrorKeeps
<1>4. CASE TunnelCommandFails(c) /\ On(c, "rename")
  <2>1. End(c) /\ temp' = [temp EXCEPT ![t] = Absent] /\ (t \notin marred' => ~Is(c, {"restore"}))
    BY <1>4 DEF TunnelCommandFails
  <2>2. TunnelsFit' /\ \A x \in Tunnels \ {t} : temp'[x] = temp[x]
    BY <1>1, <1>2, <2>1 DEF TunnelsFit, Conf
  <2>3. OneCall(c) /\ call'[c] = NoCall
    BY <1>1, <2>1, EndEnds
  <2>4. t \notin marred' => Settled(t)
    BY <1>1, <1>2, <1>4, <2>1 DEF Midway, On, Written, Is
  <2>5. t \notin marred' => Settled(t)'
    BY <1>2, <2>4 DEF Settled
  <2> QED BY <1>a, <1>1, <1>2, <2>2, <2>3, <2>5, TunnelFrame
<1>5. CASE UnheededFailure(c)
  <2>1. UNCHANGED temp /\ t \in marred' /\ (Goto(c, "disable") \/ Goto(c, "remove") \/ End(c))
    BY <1>5 DEF UnheededFailure
  <2>2. TunnelsFit'
    BY <1>1, <1>2, <2>1 DEF TunnelsFit
  <2>3. CASE End(c)
    <3>1. OneCall(c) /\ call'[c] = NoCall
      BY <1>1, <2>3, EndEnds
    <3> QED BY <1>a, <1>1, <1>2, <2>1, <2>2, <3>1, TunnelFrame
  <2>4. CASE Goto(c, "disable") \/ Goto(c, "remove")
    <3>a. "disable" \in TunnelSteps /\ "remove" \in TunnelSteps
      BY DEF TunnelSteps
    <3>1. OneCall(c) /\ IsTunnelCall(call'[c]) /\ call'[c].on = t
      BY <1>a, <2>4, <3>a, GoesOn
    <3> QED BY <1>a, <1>1, <1>2, <2>1, <2>2, <3>1, TunnelFrame
  <2> QED BY <2>1, <2>3, <2>4
<1> QED BY <1>3, <1>4, <1>5

(* Nobody works on what is not cut off.                                    *)
LEMMA NoneBusy ==
  ASSUME NetworkFits, NEW x, ~Busy(x)
  PROVE  \A c \in Goroutines : OnTunnel(c) \/ Saving(c) => call[c].on # x
BY OneKind DEF NetworkFits, Busy

LEMMA CutOffKeeps ==
  ASSUME NetworkFits, HelperDies \/ Reboot
  PROVE  NetworkFits'
<1>1. /\ call' = [c \in Goroutines |-> NoCall] /\ marred' = marred \cup CutOff(Tunnels)
      /\ UNCHANGED <<file, temp, boot, backend, main, dropin, included, own, draft, calls>>
  BY DEF HelperDies, Reboot
<1>2. ProfilesFit /\ TunnelsFit /\ CallsFit /\ AllMidway /\ AllWillRun
  BY DEF NetworkFits
<1>3. \A c \in Goroutines : call'[c] = NoCall /\ ~OnTunnel(c)' /\ ~Saving(c)'
  BY <1>1, KindOf DEF OnTunnel, Saving
<1>4. CallsFit'
  BY <1>1, <1>2, <1>3 DEF CallsFit
<1>5. ASSUME NEW t \in Tunnels \ marred' PROVE Settled(t)
  <2>1. t \in Tunnels \ marred /\ ~Busy(t)
    BY <1>1, <1>5 DEF CutOff
  <2> QED BY <1>2, <2>1, NoneBusy DEF AllMidway, Tunnel
<1>6. link' \in [Tunnels -> Conf] /\ \A t \in Tunnels \ marred' : Settled(t)'
  <2>1. CASE HelperDies
    BY <1>1, <1>2, <1>5, <2>1 DEF HelperDies, Settled, TunnelsFit
  <2>2. CASE Reboot
    BY <1>1, <1>2, <1>5, <2>2 DEF Reboot, Settled, TunnelsFit, Conf
  <2> QED BY <2>1, <2>2
<1>7. TunnelsFit' /\ AllMidway'
  BY <1>1, <1>2, <1>3, <1>6 DEF TunnelsFit, AllMidway, CutOff
<1>8. ProfilesFit' /\ \A i \in Interfaces : WillRun(i)'
  <2>1. CASE HelperDies
    <3>1. unfinished' = unfinished \cup CutOff(Interfaces) /\ UNCHANGED <<loaded, running, up, unheeded>>
      BY <2>1 DEF HelperDies
    <3>2. ASSUME NEW i \in Interfaces, i \notin unfinished', i \notin unheeded'
          PROVE  running[i] = own[i] /\ Read(i)
      <4>1. ~Busy(i) /\ i \notin unfinished \cup unheeded /\ WillRun(i)
        BY <1>2, <3>1, <3>2 DEF CutOff, AllWillRun
      <4> QED BY <4>1, NoneBusy DEF WillRun, Saving, ProfileSteps
    <3> QED BY <1>1, <1>2, <3>1, <3>2 DEF ProfilesFit, WillRun, Read, CutOff
  <2>2. CASE Reboot
    BY <1>1, <1>2, <2>2 DEF Reboot, ProfilesFit, WillRun, Read
  <2> QED BY <2>1, <2>2
<1>9. AllWillRun'
  BY <1>3, <1>8 DEF AllWillRun
<1> QED BY <1>4, <1>7, <1>8, <1>9 DEF NetworkFits

LEMMA NetworkSteps ==
  ASSUME NetworkFits, NetworkNext
  PROVE  NetworkFits'
<1>1. ASSUME NEW c \in Goroutines, OfTunnel(c) PROVE NetworkFits'
  <2>1. ASSUME NEW t \in Tunnels, NEW p \in Peers, NEW do \in {"peer.add", "peer.delete"}, AskTunnel(c, do, t, p)
        PROVE  NetworkFits'
    <3>1. do # "restore"
      BY DEF PeerChanges
    <3> QED BY <2>1, <3>1, AskTunnelKeeps
  <2>2. ASSUME NEW t \in Tunnels, NEW do \in {"create", "up", "down", "delete"}, AskTunnel(c, do, t, Absent)
        PROVE  NetworkFits'
    <3>1. do # "restore" /\ do # "peer.add"
      OBVIOUS
    <3> QED BY <2>2, <3>1, AskTunnelKeeps
  <2>3. ASSUME Look(c) \/ WriteConfTemp(c) \/ RenameTemp(c) \/ Active(c) \/ SetPeer(c) \/ BringUp(c)
               \/ UnlinkFile(c) \/ TakeDown(c) \/ EnableService(c) \/ DisableService(c) \/ RemoveFile(c)
        PROVE  NetworkFits'
    BY <2>3, LookKeeps, WriteTempKeeps, RenameKeeps, ActiveKeeps, SetPeerKeeps, BringUpKeeps, TakeDownKeeps,
       ServiceKeeps, RemoveKeeps
  <2> QED BY <1>1, <2>1, <2>2, <2>3 DEF OfTunnel
<1>2. ASSUME NEW c \in Goroutines, OfProfile(c) PROVE NetworkFits'
  BY <1>2, AskProfileKeeps, ByHandKeeps, CheckKeeps, IncludeKeeps, DraftKeeps, WriteKeeps, QueryKeeps, IfDownKeeps,
     ReloadKeeps, ApplyKeeps DEF OfProfile
<1> QED BY <1>1, <1>2, TunnelFailureKeeps, ProfileFailureKeeps, CutOffKeeps DEF NetworkNext

LEMMA NetworkStutters ==
  ASSUME NetworkFits, UNCHANGED networkVars
  PROVE  NetworkFits'
<1>1. UNCHANGED <<file, temp, link, boot, marred, main, dropin, included, own, loaded, draft, running, up, unfinished,
                  unheeded, backend, call, calls>>
  BY DEF networkVars, tunnelVars, profileVars
<1> QED BY <1>1 DEF NetworkFits, TunnelsFit, ProfilesFit, CallsFit, IsSave, AllMidway, OnTunnel, Tunnel, Midway,
                    Settled, Down, Written, Changed, AllWillRun, Saving, Applies, WillRun, Read, Taken, SaveSteps

(* What a state that fits promises.                                        *)
LEMMA FitsPromise == NetworkFits => NetworkTypeOK /\ TunnelIsItsFile /\ ProfileIsApplied
<1> SUFFICES ASSUME NetworkFits PROVE NetworkTypeOK /\ TunnelIsItsFile /\ ProfileIsApplied
  OBVIOUS
<1>1. NetworkTypeOK
  <2>1. ASSUME NEW c \in Goroutines, call[c] # NoCall
        PROVE  call[c].on \in Tunnels \/ (call[c].on \in Interfaces /\ call[c].at \in SaveSteps)
    <3>1. CASE OnTunnel(c)
      BY <3>1, OneKind DEF NetworkFits, IsTunnelCall
    <3>2. CASE Saving(c)
      BY <3>2, SaveFacts DEF Applies
    <3> QED BY <2>1, <3>1, <3>2, OneKind DEF NetworkFits
  <2> QED BY <2>1 DEF NetworkFits, TunnelsFit, ProfilesFit, NetworkTypeOK
<1>2. ASSUME NEW t \in Tunnels \ marred, ~Busy(t) PROVE Settled(t)
  BY <1>2, NoneBusy DEF NetworkFits, AllMidway, Tunnel
<1>3. ASSUME NEW i \in Interfaces \ (unfinished \cup unheeded), ~Busy(i) PROVE running[i] = own[i]
  <2>1. WillRun(i)
    BY DEF NetworkFits, AllWillRun
  <2> QED BY <1>3, <2>1, NoneBusy DEF WillRun, Saving, ProfileSteps
<1> QED BY <1>1, <1>2, <1>3 DEF TunnelIsItsFile, ProfileIsApplied, Settled

LEMMA StanzaIsAlone ==
  ASSUME NetworkFits, [NetworkNext]_networkVars, NEW i \in Interfaces, own'[i] # own[i]
  PROVE  /\ i \notin main
         /\ i \in dropin => \E c \in Goroutines : On(c, "profile") /\ call[c].on = i /\ ~call[c].seen
<1>1. own' # own
  OBVIOUS
<1>2. NetworkNext /\ \A c \in Goroutines : ~OfTunnel(c) /\ ~TunnelCommandFails(c) /\ ~UnheededFailure(c)
  BY <1>1 DEF networkVars, profileVars, OfTunnel, AskTunnel, Look, WriteConfTemp, RenameTemp, Active, SetPeer, BringUp,
              UnlinkFile, TakeDown, EnableService, DisableService, RemoveFile, TunnelStep, TunnelCommandFails,
              UnheededFailure
<1>3. ~HelperDies /\ ~Reboot
  BY <1>1 DEF HelperDies, Reboot
<1>4. ASSUME NEW c \in Goroutines
      PROVE  /\ ~ProfileCommandFails(c) /\ ~CheckOwnership(c) /\ ~EnsureInclude(c) /\ ~QueryProfile(c) /\ ~IfDown(c)
             /\ ~WriteDraft(c) /\ ~IfDownFails(c)
             /\ ~ReloadNetworkd(c) /\ ~ApplyProfile(c) /\ \A x \in Interfaces : ~AskProfile(c, x) /\ ~ChangeByHand(c, x)
  BY <1>1 DEF ProfileCommandFails, CheckOwnership, EnsureInclude, QueryProfile, IfDown, WriteDraft, IfDownFails, ReloadNetworkd,
              ApplyProfile, AskProfile, ChangeByHand, profileVars
<1>5. PICK c \in Goroutines : WriteProfile(c)
  BY <1>2, <1>3, <1>4 DEF NetworkNext, OfProfile
<1>6. Saving(c) /\ On(c, "profile") /\ \E new \in {call[c].profile, draft[call[c].on]} :
                                          own' = [own EXCEPT ![call[c].on] = new]
  BY <1>1, <1>5 DEF WriteProfile, On, Saving, ProfileSteps
<1>7. Applies(c) /\ ProfilesFit
  BY <1>6, SaveFacts
<1>8. i = call[c].on
  BY <1>6, <1>7 DEF ProfilesFit
<1> QED BY <1>6, <1>7, <1>8 DEF Applies, On

(* Whatever calls to the helper interleave, fail or are cut off by its     *)
(* death or a boot: a tunnel runs what its file says, an interface the     *)
(* profile that was saved last, and no profile is written beside a stanza  *)
(* of others that was there to be seen (network_ops.go,                    *)
(* network_profiles.go, ifupdown_profiles.go).                             *)
THEOREM NetworkIsKept == NetworkSpec => NetworkIsAsSaved
<1>1. NetworkFits /\ [NetworkNext]_networkVars => NetworkFits'
  BY NetworkSteps, NetworkStutters
<1>2. NetworkFits => NetworkTypeOK /\ TunnelIsItsFile /\ ProfileIsApplied
  BY FitsPromise
<1>3. NetworkFits /\ [NetworkNext]_networkVars =>
        [\A i \in Interfaces : own'[i] # own[i] =>
           /\ i \notin main
           /\ i \in dropin => \E c \in Goroutines : On(c, "profile") /\ call[c].on = i /\ ~call[c].seen]_networkVars
  BY StanzaIsAlone
<1> QED BY NetworkStarts, <1>1, <1>2, <1>3, PTL DEF NetworkSpec, NetworkIsAsSaved, NoSecondStanza
==============================================================================
