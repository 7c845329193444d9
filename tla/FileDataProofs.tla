----------------------------- MODULE FileDataProofs ---------------------------
(***************************************************************************)
(* Proofs about the files of the NAS folders (FileData), for any number of *)
(* paths, uploads, entries of the trash, versions and callers, and about   *)
(* the Windows client that copies a file to them (FileSync).               *)
(***************************************************************************)
EXTENDS FileSync, FiniteSetTheorems, TLAPS

-----------------------------------------------------------------------------
(* What is visible or in the trash is one whole version.                   *)
FilesFit ==
  /\ tree \in [Paths -> {None} \cup Content]
  /\ item \in [TrashIds -> {None} \cup Content]
  /\ origin \in [TrashIds -> Paths \cup {None}]

(* What a session has recorded fits in it, and is in order unless the      *)
(* checksum of the whole will tell.                                        *)
RecordFits(u) ==
  meta[u] # None =>
    /\ Len(meta[u].got) <= Size[meta[u].of]
    /\ ~meta[u].sum => \A i \in 1..Len(meta[u].got) : meta[u].got[i] = <<meta[u].of, i>>
UploadFits(u) == RecordFits(u) /\ (Listed(u) => part[u] = meta[u].got)
UploadsFit ==
  /\ part \in [Uploads -> {None} \cup Seq(Blocks)]
  /\ meta \in [Uploads -> {None} \cup UploadSession]
  /\ \A u \in Uploads : UploadFits(u)

(* What the mutation under way has read still holds: nobody else touches   *)
(* uploads and trash, and what appears where it will write came over SMB.  *)
Deeds == {"idle", "create", "chunk", "complete", "cancel", "put", "move", "trash", "restore",
          "purge"}
Vacant(p) == tree[p] # None => p \in intruded
CreateFits ==
  /\ op.id \in Uploads /\ op.path \in Paths /\ op.of \in Versions /\ meta[op.id] = None
  /\ op.do = "create" => op.to \in BOOLEAN
  /\ part[op.id] = IF op.at = "first" THEN None
                   ELSE IF op.do = "create" THEN <<>> ELSE Whole(op.of)
ChunkFits ==
  /\ op.id \in Uploads /\ meta[op.id] # None /\ op.of \in Blocks
  /\ op.of[2] = Len(meta[op.id].got) + 1 /\ op.of[2] <= Size[meta[op.id].of]
  /\ ~meta[op.id].sum => op.of[1] = meta[op.id].of
  /\ part[op.id] = IF op.at = "first" THEN meta[op.id].got ELSE Append(meta[op.id].got, op.of)
CompleteFits ==
  /\ op.id \in Uploads /\ op.path \in Paths
  /\ op.at = "first" => Listed(op.id) /\ Missing(op.id) = 0 /\ part[op.id] \in Content
  /\ op.at = "last" => part[op.id] = None
CancelFits ==
  /\ op.id \in Uploads
  /\ op.at = "first" => Listed(op.id)
  /\ op.at = "last" => part[op.id] = None
MoveFits   ==
  /\ op.id = None /\ op.path \in Paths /\ op.to \in Paths
  /\ op.at = "first" /\ Vacant(op.to)
TrashFits  ==
  /\ op.id \in TrashIds /\ op.path \in Paths /\ origin[op.id] = None
  /\ op.at = "first" => item[op.id] = None
  /\ op.at = "last" => item[op.id] # None /\ Vacant(op.path)
RestoreFits ==
  /\ op.id \in TrashIds /\ op.path \in Paths
  /\ op.at = "first" => InTrash(op.id) /\ Vacant(op.path)
  /\ op.at = "last" => item[op.id] = None
PurgeFits ==
  /\ op.id \in TrashIds
  /\ op.at = "first" => InTrash(op.id)
  /\ op.at = "last" => item[op.id] = None
OpFits ==
  /\ op.do = "idle" => op = Idle
  /\ op.do \in {"create", "put"} => CreateFits
  /\ op.do = "chunk"    => ChunkFits
  /\ op.do = "complete" => CompleteFits
  /\ op.do = "cancel"   => CancelFits
  /\ op.do = "move"     => MoveFits
  /\ op.do = "trash"    => TrashFits
  /\ op.do = "restore"  => RestoreFits
  /\ op.do = "purge"    => PurgeFits

(* The types of the rest.                                                  *)
Answers == {"none", "ok", "missing", "conflict", "full", "failed", "lost"}
RestFits ==
  /\ op \in [do : Deeds, at : {"first", "last"}, by : Callers \cup {None}, path : {op.path},
             to : {op.to}, id : Uploads \cup TrashIds \cup {None}, of : {op.of}]
  /\ quota \in [Caps -> Quotas \cup {0}] /\ reserve \in Reserves /\ raised \in BOOLEAN
  /\ said \in [Callers -> Answers]
  /\ intruded \subseteq Paths /\ cuts \in Nat /\ intrusions \in Nat

HalvesFit == IsFiniteSet(Halves) /\ HalvesAreCuts

(* The inductive invariant.                                                *)
FilesInv == FilesFit /\ UploadsFit /\ OpFits /\ RestFits /\ HalvesFit

(* An upload and an entry of the trash lie in the folder of their path.    *)
HomesFit ==
  /\ \A u \in Uploads : meta[u] # None => FolderOf[meta[u].path] = FolderOf[u]
  /\ \A t \in TrashIds : origin[t] # None => FolderOf[origin[t]] = FolderOf[t]
  /\ op.do \in {"create", "put", "complete", "trash", "restore"} => FolderOf[op.id] = FolderOf[op.path]
  /\ op.do = "move" => FolderOf[op.to] = FolderOf[op.path]

(* What the mutation under way has yet to write, or to promise again, to   *)
(* the pool and to a folder or a user.                                     *)
Ahead ==
  IF op.do = "create" \/ (op.do = "put" /\ op.at = "first") THEN Size[op.of]
  ELSE IF op.do = "chunk" /\ op.at = "last" THEN Missing(op.id) - 1 ELSE 0
AheadIn(f) ==
  IF op.do \in {"create", "put"} /\ FolderOf[op.id] \in f THEN Size[op.of]
  ELSE IF op.do = "chunk" /\ op.at = "last" /\ FolderOf[op.id] \in f THEN Size[meta[op.id].of] ELSE 0
(* What the pool holds, or what a cap counts, with what was promised.      *)
PoolUse ==
  Cardinality(Held(tree)) + Cardinality(Held(part)) + Cardinality(Held(item))
  + Cardinality(Promised(Sessions)) + Ahead
CapUse(f) == Used(f) + Reserved(f) + AheadIn(f)
(* Nobody was promised anything that has still to come.                    *)
Promising  == {"create", "put", "chunk", "complete", "cancel"}
Unpromised == Sessions = {} /\ op.do \notin Promising
SpaceFits ==
  intrusions = 0 /\ ~raised =>
    /\ Unpromised \/ PoolUse <= Capacity - reserve
    /\ \A f \in Caps : quota[f] = 0 \/ CapUse(f) <= quota[f]

(* As long as nobody writes over SMB or raises the reserve.                *)
SpaceInv == FilesInv /\ HomesFit /\ SpaceFits

-----------------------------------------------------------------------------
(* A whole version is stored, and is not the mark of nothing.              *)
LEMMA WholesAreStored ==
  ASSUME NEW v \in Versions
  PROVE  /\ Whole(v) \in Content /\ Whole(v) \in Seq(Blocks) /\ Whole(v) # None
         /\ Len(Whole(v)) = Size[v]
<1>1. Size[v] \in Nat
  BY FileAssumption
<1>2. \A i \in 1..Size[v] : <<v, i>> \in Blocks
  BY DEF Blocks
<1>3. Whole(v) \in [1..Size[v] -> Blocks]
  BY <1>2 DEF Whole
<1>4. Whole(v) \in Seq(Blocks) /\ Len(Whole(v)) = Size[v]
  BY <1>1, <1>3
<1> QED BY <1>4, FileAssumption DEF Content

(* The same of every content.                                              *)
LEMMA ContentsAreStored ==
  ASSUME NEW c \in Content
  PROVE  c \in Seq(Blocks) /\ c # None
BY WholesAreStored DEF Content

(* A session that was recorded in order and to its last block, or whose    *)
(* checksum was compared, has received one whole version.                  *)
LEMMA CompleteIsWhole ==
  ASSUME UploadsFit, NEW u \in Uploads, Listed(u), Missing(u) = 0, Checked(u)
  PROVE  part[u] \in Content
<1>1. /\ meta[u] \in UploadSession /\ part[u] = meta[u].got /\ RecordFits(u)
      /\ meta[u].of \in Versions /\ meta[u].got \in Seq(Blocks) /\ meta[u].sum \in BOOLEAN
      /\ meta[u] # None
  BY DEF UploadsFit, UploadFits, Listed, UploadSession
<1>2. CASE meta[u].sum
  BY <1>1, <1>2, WholesAreStored DEF Checked
<1>3. CASE ~meta[u].sum
  <2>1. Size[meta[u].of] \in Nat /\ Len(meta[u].got) \in Nat
    BY <1>1, FileAssumption
  <2>2. Len(meta[u].got) = Size[meta[u].of]
    BY <2>1 DEF Missing
  <2>3. DOMAIN meta[u].got = 1..Size[meta[u].of]
    BY <1>1, <2>2
  <2>4. \A i \in 1..Size[meta[u].of] : meta[u].got[i] = <<meta[u].of, i>>
    BY <1>1, <1>3, <2>2 DEF RecordFits
  <2>5. meta[u].got = [i \in DOMAIN meta[u].got |-> meta[u].got[i]]
    BY <1>1
  <2>6. meta[u].got = Whole(meta[u].of)
    BY <2>3, <2>4, <2>5 DEF Whole
  <2> QED BY <1>1, <2>6, WholesAreStored
<1> QED BY <1>2, <1>3

-----------------------------------------------------------------------------
(* What a step leaves alone stays as it is.                                *)

(* Every upload but one is untouched.                                      *)
LEMMA UploadsStay ==
  ASSUME UploadsFit, NEW u, u \in Uploads => UploadFits(u)',
         part' \in [Uploads -> {None} \cup Seq(Blocks)],
         meta' \in [Uploads -> {None} \cup UploadSession],
         \A w \in Uploads : w # u => part'[w] = part[w] /\ meta'[w] = meta[w]
  PROVE  UploadsFit'
<1>1. ASSUME NEW w \in Uploads, w # u
      PROVE  UploadFits(w)'
  <2>1. part'[w] = part[w] /\ meta'[w] = meta[w] /\ UploadFits(w)
    BY <1>1 DEF UploadsFit
  <2> QED BY <2>1 DEF UploadFits, RecordFits, Listed
<1> QED BY <1>1 DEF UploadsFit

(* No upload is touched.                                                   *)
LEMMA UploadsSame ==
  ASSUME UploadsFit, part' = part, meta' = meta
  PROVE  UploadsFit'
BY DEF UploadsFit, UploadFits, RecordFits, Listed

(* Only what the mutation works on is touched.                             *)
OnlyMine ==
  /\ \A u \in Uploads : u # op.id => part'[u] = part[u] /\ meta'[u] = meta[u]
  /\ \A t \in TrashIds : t # op.id => item'[t] = item[t] /\ origin'[t] = origin[t]
(* It is no half of anything.                                              *)
Settled(x) ==
  /\ x \in Uploads => Unused(x) \/ Listed(x)
  /\ x \in TrashIds => InTrash(x) \/ (item[x] = None /\ origin[x] = None)

(* Nothing but what the mutation works on becomes a half.                  *)
LEMMA HalvesGrow ==
  ASSUME FilesInv, OnlyMine, NEW x, x = op.id
  PROVE  /\ Halves' \subseteq Halves \cup {x}
         /\ op'.id = x \/ Settled(x)' => Halves' \subseteq Halves
<1>1. ASSUME NEW u \in Uploads, u # op.id
      PROVE  (~Unused(u) /\ ~Listed(u))' => ~Unused(u) /\ ~Listed(u)
  BY <1>1 DEF OnlyMine, Unused, Listed
<1>2. ASSUME NEW t \in TrashIds, t # op.id
      PROVE  /\ item'[t] = item[t] /\ origin'[t] = origin[t] /\ (InTrash(t)' <=> InTrash(t))
  BY <1>2 DEF OnlyMine, InTrash
<1>3. ASSUME NEW y \in Halves', y # op.id
      PROVE  y \in Halves
  <2>1. CASE y \in Uploads /\ (~Unused(y) /\ ~Listed(y))'
    BY <1>1, <1>3, <2>1 DEF Halves
  <2>2. CASE y \in TrashIds /\ (~InTrash(y) /\ (item[y] # None \/ origin[y] # None))'
    BY <1>2, <1>3, <2>2 DEF Halves
  <2> QED BY <1>3, <2>1, <2>2 DEF Halves
<1>4. ASSUME op'.id = x \/ Settled(x)'
      PROVE  x \notin Halves'
  BY <1>4 DEF Halves, Settled
<1> QED BY <1>3, <1>4

(* Nothing is left a half.                                                 *)
LEMMA NothingHalf ==
  ASSUME FilesInv, OnlyMine, NEW x, x = op.id, op'.id = x \/ Settled(x)', cuts' = cuts
  PROVE  HalvesFit'
<1>1. Halves' \subseteq Halves
  BY HalvesGrow
<1>2. IsFiniteSet(Halves) /\ Cardinality(Halves) <= cuts /\ cuts \in Nat
  BY DEF FilesInv, HalvesFit, HalvesAreCuts, RestFits
<1>3. IsFiniteSet(Halves') /\ Cardinality(Halves') <= Cardinality(Halves)
  BY <1>1, <1>2, FS_Subset
<1>4. Cardinality(Halves) \in Nat /\ Cardinality(Halves') \in Nat
  BY <1>2, <1>3, FS_CardinalityType
<1> QED BY <1>2, <1>3, <1>4 DEF HalvesFit, HalvesAreCuts

(* A failure leaves one half more at most.                                 *)
LEMMA OneHalfMore ==
  ASSUME FilesInv, OnlyMine, cuts' = cuts + 1
  PROVE  HalvesFit'
<1>1. Halves' \subseteq Halves \cup {op.id}
  BY HalvesGrow
<1>2. IsFiniteSet(Halves) /\ Cardinality(Halves) <= cuts /\ cuts \in Nat
  BY DEF FilesInv, HalvesFit, HalvesAreCuts, RestFits
<1>3. /\ IsFiniteSet(Halves \cup {op.id}) /\ Cardinality(Halves) \in Nat
      /\ Cardinality(Halves \cup {op.id}) <= Cardinality(Halves) + 1
  <2>1. Cardinality(Halves) \in Nat
    BY <1>2, FS_CardinalityType
  <2> QED BY <1>2, <2>1, FS_AddElement
<1>4. /\ IsFiniteSet(Halves') /\ Cardinality(Halves') \in Nat
      /\ Cardinality(Halves \cup {op.id}) \in Nat
      /\ Cardinality(Halves') <= Cardinality(Halves \cup {op.id})
  BY <1>1, <1>3, FS_Subset, FS_CardinalityType
<1> QED BY <1>2, <1>3, <1>4 DEF HalvesFit, HalvesAreCuts

(* A mutation that goes on is the same one.                                *)
LEMMA GoingOn ==
  ASSUME FilesInv, GoOn("last")
  PROVE  /\ RestFits' /\ cuts' = cuts /\ intruded' = intruded
         /\ op'.at = "last" /\ op'.do = op.do /\ op'.by = op.by /\ op'.path = op.path
         /\ op'.to = op.to /\ op'.id = op.id /\ op'.of = op.of
BY DEF FilesInv, RestFits, GoOn, policy, budget

(* A mutation that is answered leaves nothing under way.                   *)
LEMMA Answering ==
  ASSUME FilesInv, NEW why \in Answers, Answer(why), cuts' = cuts \/ cuts' = cuts + 1
  PROVE  OpFits' /\ RestFits'
<1>1. said' \in [Callers -> Answers]
  BY DEF Answer, Tell, FilesInv, RestFits
<1>2. /\ op' = Idle /\ UNCHANGED <<quota, reserve, raised>> /\ intruded' = intruded
      /\ intrusions' = intrusions
  BY DEF Answer, policy
<1>3. OpFits'
  BY <1>2 DEF OpFits, Idle, Work
<1>4. op' \in [do : Deeds, at : {"first", "last"}, by : Callers \cup {None}, path : {op'.path},
               to : {op'.to}, id : Uploads \cup TrashIds \cup {None}, of : {op'.of}]
  BY <1>2 DEF Idle, Work, Deeds
<1> QED BY <1>1, <1>2, <1>3, <1>4 DEF FilesInv, RestFits

(* The three ways to be answered.                                          *)
LEMMA Answered ==
  ASSUME FilesInv, NEW why \in Answers
  PROVE  /\ Finish(why) => OpFits' /\ RestFits' /\ cuts' = cuts
         /\ GiveUp => OpFits' /\ RestFits' /\ cuts' = cuts
         /\ Botch(why) => OpFits' /\ RestFits' /\ cuts' = cuts + 1
<1>1. "failed" \in Answers
  BY DEF Answers
<1>2. ASSUME Finish(why)
      PROVE  OpFits' /\ RestFits' /\ cuts' = cuts
  BY <1>2, Answering DEF Finish
<1>3. ASSUME GiveUp
      PROVE  OpFits' /\ RestFits' /\ cuts' = cuts
  BY <1>1, <1>3, Answering DEF GiveUp
<1>4. ASSUME Botch(why)
      PROVE  OpFits' /\ RestFits' /\ cuts' = cuts + 1
  BY <1>4, Answering DEF Botch
<1> QED BY <1>2, <1>3, <1>4

-----------------------------------------------------------------------------
(* Requests.                                                               *)

(* A request that is refused changes an answer only.                       *)
LEMMA RefuseKeeps ==
  ASSUME FilesInv, NEW c \in Callers, NEW why \in Answers, Refuse(c, why)
  PROVE  FilesInv'
<1>1. said' \in [Callers -> Answers]
  BY DEF Refuse, Tell, FilesInv, RestFits
<1>2. UNCHANGED <<tree, part, meta, item, origin, quota, reserve, raised, op, intruded, cuts,
                  intrusions>>
  BY DEF Refuse, disk, policy
<1>3. FilesFit' /\ UploadsFit'
  BY <1>2, UploadsSame DEF FilesInv, FilesFit
<1>4. RestFits'
  BY <1>1, <1>2 DEF FilesInv, RestFits
<1>5. OpFits'
  BY <1>2 DEF FilesInv, OpFits, CreateFits, ChunkFits, CompleteFits, CancelFits, MoveFits, TrashFits,
              RestoreFits, PurgeFits, Listed, Missing, InTrash, Vacant
<1>6. HalvesFit'
  BY <1>2 DEF FilesInv, HalvesFit, Halves, HalvesAreCuts, Unused, Listed, InTrash
<1> QED BY <1>3, <1>4, <1>5, <1>6 DEF FilesInv

(* A request that begins a mutation finds Core idle.                       *)
LEMMA BeginKeeps ==
  ASSUME FilesInv, NEW c \in Callers, Admit, NEW do \in Deeds, NEW path, NEW to,
         NEW id \in Uploads \cup TrashIds \cup {None}, NEW of,
         Begin(c, Work(do, path, to, id, of)), OpFits'
  PROVE  FilesInv'
<1>1. said' \in [Callers -> Answers]
  BY DEF Begin, Tell, FilesInv, RestFits, Answers
<1>2. /\ UNCHANGED <<tree, part, meta, item, origin, quota, reserve, raised, cuts, intrusions>>
      /\ intruded' = {}
  BY DEF Begin, disk, policy
<1>3. FilesFit' /\ UploadsFit'
  BY <1>2, UploadsSame DEF FilesInv, FilesFit
<1>4. op' = [do |-> do, at |-> "first", by |-> c, path |-> path, to |-> to, id |-> id, of |-> of]
  BY DEF Begin, Work
<1>5. op' \in [do : Deeds, at : {"first", "last"}, by : Callers \cup {None}, path : {op'.path},
               to : {op'.to}, id : Uploads \cup TrashIds \cup {None}, of : {op'.of}]
  BY <1>4
<1>6. RestFits'
  BY <1>1, <1>2, <1>5 DEF FilesInv, RestFits
<1>7. op.id = None
  BY DEF Admit, Idle, Work
<1>8. OnlyMine /\ Settled(None)' /\ cuts' = cuts
  BY <1>2, FileAssumption DEF OnlyMine, Settled
<1>9. HalvesFit'
  BY <1>7, <1>8, NothingHalf
<1> QED BY <1>3, <1>6, <1>9 DEF FilesInv

(* What Begin leaves.                                                      *)
LEMMA WorkBegun ==
  ASSUME NEW c, NEW do, NEW path, NEW to, NEW id, NEW of, Begin(c, Work(do, path, to, id, of))
  PROVE  /\ op' = [do |-> do, at |-> "first", by |-> c, path |-> path, to |-> to, id |-> id,
                   of |-> of]
         /\ UNCHANGED <<tree, part, meta, item, origin>>
BY DEF Begin, Work, disk

(* Uploads are begun under an id that nothing is left of.                  *)
LEMMA CreateUploadKeeps ==
  ASSUME FilesInv, NEW c \in Callers, NEW p \in Paths, NEW v \in Versions, NEW u \in Uploads,
         NEW sum \in BOOLEAN, CreateUpload(c, p, v, u, sum)
  PROVE  FilesInv'
<1>1. CASE Refuse(c, "full") \/ Refuse(c, "conflict")
  BY <1>1, RefuseKeeps DEF Answers
<1>2. CASE Begin(c, Work("create", p, sum, u, v))
  <2>1. OpFits'
    BY <1>2, WorkBegun DEF OpFits, CreateFits, CreateUpload, Unused
  <2> QED BY <1>2, <2>1, BeginKeeps DEF Deeds, CreateUpload
<1> QED BY <1>1, <1>2 DEF CreateUpload

(* So are the files that are sent at once.                                 *)
LEMMA UploadLimitedKeeps ==
  ASSUME FilesInv, NEW c \in Callers, NEW p \in Paths, NEW v \in Versions, NEW u \in Uploads,
         UploadLimited(c, p, v, u)
  PROVE  FilesInv'
<1>1. CASE Refuse(c, "full")
  BY <1>1, RefuseKeeps DEF Answers
<1>2. CASE Begin(c, Work("put", p, None, u, v))
  <2>1. OpFits'
    BY <1>2, WorkBegun DEF OpFits, CreateFits, UploadLimited, Unused
  <2> QED BY <1>2, <2>1, BeginKeeps DEF Deeds, UploadLimited
<1> QED BY <1>1, <1>2 DEF UploadLimited

(* A chunk is taken at the offset that was reached.                        *)
LEMMA AppendUploadChunkKeeps ==
  ASSUME FilesInv, NEW c \in Callers, fileFolderUploadChunk(c)
  PROVE  FilesInv'
<1>1. PICK u \in Uploads, b \in Blocks :
        /\ meta[u] # None => meta[u].sum \/ meta[u].of = b[1]
        /\ AppendUploadChunk(c, u, b[2] - 1, b)
  BY DEF fileFolderUploadChunk
<1>2. CASE Refuse(c, "missing") \/ Refuse(c, "full") \/ Refuse(c, "conflict") \/ Refuse(c, "failed")
  BY <1>2, RefuseKeeps DEF Answers
<1>3. CASE /\ Listed(u) /\ b[2] - 1 = Len(meta[u].got) /\ Missing(u) > 0
           /\ Begin(c, Work("chunk", meta[u].path, None, u, b))
  <2>1. /\ meta[u] \in UploadSession /\ part[u] = meta[u].got /\ meta[u] # None
        /\ meta[u].got \in Seq(Blocks) /\ meta[u].of \in Versions
    BY <1>3 DEF FilesInv, UploadsFit, UploadFits, Listed, UploadSession
  <2>2. PICK v \in Versions : \E i \in 1..Size[v] : b = <<v, i>>
    BY DEF Blocks
  <2>3. b[2] \in Nat /\ Len(meta[u].got) \in Nat /\ Size[meta[u].of] \in Nat
    BY <2>1, <2>2, FileAssumption
  <2>4. b[2] = Len(meta[u].got) + 1 /\ b[2] <= Size[meta[u].of]
    BY <1>3, <2>3 DEF Missing
  <2>5. OpFits'
    BY <1>1, <1>3, <2>1, <2>4, WorkBegun DEF OpFits, ChunkFits
  <2> QED BY <1>1, <1>3, <2>5, BeginKeeps DEF Deeds, AppendUploadChunk
<1> QED BY <1>1, <1>2, <1>3 DEF AppendUploadChunk

(* An upload is completed when it is whole.                                *)
LEMMA CompleteUploadKeeps ==
  ASSUME FilesInv, NEW c \in Callers, NEW u \in Uploads, CompleteUpload(c, u)
  PROVE  FilesInv'
<1>1. CASE Refuse(c, "missing") \/ Refuse(c, "failed")
  BY <1>1, RefuseKeeps DEF Answers
<1>2. CASE /\ Listed(u) /\ Missing(u) = 0 /\ Checked(u)
           /\ Begin(c, Work("complete", meta[u].path, None, u, None))
  <2>1. part[u] \in Content /\ meta[u].path \in Paths
    BY <1>2, CompleteIsWhole DEF FilesInv, UploadsFit, Listed, UploadSession
  <2>2. OpFits'
    BY <1>2, <2>1, WorkBegun DEF OpFits, CompleteFits, Listed, Missing
  <2> QED BY <1>2, <2>2, BeginKeeps DEF Deeds, CompleteUpload
<1> QED BY <1>1, <1>2 DEF CompleteUpload

(* An upload is cancelled when it is listed.                               *)
LEMMA CancelUploadKeeps ==
  ASSUME FilesInv, NEW c \in Callers, NEW u \in Uploads, CancelUpload(c, u)
  PROVE  FilesInv'
<1>1. CASE Refuse(c, "missing")
  BY <1>1, RefuseKeeps DEF Answers
<1>2. CASE Listed(u) /\ Begin(c, Work("cancel", meta[u].path, None, u, None))
  <2>1. OpFits'
    BY <1>2, WorkBegun DEF OpFits, CancelFits, Listed
  <2> QED BY <1>2, <2>1, BeginKeeps DEF Deeds, CancelUpload
<1> QED BY <1>1, <1>2 DEF CancelUpload

(* A move begins when nothing is where it goes.                            *)
LEMMA MoveKeeps ==
  ASSUME FilesInv, NEW c \in Callers, NEW p \in Paths, NEW q \in Paths, Move(c, p, q)
  PROVE  FilesInv'
<1>1. CASE Refuse(c, "missing") \/ Refuse(c, "conflict")
  BY <1>1, RefuseKeeps DEF Answers
<1>2. CASE tree[q] = None /\ Begin(c, Work("move", p, q, None, None))
  <2>1. OpFits'
    BY <1>2, WorkBegun DEF OpFits, MoveFits, Vacant
  <2> QED BY <1>2, <2>1, BeginKeeps DEF Deeds, Move
<1> QED BY <1>1, <1>2 DEF Move

(* An entry of the trash gets a name that nothing is left of.              *)
LEMMA TrashKeeps ==
  ASSUME FilesInv, NEW c \in Callers, NEW p \in Paths, NEW t \in TrashIds, Trash(c, p, t)
  PROVE  FilesInv'
<1>1. CASE Refuse(c, "missing")
  BY <1>1, RefuseKeeps DEF Answers
<1>2. CASE Begin(c, Work("trash", p, None, t, None))
  <2>1. OpFits'
    BY <1>2, WorkBegun DEF OpFits, TrashFits, Trash
  <2> QED BY <1>2, <2>1, BeginKeeps DEF Deeds, Trash
<1> QED BY <1>1, <1>2 DEF Trash

(* An entry is restored when nothing is where it came from.                *)
LEMMA RestoreTrashKeeps ==
  ASSUME FilesInv, NEW c \in Callers, NEW t \in TrashIds, RestoreTrash(c, t)
  PROVE  FilesInv'
<1>1. CASE Refuse(c, "failed") \/ Refuse(c, "conflict")
  BY <1>1, RefuseKeeps DEF Answers
<1>2. CASE /\ InTrash(t) /\ tree[origin[t]] = None
           /\ Begin(c, Work("restore", origin[t], None, t, None))
  <2>1. origin[t] \in Paths
    BY <1>2 DEF FilesInv, FilesFit, InTrash
  <2>2. OpFits'
    BY <1>2, <2>1, WorkBegun DEF OpFits, RestoreFits, InTrash, Vacant
  <2> QED BY <1>2, <2>2, BeginKeeps DEF Deeds, RestoreTrash
<1> QED BY <1>1, <1>2 DEF RestoreTrash

(* An entry is purged when it is listed.                                   *)
LEMMA PurgeTrashKeeps ==
  ASSUME FilesInv, NEW c \in Callers, NEW t \in TrashIds, PurgeTrash(c, t)
  PROVE  FilesInv'
<1>1. CASE Refuse(c, "failed")
  BY <1>1, RefuseKeeps DEF Answers
<1>2. CASE InTrash(t) /\ Begin(c, Work("purge", None, None, t, None))
  <2>1. OpFits'
    BY <1>2, WorkBegun DEF OpFits, PurgeFits, InTrash
  <2> QED BY <1>2, <2>1, BeginKeeps DEF Deeds, PurgeTrash
<1> QED BY <1>1, <1>2 DEF PurgeTrash

(* Quotas and the reserve are rows of their own.                           *)
LEMMA PolicyKeeps ==
  ASSUME FilesInv, NEW k, NEW q, NEW r,
         (k \in Caps /\ q \in Quotas /\ SetQuota(k, q)) \/ (r \in Reserves /\ SetReserve(r))
  PROVE  FilesInv'
<1>1. UNCHANGED <<tree, part, meta, item, origin, op, said, intruded, cuts, intrusions>>
  BY DEF SetQuota, SetReserve, disk
<1>2. FilesFit' /\ UploadsFit'
  BY <1>1, UploadsSame DEF FilesInv, FilesFit
<1>3. RestFits'
  <2>1. /\ quota' \in [Caps -> Quotas \cup {0}] /\ reserve' \in Reserves /\ raised' \in BOOLEAN
    BY DEF FilesInv, RestFits, SetQuota, SetReserve
  <2> QED BY <1>1, <2>1 DEF FilesInv, RestFits
<1>4. OpFits'
  BY <1>1 DEF FilesInv, OpFits, CreateFits, ChunkFits, CompleteFits, CancelFits, MoveFits, TrashFits,
              RestoreFits, PurgeFits, Listed, Missing, InTrash, Vacant
<1>5. HalvesFit'
  BY <1>1 DEF FilesInv, HalvesFit, Halves, HalvesAreCuts, Unused, Listed, InTrash
<1> QED BY <1>2, <1>3, <1>4, <1>5 DEF FilesInv

(* Whatever is asked, the invariant holds.                                 *)
LEMMA RequestsKeep ==
  ASSUME FilesInv, NEW c \in Callers, Request(c)
  PROVE  FilesInv'
<1>1. CASE fileFolderUploads(c) \/ fileFolderContent(c)
  BY <1>1, CreateUploadKeeps, UploadLimitedKeeps DEF fileFolderUploads, fileFolderContent
<1>2. CASE fileFolderUploadChunk(c)
  BY <1>2, AppendUploadChunkKeeps
<1>3. CASE fileFolderUploadComplete(c) \/ fileFolderUpload(c)
  BY <1>3, CompleteUploadKeeps, CancelUploadKeeps DEF fileFolderUploadComplete, fileFolderUpload
<1>4. CASE fileFolderMove(c) \/ fileFolderEntry(c)
  BY <1>4, MoveKeeps, TrashKeeps DEF fileFolderMove, fileFolderEntry
<1>5. CASE fileFolderTrashRestore(c) \/ fileFolderTrashPurge(c)
  BY <1>5, RestoreTrashKeeps, PurgeTrashKeeps DEF fileFolderTrashRestore, fileFolderTrashPurge
<1>6. CASE fileFolderManagement(c) \/ fileUserQuotas(c)
  <2>1. PICK k \in Caps, q \in Quotas : SetQuota(k, q)
    BY <1>6 DEF fileFolderManagement, fileUserQuotas, Caps
  <2> QED BY <2>1, PolicyKeeps
<1>7. CASE filePoolCapacityPolicy(c)
  BY <1>7, PolicyKeeps DEF filePoolCapacityPolicy
<1> QED BY <1>1, <1>2, <1>3, <1>4, <1>5, <1>6, <1>7 DEF Request

-----------------------------------------------------------------------------
(* The steps of a mutation.                                                *)

(* The types of the variables of a state that satisfies the invariant.     *)
LEMMA FilesAreTyped ==
  ASSUME FilesInv
  PROVE  /\ part \in [Uploads -> {None} \cup Seq(Blocks)]
         /\ meta \in [Uploads -> {None} \cup UploadSession]
         /\ tree \in [Paths -> {None} \cup Content]
         /\ item \in [TrashIds -> {None} \cup Content]
         /\ origin \in [TrashIds -> Paths \cup {None}]
         /\ op.do \in Deeds /\ op.at \in {"first", "last"} /\ intruded \subseteq Paths
         /\ \A u \in Uploads : UploadFits(u)
BY DEF FilesInv, FilesFit, UploadsFit, RestFits

(* An id names an upload or an entry of the trash, not both.               *)
LEMMA IdsDiffer ==
  /\ \A u \in Uploads : u \notin TrashIds /\ u # None
  /\ \A t \in TrashIds : t \notin Uploads /\ t # None
BY FileAssumption

(* An upload of which nothing has come yet is one all the same.            *)
LEMMA EmptyIsStored == <<>> \in Seq(Blocks) /\ <<>> # None
<1>1. <<>> \in Seq(Blocks)
  OBVIOUS
<1> QED BY <1>1, FileAssumption

(* Where only the uploads change, trash and files stay.                    *)
LEMMA OnlyUploads ==
  ASSUME FilesInv, op.id \in Uploads, UNCHANGED <<item, origin>>,
         \A u \in Uploads : u # op.id => part'[u] = part[u] /\ meta'[u] = meta[u]
  PROVE  OnlyMine
BY DEF OnlyMine

(* Where only the trash changes, uploads stay.                             *)
LEMMA OnlyTrash ==
  ASSUME FilesInv, op.id \in TrashIds, UNCHANGED <<part, meta>>,
         \A t \in TrashIds : t # op.id => item'[t] = item[t] /\ origin'[t] = origin[t]
  PROVE  OnlyMine
BY DEF OnlyMine

(* The part of a new upload, and then its metadata; or neither.            *)
LEMMA CreatePartKeeps ==
  ASSUME FilesInv, CreatePart
  PROVE  FilesInv'
<1>1. PICK u : u = op.id
  OBVIOUS
<1>2. CreateFits /\ op.do = "create" /\ op.at = "first" /\ u \in Uploads /\ meta[u] = None
  BY <1>1 DEF CreatePart, At, FilesInv, OpFits, CreateFits
<1>3. /\ part' = [part EXCEPT ![u] = <<>>] /\ GoOn("last")
      /\ UNCHANGED <<tree, meta, item, origin>>
  BY <1>1 DEF CreatePart
<1>4. OnlyMine
  BY <1>1, <1>2, <1>3, FilesAreTyped, OnlyUploads
<1>5. UploadFits(u)'
  BY <1>2, <1>3 DEF UploadFits, RecordFits, Listed
<1>6. UploadsFit'
  <2>1. part' \in [Uploads -> {None} \cup Seq(Blocks)]
    BY <1>3, FilesAreTyped, EmptyIsStored
  <2> QED BY <1>2, <1>3, <1>5, <2>1, FilesAreTyped, UploadsStay DEF FilesInv
<1>7. OpFits'
  BY <1>1, <1>2, <1>3, GoingOn, FilesAreTyped DEF OpFits, CreateFits
<1>8. HalvesFit'
  BY <1>1, <1>3, <1>4, GoingOn, NothingHalf
<1> QED BY <1>3, <1>6, <1>7, <1>8, GoingOn DEF FilesInv, FilesFit

(* The metadata makes it a session that has nothing yet.                   *)
LEMMA CreateMetadataKeeps ==
  ASSUME FilesInv, CreateMetadata
  PROVE  FilesInv'
<1>1. PICK u : u = op.id
  OBVIOUS
<1>2. /\ u \in Uploads /\ part[u] = <<>> /\ op.path \in Paths /\ op.of \in Versions
      /\ op.to \in BOOLEAN
  BY <1>1 DEF CreateMetadata, At, FilesInv, OpFits, CreateFits
<1>3. PICK r \in UploadSession : r = [path |-> op.path, of |-> op.of, sum |-> op.to, got |-> <<>>]
  BY <1>2, EmptyIsStored DEF UploadSession
<1>4. meta' = [meta EXCEPT ![u] = r] /\ Finish("ok") /\ UNCHANGED <<tree, part, item, origin>>
  BY <1>1, <1>3 DEF CreateMetadata
<1>5. meta' \in [Uploads -> {None} \cup UploadSession] /\ meta'[u] = r
  BY <1>2, <1>4, FilesAreTyped
<1>6. r # None /\ <<>> # None /\ r.got = <<>> /\ r.of \in Versions /\ Size[r.of] \in Nat
  BY <1>2, <1>3, EmptyIsStored, FileAssumption
<1>7. UploadFits(u)' /\ Listed(u)'
  BY <1>2, <1>4, <1>5, <1>6 DEF UploadFits, RecordFits, Listed
<1>8. UploadsFit'
  BY <1>4, <1>5, <1>7, FilesAreTyped, UploadsStay DEF FilesInv
<1>9. OnlyMine
  BY <1>1, <1>2, <1>4, FilesAreTyped, OnlyUploads
<1>10. OpFits' /\ RestFits' /\ cuts' = cuts
  BY <1>4, Answered DEF Answers
<1>11. HalvesFit'
  BY <1>1, <1>2, <1>7, <1>9, <1>10, IdsDiffer, NothingHalf DEF Settled
<1> QED BY <1>4, <1>8, <1>10, <1>11 DEF FilesInv, FilesFit

(* Where the second call fails, the part is gone again.                    *)
LEMMA CreateUndoneKeeps ==
  ASSUME FilesInv, CreateUndone \/ PutUndone
  PROVE  FilesInv'
<1>1. PICK u : u = op.id
  OBVIOUS
<1>2. u \in Uploads /\ meta[u] = None
  BY <1>1 DEF CreateUndone, PutUndone, At, FilesInv, OpFits, CreateFits
<1>3. part' = [part EXCEPT ![u] = None] /\ GiveUp /\ UNCHANGED <<tree, meta, item, origin>>
  BY <1>1 DEF CreateUndone, PutUndone
<1>4. part' \in [Uploads -> {None} \cup Seq(Blocks)] /\ Unused(u)'
  BY <1>2, <1>3, FilesAreTyped DEF Unused
<1>5. UploadsFit'
  BY <1>2, <1>3, <1>4, FilesAreTyped, UploadsStay DEF FilesInv, UploadFits, RecordFits, Listed
<1>6. OnlyMine
  BY <1>1, <1>2, <1>3, FilesAreTyped, OnlyUploads
<1>7. OpFits' /\ RestFits' /\ cuts' = cuts
  BY <1>3, Answered DEF Answers
<1>8. HalvesFit'
  BY <1>1, <1>2, <1>4, <1>6, <1>7, IdsDiffer, NothingHalf DEF Settled
<1> QED BY <1>3, <1>5, <1>7, <1>8 DEF FilesInv, FilesFit

(* A chunk is written, or only a half of that was done.                    *)
LEMMA WriteChunkKeeps ==
  ASSUME FilesInv, WriteChunk \/ WriteChunkBotched
  PROVE  FilesInv'
<1>1. PICK u : u = op.id
  OBVIOUS
<1>2. /\ ChunkFits /\ op.do = "chunk" /\ op.at = "first" /\ u \in Uploads /\ meta[u] # None
      /\ op.of \in Blocks /\ part[u] = meta[u].got
  BY <1>1 DEF WriteChunk, WriteChunkBotched, At, FilesInv, OpFits, ChunkFits
<1>3. part' = [part EXCEPT ![u] = Append(@, op.of)] /\ UNCHANGED <<tree, meta, item, origin>>
  BY <1>1 DEF WriteChunk, WriteChunkBotched
<1>4. meta[u].got \in Seq(Blocks)
  BY <1>2, FilesAreTyped DEF UploadSession
<1>5. /\ part'[u] = Append(meta[u].got, op.of) /\ part'[u] \in Seq(Blocks)
      /\ Len(part'[u]) # Len(meta[u].got)
  BY <1>2, <1>3, <1>4, FilesAreTyped
<1>6. part' \in [Uploads -> {None} \cup Seq(Blocks)]
  BY <1>2, <1>3, <1>5, FilesAreTyped
<1>7. UploadFits(u)'
  BY <1>2, <1>3, <1>5, FilesAreTyped DEF UploadFits, RecordFits, Listed
<1>8. UploadsFit'
  BY <1>2, <1>3, <1>6, <1>7, FilesAreTyped, UploadsStay DEF FilesInv
<1>9. OnlyMine
  BY <1>1, <1>2, <1>3, FilesAreTyped, OnlyUploads
<1>10. CASE WriteChunk
  <2>1. GoOn("last")
    BY <1>10 DEF WriteChunk
  <2>2. OpFits'
    BY <1>1, <1>2, <1>3, <1>5, <2>1, GoingOn DEF OpFits, ChunkFits
  <2>3. HalvesFit'
    BY <1>1, <1>9, <2>1, GoingOn, NothingHalf
  <2> QED BY <1>3, <1>8, <2>1, <2>2, <2>3, GoingOn DEF FilesInv, FilesFit
<1>11. CASE WriteChunkBotched
  <2>1. OpFits' /\ RestFits' /\ cuts' = cuts + 1
    BY <1>11, Answered DEF WriteChunkBotched, Answers
  <2> QED BY <1>3, <1>8, <1>9, <2>1, OneHalfMore DEF FilesInv, FilesFit
<1> QED BY <1>10, <1>11

(* A chunk is recorded: the part and the session agree again.              *)
LEMMA RecordChunkKeeps ==
  ASSUME FilesInv, RecordChunk
  PROVE  FilesInv'
<1>1. PICK u : u = op.id
  OBVIOUS
<1>2. /\ u \in Uploads /\ meta[u] # None /\ op.of \in Blocks
      /\ op.of[2] = Len(meta[u].got) + 1 /\ op.of[2] <= Size[meta[u].of]
      /\ ~meta[u].sum => op.of[1] = meta[u].of
      /\ part[u] = Append(meta[u].got, op.of)
  BY <1>1 DEF RecordChunk, At, FilesInv, OpFits, ChunkFits
<1>3. PICK r : r = [meta[u] EXCEPT !.got = Append(@, op.of)]
  OBVIOUS
<1>4. meta' = [meta EXCEPT ![u] = r] /\ Finish("ok") /\ UNCHANGED <<tree, part, item, origin>>
  BY <1>1, <1>3 DEF RecordChunk
<1>5. meta[u] \in UploadSession /\ RecordFits(u)
  BY <1>2, FilesAreTyped DEF UploadFits
<1>6. /\ r \in UploadSession /\ r.of = meta[u].of /\ r.sum = meta[u].sum
      /\ r.got = Append(meta[u].got, op.of) /\ meta[u].got \in Seq(Blocks)
  <2>1. meta[u].got \in Seq(Blocks) /\ Append(meta[u].got, op.of) \in Seq(Blocks)
    BY <1>2, <1>5 DEF UploadSession
  <2>2. r = [meta[u] EXCEPT !.got = Append(meta[u].got, op.of)]
    BY <1>3, <1>5 DEF UploadSession
  <2> QED BY <1>5, <2>1, <2>2 DEF UploadSession
<1>7. meta' \in [Uploads -> {None} \cup UploadSession] /\ meta'[u] = r
  BY <1>2, <1>4, <1>6, FilesAreTyped
<1>8. r # None /\ r.got # None
  BY <1>6, FileAssumption DEF UploadSession
<1>9. PICK v \in Versions : \E i \in 1..Size[v] : op.of = <<v, i>>
  BY <1>2 DEF Blocks
<1>10. op.of = <<op.of[1], op.of[2]>>
  BY <1>9
<1>11. Len(r.got) = Len(meta[u].got) + 1 /\ Len(meta[u].got) \in Nat
  BY <1>6
<1>12. Len(r.got) <= Size[r.of]
  BY <1>2, <1>6, <1>11
<1>13. ASSUME ~r.sum, NEW i \in 1..Len(r.got)
       PROVE  r.got[i] = <<r.of, i>>
  <2>1. CASE i = Len(r.got)
    BY <1>2, <1>6, <1>10, <1>11, <1>13, <2>1
  <2>2. CASE i # Len(r.got)
    <3>1. i \in 1..Len(meta[u].got)
      BY <1>11, <2>2
    <3>2. r.got[i] = meta[u].got[i]
      BY <1>6, <3>1
    <3> QED BY <1>2, <1>5, <1>6, <1>13, <3>1, <3>2 DEF RecordFits
  <2> QED BY <2>1, <2>2
<1>14. RecordFits(u)'
  BY <1>7, <1>12, <1>13 DEF RecordFits
<1>15. part'[u] = r.got /\ UploadFits(u)' /\ Listed(u)'
  BY <1>2, <1>4, <1>6, <1>7, <1>8, <1>14 DEF UploadFits, Listed
<1>16. UploadsFit'
  BY <1>2, <1>4, <1>7, <1>15, FilesAreTyped, UploadsStay DEF FilesInv
<1>17. OnlyMine
  BY <1>1, <1>2, <1>4, FilesAreTyped, OnlyUploads
<1>18. OpFits' /\ RestFits' /\ cuts' = cuts
  BY <1>4, Answered DEF Answers
<1>19. HalvesFit'
  BY <1>1, <1>2, <1>15, <1>17, <1>18, IdsDiffer, NothingHalf DEF Settled
<1> QED BY <1>4, <1>16, <1>18, <1>19 DEF FilesInv, FilesFit

(* The part is cut back to what was recorded.                              *)
LEMMA ChunkUndoneKeeps ==
  ASSUME FilesInv, ChunkUndone
  PROVE  FilesInv'
<1>1. PICK u : u = op.id
  OBVIOUS
<1>2. /\ u \in Uploads /\ meta[u] # None /\ op.of \in Blocks
      /\ part[u] = Append(meta[u].got, op.of)
  BY <1>1 DEF ChunkUndone, At, FilesInv, OpFits, ChunkFits
<1>3. /\ part' = [part EXCEPT ![u] = SubSeq(@, 1, Len(meta[u].got))] /\ GiveUp
      /\ UNCHANGED <<tree, meta, item, origin>>
  BY <1>1 DEF ChunkUndone
<1>4. meta[u].got \in Seq(Blocks) /\ meta[u].got # None
  BY <1>2, FilesAreTyped, FileAssumption DEF UploadSession
<1>5. SubSeq(Append(meta[u].got, op.of), 1, Len(meta[u].got)) = meta[u].got
  BY <1>2, <1>4
<1>6. part'[u] = meta[u].got /\ part' \in [Uploads -> {None} \cup Seq(Blocks)]
  BY <1>2, <1>3, <1>4, <1>5, FilesAreTyped
<1>7. UploadFits(u)' /\ Listed(u)'
  BY <1>2, <1>3, <1>4, <1>6, FilesAreTyped DEF UploadFits, RecordFits, Listed
<1>8. UploadsFit'
  BY <1>2, <1>3, <1>6, <1>7, FilesAreTyped, UploadsStay DEF FilesInv
<1>9. OnlyMine
  BY <1>1, <1>2, <1>3, FilesAreTyped, OnlyUploads
<1>10. OpFits' /\ RestFits' /\ cuts' = cuts
  BY <1>3, Answered DEF Answers
<1>11. HalvesFit'
  BY <1>1, <1>2, <1>7, <1>9, <1>10, IdsDiffer, NothingHalf DEF Settled
<1> QED BY <1>3, <1>8, <1>10, <1>11 DEF FilesInv, FilesFit

(* Where nothing on disk changes, an answer or a failure changes no file.  *)
LEMMA SameDisk ==
  ASSUME FilesInv, UNCHANGED disk, OpFits', RestFits', NEW x, x = op.id,
         cuts' = cuts + 1 \/ (cuts' = cuts /\ Settled(x))
  PROVE  FilesInv'
<1>1. UNCHANGED <<tree, part, meta, item, origin>>
  BY DEF disk
<1>2. FilesFit' /\ UploadsFit' /\ OnlyMine
  BY <1>1, UploadsSame DEF FilesInv, FilesFit, OnlyMine
<1>3. Settled(x) => Settled(x)'
  BY <1>1 DEF Settled, Unused, Listed, InTrash
<1>4. HalvesFit'
  BY <1>2, <1>3, NothingHalf, OneHalfMore
<1> QED BY <1>2, <1>4 DEF FilesInv

(* At its first step a mutation has left no half of anything.              *)
LEMMA SettledAtFirst ==
  ASSUME FilesInv, op.at = "first", NEW x, x = op.id
  PROVE  Settled(x)
<1>1. CASE op.do \in {"idle", "move"}
  <2>1. CASE op.do = "idle"
    BY <2>1, FileAssumption DEF FilesInv, OpFits, Settled, Idle, Work
  <2>2. CASE op.do = "move"
    BY <2>2, IdsDiffer DEF FilesInv, OpFits, MoveFits, Settled
  <2> QED BY <1>1, <2>1, <2>2
<1>2. CASE op.do \in {"create", "put"}
  <2>1. x \in Uploads /\ Unused(x)
    BY <1>2 DEF FilesInv, OpFits, CreateFits, Unused
  <2> QED BY <2>1, IdsDiffer DEF Settled
<1>3. CASE op.do \in {"chunk", "complete", "cancel"}
  <2>1. CASE op.do = "chunk"
    <3>1. x \in Uploads /\ meta[x] # None /\ part[x] = meta[x].got
      BY <2>1 DEF FilesInv, OpFits, ChunkFits
    <3>2. part[x] # None
      BY <3>1, FilesAreTyped, FileAssumption DEF UploadSession
    <3> QED BY <3>1, <3>2, IdsDiffer DEF Settled, Listed
  <2>2. CASE op.do = "complete"
    BY <2>2, IdsDiffer DEF FilesInv, OpFits, CompleteFits, Settled
  <2>3. CASE op.do = "cancel"
    BY <2>3, IdsDiffer DEF FilesInv, OpFits, CancelFits, Settled
  <2> QED BY <1>3, <2>1, <2>2, <2>3
<1>4. CASE op.do \in {"trash", "restore", "purge"}
  <2>1. CASE op.do = "trash"
    BY <2>1, IdsDiffer DEF FilesInv, OpFits, TrashFits, Settled
  <2>2. CASE op.do = "restore"
    BY <2>2, IdsDiffer DEF FilesInv, OpFits, RestoreFits, Settled
  <2>3. CASE op.do = "purge"
    BY <2>3, IdsDiffer DEF FilesInv, OpFits, PurgeFits, Settled
  <2> QED BY <1>4, <2>1, <2>2, <2>3
<1> QED BY <1>1, <1>2, <1>3, <1>4, FilesAreTyped DEF Deeds

(* Failures that change no file.                                           *)
LEMMA FailuresKeep ==
  ASSUME FilesInv, TargetExists \/ SessionRemains \/ FirstFails \/ UndoFails \/ CoreDies
  PROVE  FilesInv'
<1>1. PICK x : x = op.id
  OBVIOUS
<1>2. CASE TargetExists
  <2>1. Finish("conflict") /\ UNCHANGED disk /\ op.at = "first"
    BY <1>2 DEF TargetExists, At
  <2> QED BY <1>1, <2>1, Answered, SettledAtFirst, SameDisk DEF Answers
<1>3. CASE FirstFails
  <2>1. GiveUp /\ UNCHANGED disk /\ op.at = "first"
    BY <1>3 DEF FirstFails
  <2> QED BY <1>1, <2>1, Answered, SettledAtFirst, SameDisk DEF Answers
<1>4. CASE SessionRemains \/ UndoFails \/ CoreDies
  <2>1. PICK why \in Answers : Botch(why)
    BY <1>4 DEF SessionRemains, UndoFails, CoreDies, Answers
  <2>2. UNCHANGED disk
    BY <1>4 DEF SessionRemains, UndoFails, CoreDies
  <2> QED BY <1>1, <2>1, <2>2, Answered, SameDisk
<1> QED BY <1>2, <1>3, <1>4

(* The part becomes the file, where there is none.                         *)
LEMMA InstallPartKeeps ==
  ASSUME FilesInv, InstallPart
  PROVE  FilesInv'
<1>1. PICK u : u = op.id
  OBVIOUS
<1>2. /\ op.do = "complete" /\ u \in Uploads /\ part[u] \in Content /\ op.path \in Paths
      /\ Listed(u)
  BY <1>1 DEF InstallPart, At, FilesInv, OpFits, CompleteFits
<1>3. /\ tree' = [tree EXCEPT ![op.path] = part[u]] /\ part' = [part EXCEPT ![u] = None]
      /\ GoOn("last") /\ UNCHANGED <<meta, item, origin>>
  BY <1>1 DEF InstallPart
<1>4. FilesFit' /\ part' \in [Uploads -> {None} \cup Seq(Blocks)] /\ part'[u] = None
  BY <1>2, <1>3, FilesAreTyped DEF FilesFit
<1>5. UploadFits(u)'
  BY <1>2, <1>3, <1>4, FilesAreTyped DEF UploadFits, RecordFits, Listed
<1>6. UploadsFit'
  BY <1>2, <1>3, <1>4, <1>5, FilesAreTyped, UploadsStay DEF FilesInv
<1>7. OnlyMine
  BY <1>1, <1>2, <1>3, FilesAreTyped, OnlyUploads
<1>8. OpFits'
  BY <1>1, <1>2, <1>3, <1>4, GoingOn DEF OpFits, CompleteFits
<1>9. HalvesFit'
  BY <1>1, <1>3, <1>7, GoingOn, NothingHalf
<1> QED BY <1>3, <1>4, <1>6, <1>8, <1>9, GoingOn DEF FilesInv

(* A session ends after its part is gone.                                  *)
LEMMA RemoveSessionKeeps ==
  ASSUME FilesInv, RemoveSession
  PROVE  FilesInv'
<1>1. PICK u : u = op.id
  OBVIOUS
<1>2. u \in Uploads /\ part[u] = None
  BY <1>1 DEF RemoveSession, FilesInv, OpFits, CompleteFits, CancelFits
<1>3. /\ meta' = [meta EXCEPT ![u] = None] /\ Finish("ok") /\ UNCHANGED <<tree, part, item, origin>>
  BY <1>1 DEF RemoveSession
<1>4. meta' \in [Uploads -> {None} \cup UploadSession] /\ Unused(u)'
  BY <1>2, <1>3, FilesAreTyped DEF Unused
<1>5. UploadsFit'
  BY <1>2, <1>3, <1>4, FilesAreTyped, UploadsStay DEF FilesInv, UploadFits, RecordFits, Listed, Unused
<1>6. OnlyMine
  BY <1>1, <1>2, <1>3, FilesAreTyped, OnlyUploads
<1>7. OpFits' /\ RestFits' /\ cuts' = cuts
  BY <1>3, Answered DEF Answers
<1>8. HalvesFit'
  BY <1>1, <1>2, <1>4, <1>6, <1>7, IdsDiffer, NothingHalf DEF Settled
<1> QED BY <1>3, <1>5, <1>7, <1>8 DEF FilesInv, FilesFit

(* A cancelled upload loses its part, or, when that fails, only its        *)
(* metadata.                                                               *)
LEMMA RemovePartKeeps ==
  ASSUME FilesInv, RemovePart
  PROVE  FilesInv'
<1>1. PICK u : u = op.id
  OBVIOUS
<1>2. op.do = "cancel" /\ u \in Uploads
  BY <1>1 DEF RemovePart, At, FilesInv, OpFits, CancelFits
<1>3. /\ part' = [part EXCEPT ![u] = None] /\ GoOn("last") /\ UNCHANGED <<tree, meta, item, origin>>
  BY <1>1 DEF RemovePart
<1>4. part' \in [Uploads -> {None} \cup Seq(Blocks)] /\ part'[u] = None
  BY <1>2, <1>3, FilesAreTyped
<1>5. UploadFits(u)'
  BY <1>2, <1>3, <1>4, FilesAreTyped DEF UploadFits, RecordFits, Listed
<1>6. UploadsFit'
  BY <1>2, <1>3, <1>4, <1>5, FilesAreTyped, UploadsStay DEF FilesInv
<1>7. OnlyMine
  BY <1>1, <1>2, <1>3, FilesAreTyped, OnlyUploads
<1>8. OpFits'
  BY <1>1, <1>2, <1>3, <1>4, GoingOn DEF OpFits, CancelFits
<1>9. HalvesFit'
  BY <1>1, <1>3, <1>7, GoingOn, NothingHalf
<1> QED BY <1>3, <1>6, <1>8, <1>9, GoingOn DEF FilesInv, FilesFit

(* Where that fails, the metadata is removed all the same.                 *)
LEMMA PartRemainsKeeps ==
  ASSUME FilesInv, PartRemains
  PROVE  FilesInv'
<1>1. PICK u : u = op.id
  OBVIOUS
<1>2. u \in Uploads
  BY <1>1 DEF PartRemains, At, FilesInv, OpFits, CancelFits
<1>3. /\ meta' = [meta EXCEPT ![u] = None] /\ Botch("failed")
      /\ UNCHANGED <<tree, part, item, origin>>
  BY <1>1 DEF PartRemains
<1>4. meta' \in [Uploads -> {None} \cup UploadSession] /\ meta'[u] = None
  BY <1>2, <1>3, FilesAreTyped
<1>5. UploadsFit'
  BY <1>2, <1>3, <1>4, FilesAreTyped, UploadsStay DEF FilesInv, UploadFits, RecordFits, Listed
<1>6. OnlyMine
  BY <1>1, <1>2, <1>3, FilesAreTyped, OnlyUploads
<1>7. OpFits' /\ RestFits' /\ cuts' = cuts + 1
  BY <1>3, Answered DEF Answers
<1>8. HalvesFit'
  BY <1>6, <1>7, OneHalfMore
<1> QED BY <1>3, <1>5, <1>7, <1>8 DEF FilesInv, FilesFit

(* A file that is sent at once is whole before it replaces another.        *)
LEMMA WriteTempKeeps ==
  ASSUME FilesInv, WriteTemp
  PROVE  FilesInv'
<1>1. PICK u : u = op.id
  OBVIOUS
<1>2. /\ op.do = "put" /\ u \in Uploads /\ op.path \in Paths /\ op.of \in Versions
      /\ meta[u] = None
  BY <1>1 DEF WriteTemp, At, FilesInv, OpFits, CreateFits
<1>3. /\ part' = [part EXCEPT ![u] = Whole(op.of)] /\ GoOn("last")
      /\ UNCHANGED <<tree, meta, item, origin>>
  BY <1>1 DEF WriteTemp
<1>4. part' \in [Uploads -> {None} \cup Seq(Blocks)] /\ part'[u] = Whole(op.of)
  BY <1>2, <1>3, WholesAreStored, FilesAreTyped
<1>5. UploadsFit'
  BY <1>2, <1>3, <1>4, FilesAreTyped, UploadsStay DEF FilesInv, UploadFits, RecordFits, Listed
<1>6. OnlyMine
  BY <1>1, <1>2, <1>3, FilesAreTyped, OnlyUploads
<1>7. op'.of = op.of /\ Whole(op.of)' = Whole(op.of)
  BY <1>3, GoingOn DEF Whole
<1>8. OpFits'
  <2>1. CreateFits'
    BY <1>1, <1>2, <1>3, <1>4, <1>7, GoingOn DEF CreateFits
  <2> QED BY <1>2, <1>3, <2>1, GoingOn DEF OpFits
<1>9. HalvesFit'
  BY <1>1, <1>3, <1>6, GoingOn, NothingHalf
<1> QED BY <1>3, <1>5, <1>8, <1>9, GoingOn DEF FilesInv, FilesFit

(* It becomes the visible file.                                            *)
LEMMA ReplaceFileKeeps ==
  ASSUME FilesInv, ReplaceFile
  PROVE  FilesInv'
<1>1. PICK u : u = op.id
  OBVIOUS
<1>2. /\ u \in Uploads /\ op.path \in Paths /\ op.of \in Versions /\ meta[u] = None
      /\ part[u] = Whole(op.of)
  BY <1>1 DEF ReplaceFile, At, FilesInv, OpFits, CreateFits
<1>3. /\ tree' = [tree EXCEPT ![op.path] = part[u]] /\ part' = [part EXCEPT ![u] = None]
      /\ Finish("ok") /\ UNCHANGED <<meta, item, origin>>
  BY <1>1 DEF ReplaceFile
<1>4. FilesFit' /\ part' \in [Uploads -> {None} \cup Seq(Blocks)] /\ Unused(u)'
  BY <1>2, <1>3, WholesAreStored, FilesAreTyped DEF FilesFit, Unused
<1>5. UploadsFit'
  BY <1>2, <1>3, <1>4, FilesAreTyped, UploadsStay DEF FilesInv, UploadFits, RecordFits, Listed
<1>6. OnlyMine
  BY <1>1, <1>2, <1>3, FilesAreTyped, OnlyUploads
<1>7. OpFits' /\ RestFits' /\ cuts' = cuts
  BY <1>3, Answered DEF Answers
<1>8. HalvesFit'
  BY <1>1, <1>2, <1>4, <1>6, <1>7, IdsDiffer, NothingHalf DEF Settled
<1> QED BY <1>4, <1>5, <1>7, <1>8 DEF FilesInv

(* A move carries a whole version.                                         *)
LEMMA RenameKeeps ==
  ASSUME FilesInv, Rename
  PROVE  FilesInv'
<1>1. PICK x : x = op.id
  OBVIOUS
<1>2. /\ op.path \in Paths /\ op.to \in Paths /\ op.at = "first" /\ x = None
  BY <1>1 DEF Rename, At, FilesInv, OpFits, MoveFits
<1>3. Finish("ok") \/ Finish("failed")
  BY DEF Rename
<1>4. OpFits' /\ RestFits' /\ cuts' = cuts
  BY <1>3, Answered DEF Answers
<1>5. tree' = tree \/ tree' = [tree EXCEPT ![op.to] = tree[op.path], ![op.path] = None]
  BY DEF Rename
<1>6. UNCHANGED <<part, meta, item, origin>>
  BY DEF Rename
<1>7. FilesFit' /\ UploadsFit' /\ OnlyMine
  BY <1>2, <1>5, <1>6, FilesAreTyped, UploadsSame DEF FilesInv, FilesFit, OnlyMine
<1>8. Settled(x)'
  BY <1>2, FileAssumption DEF Settled
<1>9. HalvesFit'
  BY <1>1, <1>4, <1>7, <1>8, NothingHalf
<1> QED BY <1>4, <1>7, <1>9 DEF FilesInv

(* A file goes to the trash before its origin is recorded.                 *)
LEMMA TrashEntryKeeps ==
  ASSUME FilesInv, TrashEntry
  PROVE  FilesInv'
<1>1. PICK t : t = op.id
  OBVIOUS
<1>2. /\ op.do = "trash" /\ op.at = "first" /\ t \in TrashIds /\ op.path \in Paths
      /\ origin[t] = None /\ item[t] = None /\ UNCHANGED <<part, meta, origin>>
  BY <1>1 DEF TrashEntry, At, FilesInv, OpFits, TrashFits
<1>3. CASE tree[op.path] = None
  <2>1. Finish("failed") /\ UNCHANGED disk
    BY <1>3 DEF TrashEntry, disk
  <2> QED BY <1>1, <1>2, <2>1, Answered, SettledAtFirst, SameDisk DEF Answers
<1>4. CASE tree[op.path] # None
  <2>1. /\ item' = [item EXCEPT ![t] = tree[op.path]] /\ tree' = [tree EXCEPT ![op.path] = None]
        /\ GoOn("last")
    BY <1>1, <1>4 DEF TrashEntry
  <2>2. FilesFit' /\ UploadsFit' /\ item'[t] # None /\ tree'[op.path] = None
    BY <1>2, <1>4, <2>1, FilesAreTyped, UploadsSame DEF FilesInv, FilesFit
  <2>3. OnlyMine
    BY <1>1, <1>2, <2>1, FilesAreTyped, OnlyTrash
  <2>4. OpFits'
    BY <1>1, <1>2, <2>1, <2>2, GoingOn DEF OpFits, TrashFits, Vacant
  <2>5. HalvesFit'
    BY <1>1, <2>1, <2>3, GoingOn, NothingHalf
  <2> QED BY <2>1, <2>2, <2>4, <2>5, GoingOn DEF FilesInv
<1> QED BY <1>3, <1>4

(* Its origin makes it an entry that can be restored.                      *)
LEMMA RecordOriginKeeps ==
  ASSUME FilesInv, RecordOrigin
  PROVE  FilesInv'
<1>1. PICK t : t = op.id
  OBVIOUS
<1>2. t \in TrashIds /\ op.path \in Paths /\ item[t] # None
  BY <1>1 DEF RecordOrigin, At, FilesInv, OpFits, TrashFits
<1>3. /\ origin' = [origin EXCEPT ![t] = op.path] /\ Finish("ok")
      /\ UNCHANGED <<tree, part, meta, item>>
  BY <1>1 DEF RecordOrigin
<1>4. FilesFit' /\ UploadsFit' /\ InTrash(t)'
  BY <1>2, <1>3, FilesAreTyped, FileAssumption, UploadsSame DEF FilesInv, FilesFit, InTrash
<1>5. OnlyMine
  BY <1>1, <1>2, <1>3, FilesAreTyped, OnlyTrash
<1>6. OpFits' /\ RestFits' /\ cuts' = cuts
  BY <1>3, Answered DEF Answers
<1>7. HalvesFit'
  BY <1>1, <1>2, <1>4, <1>5, <1>6, IdsDiffer, NothingHalf DEF Settled
<1> QED BY <1>4, <1>6, <1>7 DEF FilesInv

(* Or it goes back.                                                        *)
LEMMA TrashUndoneKeeps ==
  ASSUME FilesInv, TrashUndone
  PROVE  FilesInv'
<1>1. PICK t : t = op.id
  OBVIOUS
<1>2. t \in TrashIds /\ op.path \in Paths /\ origin[t] = None
  BY <1>1 DEF TrashUndone, At, FilesInv, OpFits, TrashFits
<1>3. /\ tree' = [tree EXCEPT ![op.path] = item[t]] /\ item' = [item EXCEPT ![t] = None]
      /\ GiveUp /\ UNCHANGED <<part, meta, origin>>
  BY <1>1 DEF TrashUndone
<1>4. FilesFit' /\ UploadsFit' /\ item'[t] = None /\ origin'[t] = None
  BY <1>2, <1>3, FilesAreTyped, UploadsSame DEF FilesInv, FilesFit
<1>5. OnlyMine
  BY <1>1, <1>2, <1>3, FilesAreTyped, OnlyTrash
<1>6. OpFits' /\ RestFits' /\ cuts' = cuts
  BY <1>3, Answered DEF Answers
<1>7. HalvesFit'
  BY <1>1, <1>2, <1>4, <1>5, <1>6, IdsDiffer, NothingHalf DEF Settled
<1> QED BY <1>4, <1>6, <1>7 DEF FilesInv

(* An entry is restored or purged before its origin is forgotten.          *)
LEMMA RestoreEntryKeeps ==
  ASSUME FilesInv, RestoreEntry \/ PurgeEntry
  PROVE  FilesInv'
<1>1. PICK t : t = op.id
  OBVIOUS
<1>2. /\ t \in TrashIds /\ op.do \in {"restore", "purge"}
      /\ op.do = "restore" => op.path \in Paths
  BY <1>1 DEF RestoreEntry, PurgeEntry, At, FilesInv, OpFits, RestoreFits, PurgeFits
<1>3. /\ \/ op.do = "restore" /\ tree' = [tree EXCEPT ![op.path] = item[t]]
         \/ tree' = tree
      /\ item' = [item EXCEPT ![t] = None] /\ GoOn("last") /\ UNCHANGED <<part, meta, origin>>
  BY <1>1 DEF RestoreEntry, PurgeEntry, At
<1>4. FilesFit' /\ UploadsFit' /\ item'[t] = None
  BY <1>2, <1>3, FilesAreTyped, UploadsSame DEF FilesInv, FilesFit
<1>5. OnlyMine
  BY <1>1, <1>2, <1>3, FilesAreTyped, OnlyTrash
<1>6. OpFits'
  BY <1>1, <1>2, <1>3, <1>4, GoingOn DEF OpFits, RestoreFits, PurgeFits
<1>7. HalvesFit'
  BY <1>1, <1>3, <1>5, GoingOn, NothingHalf
<1> QED BY <1>3, <1>4, <1>6, <1>7, GoingOn DEF FilesInv

(* Then nobody remembers where it came from.                               *)
LEMMA ForgetOriginKeeps ==
  ASSUME FilesInv, ForgetOrigin
  PROVE  FilesInv'
<1>1. PICK t : t = op.id
  OBVIOUS
<1>2. t \in TrashIds /\ item[t] = None
  BY <1>1 DEF ForgetOrigin, FilesInv, OpFits, RestoreFits, PurgeFits
<1>3. /\ origin' = [origin EXCEPT ![t] = None] /\ Finish("ok")
      /\ UNCHANGED <<tree, part, meta, item>>
  BY <1>1 DEF ForgetOrigin
<1>4. FilesFit' /\ UploadsFit' /\ item'[t] = None /\ origin'[t] = None
  BY <1>2, <1>3, FilesAreTyped, UploadsSame DEF FilesInv, FilesFit
<1>5. OnlyMine
  BY <1>1, <1>2, <1>3, FilesAreTyped, OnlyTrash
<1>6. OpFits' /\ RestFits' /\ cuts' = cuts
  BY <1>3, Answered DEF Answers
<1>7. HalvesFit'
  BY <1>1, <1>2, <1>4, <1>5, <1>6, IdsDiffer, NothingHalf DEF Settled
<1> QED BY <1>4, <1>6, <1>7 DEF FilesInv

-----------------------------------------------------------------------------
(* What clients of SMB do in between.                                      *)
LEMMA IntrudeKeeps ==
  ASSUME FilesInv, NEW p \in Paths, NEW v \in {None} \cup Content, Intrude(p, v)
  PROVE  FilesInv'
<1>1. /\ UNCHANGED <<part, meta, item, origin, quota, reserve, raised, op, said, cuts>>
      /\ tree' = [tree EXCEPT ![p] = v] /\ intruded' = intruded \cup {p}
      /\ intrusions' = intrusions + 1
  BY DEF Intrude, policy
<1>2. FilesFit' /\ UploadsFit'
  BY <1>1, FilesAreTyped, UploadsSame DEF FilesInv, FilesFit
<1>3. RestFits'
  BY <1>1 DEF FilesInv, RestFits
<1>4. \A q \in Paths : Vacant(q) => Vacant(q)'
  BY <1>1, FilesAreTyped DEF Vacant
<1>5. OpFits'
  <2>1. /\ op.do = "idle" => (op = Idle)'
        /\ op.do \in {"create", "put"} => CreateFits'
        /\ op.do = "chunk"    => ChunkFits'
        /\ op.do = "complete" => CompleteFits'
        /\ op.do = "cancel"   => CancelFits'
        /\ op.do = "purge"    => PurgeFits'
    BY <1>1 DEF FilesInv, OpFits, CreateFits, ChunkFits, CompleteFits, CancelFits, PurgeFits, Listed,
                Missing, InTrash, Idle
  <2>2. op.do = "move" => MoveFits'
    BY <1>1, <1>4 DEF FilesInv, OpFits, MoveFits, Vacant
  <2>3. op.do = "trash" => TrashFits'
    BY <1>1, <1>4 DEF FilesInv, OpFits, TrashFits, Vacant
  <2>4. op.do = "restore" => RestoreFits'
    BY <1>1, <1>4 DEF FilesInv, OpFits, RestoreFits, InTrash, Vacant
  <2> QED BY <1>1, <2>1, <2>2, <2>3, <2>4 DEF OpFits
<1>6. HalvesFit'
  BY <1>1 DEF FilesInv, HalvesFit, Halves, HalvesAreCuts, Unused, Listed, InTrash
<1> QED BY <1>2, <1>3, <1>5, <1>6 DEF FilesInv

-----------------------------------------------------------------------------
(* The theorems.                                                           *)

(* At first there is nothing.                                              *)
LEMMA FilesBegin == Init => FilesInv
<1> SUFFICES ASSUME Init PROVE FilesInv
  OBVIOUS
<1>1. FilesFit /\ UploadsFit
  BY DEF Init, FilesFit, UploadsFit, UploadFits, RecordFits, Listed
<1>2. OpFits
  BY DEF Init, OpFits, Idle, Work
<1>3. RestFits
  BY DEF Init, RestFits, Idle, Work, Deeds, Answers
<1>4. Halves = {}
  BY DEF Init, Halves, Unused, Listed, InTrash
<1>5. HalvesFit
  BY <1>4, FS_EmptySet DEF HalvesFit, HalvesAreCuts, Init
<1> QED BY <1>1, <1>2, <1>3, <1>5 DEF FilesInv

(* Every step of a mutation keeps the invariant.                           *)
LEMMA CoreStepKeeps ==
  ASSUME FilesInv, CoreStep
  PROVE  FilesInv'
<1>1. CASE CreatePart \/ CreateMetadata \/ CreateUndone
  BY <1>1, CreatePartKeeps, CreateMetadataKeeps, CreateUndoneKeeps
<1>2. CASE WriteChunk \/ WriteChunkBotched \/ RecordChunk \/ ChunkUndone
  BY <1>2, WriteChunkKeeps, RecordChunkKeeps, ChunkUndoneKeeps
<1>3. CASE InstallPart \/ RemoveSession \/ RemovePart \/ PartRemains
  BY <1>3, InstallPartKeeps, RemoveSessionKeeps, RemovePartKeeps, PartRemainsKeeps
<1>4. CASE WriteTemp \/ ReplaceFile \/ PutUndone
  BY <1>4, WriteTempKeeps, ReplaceFileKeeps, CreateUndoneKeeps
<1>5. CASE Rename \/ TrashEntry \/ RecordOrigin \/ TrashUndone
  BY <1>5, RenameKeeps, TrashEntryKeeps, RecordOriginKeeps, TrashUndoneKeeps
<1>6. CASE RestoreEntry \/ PurgeEntry \/ ForgetOrigin
  BY <1>6, RestoreEntryKeeps, ForgetOriginKeeps
<1>7. CASE TargetExists \/ SessionRemains \/ FirstFails \/ UndoFails \/ CoreDies
  BY <1>7, FailuresKeep
<1> QED BY <1>1, <1>2, <1>3, <1>4, <1>5, <1>6, <1>7 DEF CoreStep

(* So does every step.                                                     *)
LEMMA FilesStep ==
  ASSUME FilesInv, [Next]_fileVars
  PROVE  FilesInv'
<1>1. CASE CoreStep
  BY <1>1, CoreStepKeeps
<1>2. CASE Outside
  <2>1. \A v \in Outsiders : Whole(v) \in Content
    BY FileAssumption, WholesAreStored
  <2> QED BY <1>2, <2>1, IntrudeKeeps DEF Outside
<1>3. CASE \E c \in Callers : Request(c)
  BY <1>3, RequestsKeep
<1>4. CASE UNCHANGED fileVars
  <2>1. UNCHANGED <<tree, part, meta, item, origin, quota, reserve, raised, op, said, intruded,
                    cuts, intrusions>>
    BY <1>4 DEF fileVars, disk, policy, budget
  <2>2. FilesFit' /\ UploadsFit'
    BY <2>1, UploadsSame DEF FilesInv, FilesFit
  <2>3. RestFits'
    BY <2>1 DEF FilesInv, RestFits
  <2>4. OpFits'
    BY <2>1 DEF FilesInv, OpFits, CreateFits, ChunkFits, CompleteFits, CancelFits, MoveFits,
                TrashFits, RestoreFits, PurgeFits, Listed, Missing, InTrash, Vacant
  <2>5. HalvesFit'
    BY <2>1 DEF FilesInv, HalvesFit, Halves, HalvesAreCuts, Unused, Listed, InTrash
  <2> QED BY <2>2, <2>3, <2>4, <2>5 DEF FilesInv
<1> QED BY <1>1, <1>2, <1>3, <1>4 DEF Next

(* What is stored is sound, whatever fails and whoever else writes.        *)
THEOREM FilesKept == Spec => []FilesInv
<1>1. FilesInv /\ [Next]_fileVars => FilesInv'
  BY FilesStep
<1> QED BY <1>1, FilesBegin, PTL DEF Spec

(* The invariant says what the property says.                              *)
LEMMA InvIsSound == FilesInv => FilesAreSound
<1> SUFFICES ASSUME FilesInv PROVE FilesAreSound
  OBVIOUS
<1>1. \A c \in Content : c \in Seq(Blocks)
  BY ContentsAreStored
<1>2. tree \in [Paths -> {None} \cup Seq(Blocks)] /\ item \in [TrashIds -> {None} \cup Seq(Blocks)]
  BY <1>1, FilesAreTyped
<1>3. TypeOK
  BY <1>2, FilesAreTyped DEF TypeOK, FilesInv, RestFits, UploadFits, RecordFits, Answers
<1>4. PublishedIsWhole
  BY FilesAreTyped DEF PublishedIsWhole
<1>5. SessionIsTrue
  BY FilesAreTyped DEF SessionIsTrue, UploadFits
<1> QED BY <1>3, <1>4, <1>5 DEF FilesAreSound, FilesInv, HalvesFit

(* Typed files, each of one whole version; sessions that hold what they    *)
(* tell; and no more halves than failures (FilesAreSound).                 *)
THEOREM FilesHold == Spec => []FilesAreSound
BY FilesKept, InvIsSound, PTL

(* A content that is lost was lost in one of the ways that are named.      *)
LossAllowed(c) ==
  \/ intrusions' # intrusions \/ op.do \in {"put", "purge"}
  \/ /\ op.do \in {"move", "restore", "trash"}
     /\ \E p \in intruded : tree[p] = c

(* Where the visible files grow and the trash stays, nothing is lost.      *)
LEMMA NothingLost ==
  ASSUME NEW c, UNCHANGED <<tree, item>>, Kept(c)
  PROVE  Kept(c)'
BY DEF Kept

(* A commit covers nothing.                                                *)
LEMMA CommitLosesNothing ==
  ASSUME FilesInv, InstallPart, NEW c \in Content, Kept(c)
  PROVE  Kept(c)'
<1>1. c # None
  BY ContentsAreStored
<1>2. /\ op.path \in Paths /\ tree[op.path] = None /\ item' = item
      /\ tree' = [tree EXCEPT ![op.path] = part[op.id]]
  BY DEF InstallPart, At, FilesInv, OpFits, CompleteFits
<1>3. \A p \in Paths : tree[p] = c => tree'[p] = c
  BY <1>1, <1>2, FilesAreTyped
<1> QED BY <1>2, <1>3 DEF Kept

(* A file that is put where another was is not lost itself, and the other  *)
(* came over SMB.                                                          *)
LEMMA CoverIsAllowed ==
  ASSUME FilesInv, NEW c \in Content, Kept(c), ~Kept(c)', NEW q \in Paths, Vacant(q),
         \A p \in Paths : p # q /\ tree[p] = c => Kept(c)',
         \A t \in TrashIds : item[t] = c => Kept(c)'
  PROVE  \E p \in intruded : tree[p] = c
<1>1. tree[q] = c
  BY DEF Kept
<1>2. c # None
  BY ContentsAreStored
<1> QED BY <1>1, <1>2 DEF Vacant

(* A move, a restore and the way back of the trash.                        *)
LEMMA MovesLoseNothing ==
  ASSUME FilesInv, NEW c \in Content, Kept(c), ~Kept(c)',
         Rename \/ TrashEntry \/ TrashUndone \/ RestoreEntry
  PROVE  op.do \in {"move", "restore", "trash"} /\ \E p \in intruded : tree[p] = c
<1>1. c # None
  BY ContentsAreStored
<1>2. CASE Rename
  <2>1. /\ op.do = "move" /\ op.path \in Paths /\ op.to \in Paths /\ Vacant(op.to)
        /\ item' = item
    BY <1>2 DEF Rename, At, FilesInv, OpFits, MoveFits
  <2>2. tree[op.path] # None
    BY <1>2, <2>1, NothingLost DEF Rename
  <2>3. tree' = [tree EXCEPT ![op.to] = tree[op.path], ![op.path] = None]
    BY <1>2, <2>2 DEF Rename
  <2>4. CASE op.path = op.to
    <3>1. op.to \in intruded
      BY <2>1, <2>2, <2>4 DEF Vacant
    <3>2. ASSUME NEW p \in Paths, p # op.to, tree[p] = c
          PROVE  Kept(c)'
      <4>1. tree'[p] = c
        BY <2>1, <2>3, <2>4, <3>2, FilesAreTyped
      <4> QED BY <4>1 DEF Kept
    <3>3. \A t \in TrashIds : item[t] = c => Kept(c)'
      BY <2>1 DEF Kept
    <3> QED BY <2>1, <3>2, <3>3, CoverIsAllowed
  <2>5. CASE op.path # op.to
    <3>1. ASSUME NEW p \in Paths, p # op.to, tree[p] = c
          PROVE  Kept(c)'
      <4>1. tree'[op.to] = c \/ tree'[p] = c
        BY <2>1, <2>3, <2>5, <3>1, FilesAreTyped
      <4> QED BY <2>1, <4>1 DEF Kept
    <3>2. \A t \in TrashIds : item[t] = c => Kept(c)'
      BY <2>1 DEF Kept
    <3> QED BY <2>1, <3>1, <3>2, CoverIsAllowed
  <2> QED BY <2>4, <2>5
<1>3. CASE TrashEntry
  <2>1. op.path \in Paths /\ op.id \in TrashIds /\ item[op.id] = None
    BY <1>3 DEF TrashEntry, At, FilesInv, OpFits, TrashFits
  <2>2. tree[op.path] # None
    BY <1>3, NothingLost DEF TrashEntry
  <2>3. item' = [item EXCEPT ![op.id] = tree[op.path]] /\ tree' = [tree EXCEPT ![op.path] = None]
    BY <1>3, <2>2 DEF TrashEntry
  <2>4. ASSUME NEW p \in Paths, tree[p] = c
        PROVE  Kept(c)'
    <3>1. tree'[p] = c \/ item'[op.id] = c
      BY <2>1, <2>3, <2>4, FilesAreTyped
    <3> QED BY <2>1, <3>1 DEF Kept
  <2>5. ASSUME NEW t \in TrashIds, item[t] = c
        PROVE  Kept(c)'
    <3>1. item'[t] = c
      BY <1>1, <2>1, <2>3, <2>5, FilesAreTyped
    <3> QED BY <3>1 DEF Kept
  <2> QED BY <2>4, <2>5 DEF Kept
<1>4. CASE TrashUndone \/ RestoreEntry
  <2>1. /\ op.do \in {"restore", "trash"} /\ op.path \in Paths /\ op.id \in TrashIds
        /\ Vacant(op.path)
    BY <1>4 DEF TrashUndone, RestoreEntry, At, FilesInv, OpFits, TrashFits, RestoreFits
  <2>2. tree' = [tree EXCEPT ![op.path] = item[op.id]] /\ item' = [item EXCEPT ![op.id] = None]
    BY <1>4 DEF TrashUndone, RestoreEntry
  <2>3. ASSUME NEW p \in Paths, p # op.path, tree[p] = c
        PROVE  Kept(c)'
    <3>1. tree'[p] = c
      BY <2>1, <2>2, <2>3, FilesAreTyped
    <3> QED BY <3>1 DEF Kept
  <2>4. ASSUME NEW t \in TrashIds, item[t] = c
        PROVE  Kept(c)'
    <3>1. tree'[op.path] = c \/ item'[t] = c
      BY <2>1, <2>2, <2>4, FilesAreTyped
    <3> QED BY <2>1, <3>1 DEF Kept
  <2> QED BY <2>1, <2>3, <2>4, CoverIsAllowed
<1> QED BY <1>2, <1>3, <1>4

(* No step loses what nobody gave up.                                      *)
LEMMA LossStep ==
  ASSUME FilesInv, [Next]_fileVars, NEW c \in Content, Kept(c), ~Kept(c)'
  PROVE  LossAllowed(c)
<1>1. ~UNCHANGED <<tree, item>>
  BY NothingLost
<1>2. CASE CoreStep
  <2>1. CASE InstallPart
    BY <2>1, CommitLosesNothing
  <2>2. CASE ReplaceFile \/ PurgeEntry
    BY <2>2 DEF ReplaceFile, PurgeEntry, At, LossAllowed
  <2>3. CASE Rename \/ TrashEntry \/ TrashUndone \/ RestoreEntry
    BY <2>3, MovesLoseNothing DEF LossAllowed
  <2>4. CASE CreatePart \/ CreateMetadata \/ CreateUndone \/ WriteChunk \/ WriteChunkBotched
    BY <1>1, <2>4 DEF CreatePart, CreateMetadata, CreateUndone, WriteChunk, WriteChunkBotched
  <2>5. CASE RecordChunk \/ ChunkUndone \/ RemoveSession \/ RemovePart \/ PartRemains
    BY <1>1, <2>5 DEF RecordChunk, ChunkUndone, RemoveSession, RemovePart, PartRemains
  <2>6. CASE WriteTemp \/ PutUndone \/ RecordOrigin \/ ForgetOrigin
    BY <1>1, <2>6 DEF WriteTemp, PutUndone, RecordOrigin, ForgetOrigin
  <2>7. CASE TargetExists \/ SessionRemains \/ FirstFails \/ UndoFails \/ CoreDies
    BY <1>1, <2>7 DEF TargetExists, SessionRemains, FirstFails, UndoFails, CoreDies, disk
  <2> QED BY <1>2, <2>1, <2>2, <2>3, <2>4, <2>5, <2>6, <2>7 DEF CoreStep
<1>3. CASE Outside
  BY <1>3 DEF Outside, Intrude, LossAllowed, FilesInv, RestFits
<1>4. CASE \E c1 \in Callers : Request(c1)
  <2>1. PICK c1 \in Callers : Request(c1)
    BY <1>4
  <2>2. UNCHANGED <<tree, item>>
    <3>1. \A x, why : Refuse(x, why) => UNCHANGED <<tree, item>>
      BY DEF Refuse, disk
    <3>2. \A x, w : Begin(x, w) => UNCHANGED <<tree, item>>
      BY DEF Begin, disk
    <3>3. CASE fileFolderUploads(c1) \/ fileFolderContent(c1) \/ fileFolderUploadChunk(c1)
      BY <3>1, <3>2, <3>3 DEF fileFolderUploads, fileFolderContent, fileFolderUploadChunk,
           CreateUpload, UploadLimited, AppendUploadChunk
    <3>4. CASE fileFolderUploadComplete(c1) \/ fileFolderUpload(c1) \/ fileFolderMove(c1)
      BY <3>1, <3>2, <3>4 DEF fileFolderUploadComplete, fileFolderUpload, fileFolderMove,
           CompleteUpload, CancelUpload, Move
    <3>5. CASE fileFolderEntry(c1) \/ fileFolderTrashRestore(c1) \/ fileFolderTrashPurge(c1)
      BY <3>1, <3>2, <3>5 DEF fileFolderEntry, fileFolderTrashRestore, fileFolderTrashPurge,
           Trash, RestoreTrash, PurgeTrash
    <3>6. CASE fileFolderManagement(c1) \/ fileUserQuotas(c1) \/ filePoolCapacityPolicy(c1)
      BY <3>6 DEF fileFolderManagement, fileUserQuotas, filePoolCapacityPolicy, SetQuota,
           SetReserve, disk
    <3> QED BY <2>1, <3>3, <3>4, <3>5, <3>6 DEF Request
  <2> QED BY <1>1, <2>2
<1>5. CASE UNCHANGED fileVars
  BY <1>1, <1>5 DEF fileVars, disk
<1> QED BY <1>2, <1>3, <1>4, <1>5 DEF Next

(* The last copy of a file goes only when somebody asked for it            *)
(* (LossIsAsked).                                                          *)
THEOREM LossesAreAsked == Spec => LossIsAsked
<1>1. FilesInv /\ [Next]_fileVars
      => [\A c \in Content : Kept(c) /\ ~Kept(c)' =>
            \/ intrusions' # intrusions \/ op.do \in {"put", "purge"}
            \/ /\ op.do \in {"move", "restore", "trash"}
               /\ \E p \in intruded : tree[p] = c]_fileVars
  BY LossStep DEF LossAllowed
<1> QED BY <1>1, FilesKept, PTL DEF Spec, LossIsAsked

-----------------------------------------------------------------------------
(* Uploads and entries of the trash stay in their folder.                  *)

(* A request is made for a path and an id of one folder.                   *)
LEMMA HomesOfRequest ==
  ASSUME FilesInv, HomesFit, NEW c \in Callers, Request(c)
  PROVE  HomesFit'
<1>1. ASSUME NEW x, NEW why, Refuse(x, why)
      PROVE  HomesFit'
  BY <1>1 DEF Refuse, disk, HomesFit
<1>2. ASSUME NEW x, NEW do, NEW path, NEW to, NEW id, NEW of, Begin(x, Work(do, path, to, id, of)),
             do \in {"create", "put", "complete", "trash", "restore"} => FolderOf[id] = FolderOf[path],
             do = "move" => FolderOf[to] = FolderOf[path]
      PROVE  HomesFit'
  BY <1>2, WorkBegun DEF HomesFit
<1>3. CASE fileFolderUploads(c)
  BY <1>1, <1>2, <1>3 DEF fileFolderUploads, CreateUpload
<1>4. CASE fileFolderContent(c)
  BY <1>1, <1>2, <1>4 DEF fileFolderContent, UploadLimited
<1>5. CASE fileFolderUploadChunk(c)
  BY <1>1, <1>2, <1>5 DEF fileFolderUploadChunk, AppendUploadChunk
<1>6. CASE fileFolderUploadComplete(c)
  BY <1>1, <1>2, <1>6 DEF fileFolderUploadComplete, CompleteUpload, Listed, HomesFit
<1>7. CASE fileFolderUpload(c)
  BY <1>1, <1>2, <1>7 DEF fileFolderUpload, CancelUpload
<1>8. CASE fileFolderMove(c)
  BY <1>1, <1>2, <1>8 DEF fileFolderMove, Move
<1>9. CASE fileFolderEntry(c)
  BY <1>1, <1>2, <1>9 DEF fileFolderEntry, Trash
<1>10. CASE fileFolderTrashRestore(c)
  BY <1>1, <1>2, <1>10 DEF fileFolderTrashRestore, RestoreTrash, InTrash, HomesFit
<1>11. CASE fileFolderTrashPurge(c)
  BY <1>1, <1>2, <1>11 DEF fileFolderTrashPurge, PurgeTrash
<1>12. CASE fileFolderManagement(c) \/ fileUserQuotas(c) \/ filePoolCapacityPolicy(c)
  <2>1. UNCHANGED <<meta, origin, op>>
    BY <1>12 DEF fileFolderManagement, fileUserQuotas, filePoolCapacityPolicy, SetQuota,
         SetReserve, disk
  <2> QED BY <2>1 DEF HomesFit
<1> QED BY <1>3, <1>4, <1>5, <1>6, <1>7, <1>8, <1>9, <1>10, <1>11, <1>12 DEF Request

(* A mutation records the path it was asked for.                           *)
LEMMA HomesOfStep ==
  ASSUME FilesInv, HomesFit, CoreStep
  PROVE  HomesFit'
<1>1. GoOn("last") => op'.do = op.do /\ op'.id = op.id /\ op'.path = op.path /\ op'.to = op.to
  BY GoingOn
<1>2. /\ \A why : Answer(why) => op'.do = "idle"
      /\ \A why : Finish(why) => op'.do = "idle"
      /\ GiveUp => op'.do = "idle"
      /\ \A why : Botch(why) => op'.do = "idle"
  BY DEF Finish, GiveUp, Botch, Answer, Idle, Work
<1>3. op'.do = "idle" \/ (/\ op'.do = op.do /\ op'.id = op.id /\ op'.path = op.path
                          /\ op'.to = op.to)
  <2>1. CASE CreatePart \/ WriteChunk \/ InstallPart \/ RemovePart \/ WriteTemp
    BY <1>1, <2>1 DEF CreatePart, WriteChunk, InstallPart, RemovePart, WriteTemp
  <2>2. CASE TrashEntry \/ RestoreEntry \/ PurgeEntry
    BY <1>1, <1>2, <2>2 DEF TrashEntry, RestoreEntry, PurgeEntry
  <2>3. CASE CreateMetadata \/ CreateUndone \/ WriteChunkBotched \/ RecordChunk \/ ChunkUndone
    BY <1>2, <2>3 DEF CreateMetadata, CreateUndone, WriteChunkBotched, RecordChunk, ChunkUndone
  <2>4. CASE TargetExists \/ RemoveSession \/ SessionRemains \/ PartRemains \/ ReplaceFile
    BY <1>2, <2>4 DEF TargetExists, RemoveSession, SessionRemains, PartRemains, ReplaceFile
  <2>5. CASE PutUndone \/ Rename \/ RecordOrigin \/ TrashUndone \/ ForgetOrigin
    BY <1>2, <2>5 DEF PutUndone, Rename, RecordOrigin, TrashUndone, ForgetOrigin
  <2>6. CASE FirstFails \/ UndoFails \/ CoreDies
    BY <1>2, <2>6 DEF FirstFails, UndoFails, CoreDies
  <2> QED BY <2>1, <2>2, <2>3, <2>4, <2>5, <2>6 DEF CoreStep
<1>4. CASE UNCHANGED <<meta, origin>>
  BY <1>3, <1>4 DEF HomesFit
<1>5. CASE CreateMetadata
  <2>1. PICK u \in Uploads : u = op.id /\ FolderOf[op.path] = FolderOf[u]
    BY <1>5 DEF CreateMetadata, At, FilesInv, OpFits, CreateFits, HomesFit
  <2>2. /\ meta' = [meta EXCEPT ![u] = [path |-> op.path, of |-> op.of, sum |-> op.to, got |-> <<>>]]
        /\ origin' = origin
    BY <1>5, <2>1 DEF CreateMetadata
  <2>3. meta'[u].path = op.path
    BY <2>1, <2>2, FilesAreTyped
  <2> QED BY <1>3, <2>1, <2>2, <2>3, FilesAreTyped DEF HomesFit
<1>6. CASE RecordChunk
  <2>1. PICK u \in Uploads : u = op.id /\ meta[u] # None
    BY <1>6 DEF RecordChunk, At, FilesInv, OpFits, ChunkFits
  <2>2. meta' = [meta EXCEPT ![u].got = Append(@, op.of)] /\ origin' = origin
    BY <1>6, <2>1 DEF RecordChunk
  <2>3. meta[u] \in UploadSession
    BY <2>1, FilesAreTyped
  <2>4. meta'[u].path = meta[u].path
    BY <2>1, <2>2, <2>3, FilesAreTyped DEF UploadSession
  <2> QED BY <1>3, <2>1, <2>2, <2>4, FilesAreTyped DEF HomesFit
<1>7. CASE RemoveSession \/ PartRemains
  <2>1. meta' = [meta EXCEPT ![op.id] = None] /\ origin' = origin
    BY <1>7 DEF RemoveSession, PartRemains
  <2> QED BY <1>3, <2>1, FilesAreTyped DEF HomesFit
<1>8. CASE RecordOrigin
  <2>1. PICK t \in TrashIds : t = op.id /\ FolderOf[op.path] = FolderOf[t]
    BY <1>8 DEF RecordOrigin, At, FilesInv, OpFits, TrashFits, HomesFit
  <2>2. origin' = [origin EXCEPT ![t] = op.path] /\ meta' = meta
    BY <1>8, <2>1 DEF RecordOrigin
  <2> QED BY <1>3, <2>1, <2>2, FilesAreTyped DEF HomesFit
<1>9. CASE ForgetOrigin
  <2>1. origin' = [origin EXCEPT ![op.id] = None] /\ meta' = meta
    BY <1>9 DEF ForgetOrigin
  <2> QED BY <1>3, <2>1, FilesAreTyped DEF HomesFit
<1>10. CASE CreatePart \/ CreateUndone \/ WriteChunk \/ WriteChunkBotched \/ ChunkUndone
  BY <1>4, <1>10 DEF CreatePart, CreateUndone, WriteChunk, WriteChunkBotched, ChunkUndone
<1>11. CASE InstallPart \/ RemovePart \/ WriteTemp \/ ReplaceFile \/ PutUndone
  BY <1>4, <1>11 DEF InstallPart, RemovePart, WriteTemp, ReplaceFile, PutUndone
<1>12. CASE Rename \/ TrashEntry \/ TrashUndone \/ RestoreEntry \/ PurgeEntry
  BY <1>4, <1>12 DEF Rename, TrashEntry, TrashUndone, RestoreEntry, PurgeEntry
<1>13. CASE TargetExists \/ SessionRemains \/ FirstFails \/ UndoFails \/ CoreDies
  BY <1>4, <1>13 DEF TargetExists, SessionRemains, FirstFails, UndoFails, CoreDies, disk
<1> QED BY <1>5, <1>6, <1>7, <1>8, <1>9, <1>10, <1>11, <1>12, <1>13 DEF CoreStep

(* So does every step.                                                     *)
LEMMA HomesStep ==
  ASSUME FilesInv, HomesFit, [Next]_fileVars
  PROVE  HomesFit'
<1>1. CASE Outside
  BY <1>1 DEF Outside, Intrude, HomesFit
<1>2. CASE UNCHANGED fileVars
  BY <1>2 DEF fileVars, disk, HomesFit
<1> QED BY <1>1, <1>2, HomesOfRequest, HomesOfStep DEF Next

-----------------------------------------------------------------------------
(* How much is stored and promised.                                        *)

(* The blocks of a table that gives each of S a number of them.            *)
Area(S, n) == UNION {{x} \X (1..n[x]) : x \in S}

(* A column of them.                                                       *)
LEMMA ColumnIsFinite ==
  ASSUME NEW x, NEW k \in Nat
  PROVE  IsFiniteSet({x} \X (1..k)) /\ Cardinality({x} \X (1..k)) = k
<1>1. IsFiniteSet({x}) /\ Cardinality({x}) = 1
  BY FS_Singleton
<1>2. 1 \in Int /\ k \in Int
  OBVIOUS
<1>3. IsFiniteSet(1..k) /\ Cardinality(1..k) = IF 1 > k THEN 0 ELSE k - 1 + 1
  BY <1>2, FS_Interval
<1>4. Cardinality(1..k) = k
  BY <1>3
<1>5. /\ IsFiniteSet({x} \X (1..k))
      /\ Cardinality({x} \X (1..k)) = Cardinality({x}) * Cardinality(1..k)
  <2>1. \A T : IsFiniteSet(T) => /\ IsFiniteSet({x} \X T)
                                 /\ Cardinality({x} \X T) = Cardinality({x}) * Cardinality(T)
    BY <1>1, FS_Product, Zenon
  <2> QED BY <1>3, <2>1, Zenon
<1>6. 1 * k = k
  OBVIOUS
<1> QED BY <1>1, <1>4, <1>5, <1>6

(* They are finitely many.                                                 *)
LEMMA AreaIsFinite ==
  ASSUME NEW S, IsFiniteSet(S), NEW n \in [S -> Nat]
  PROVE  IsFiniteSet(Area(S, n)) /\ Cardinality(Area(S, n)) \in Nat
<1> DEFINE col == [x \in S |-> {x} \X (1..n[x])]
           Cols == {col[x] : x \in S}
<1>1. ASSUME NEW x \in S
      PROVE  IsFiniteSet(col[x])
  BY ColumnIsFinite
<1>2. col \in Surjection(S, Cols)
  BY DEF Surjection
<1> HIDE DEF col
<1>3. IsFiniteSet(Cols)
  BY <1>2, FS_Surjection DEF ExistsSurjection
<1>4. IsFiniteSet(UNION Cols)
  BY <1>1, <1>3, FS_UNION
<1>5. Area(S, n) = UNION Cols
  BY DEF Area, col
<1> QED BY <1>4, <1>5, FS_CardinalityType

(* One of them has what the table says, beside the others.                 *)
LEMMA AreaOfOne ==
  ASSUME NEW S, IsFiniteSet(S), NEW n \in [S -> Nat], NEW x \in S
  PROVE  /\ Cardinality(Area(S \ {x}, n)) \in Nat
         /\ Cardinality(Area(S, n)) = Cardinality(Area(S \ {x}, n)) + n[x]
<1> DEFINE Rest == Area(S \ {x}, n)
           Column == {x} \X (1..n[x])
<1>1. [y \in S \ {x} |-> n[y]] \in [S \ {x} -> Nat] /\ IsFiniteSet(S \ {x})
  BY FS_Subset
<1>2. Rest = Area(S \ {x}, [y \in S \ {x} |-> n[y]])
  BY DEF Area
<1>3. IsFiniteSet(Rest) /\ Cardinality(Rest) \in Nat
  BY <1>1, <1>2, AreaIsFinite
<1>4. n[x] \in Nat
  OBVIOUS
<1>5. IsFiniteSet(Column) /\ Cardinality(Column) = n[x]
  BY <1>4, ColumnIsFinite
<1>6. Area(S, n) = Rest \cup Column
  BY DEF Area
<1>7. Rest \cap Column = {}
  BY DEF Area
<1> HIDE DEF Rest, Column
<1>8. /\ Cardinality(Rest \cup Column) = Cardinality(Rest) + Cardinality(Column)
                                        - Cardinality(Rest \cap Column)
      /\ Cardinality(Rest \cap Column) = 0
  BY <1>3, <1>5, <1>7, FS_Union, FS_EmptySet
<1>9. Cardinality(Area(S, n)) = Cardinality(Rest) + n[x]
  BY <1>3, <1>4, <1>5, <1>6, <1>8
<1> QED BY <1>3, <1>9 DEF Rest

(* Where one entry of the table changes, so does the number of the blocks. *)
LEMMA AreaChanges ==
  ASSUME NEW S, IsFiniteSet(S), NEW n \in [S -> Nat], NEW m \in [S -> Nat], NEW x \in S,
         \A y \in S : y # x => m[y] = n[y]
  PROVE  /\ Cardinality(Area(S, n)) \in Nat /\ Cardinality(Area(S, m)) \in Nat
         /\ Cardinality(Area(S, m)) + n[x] = Cardinality(Area(S, n)) + m[x]
<1>1. Area(S \ {x}, n) = Area(S \ {x}, m)
  BY DEF Area
<1> QED BY <1>1, AreaIsFinite, AreaOfOne

-----------------------------------------------------------------------------
(* The blocks of a file, an entry of the trash or a part.                  *)
Long(c) == IF c = None THEN 0 ELSE Len(c)
Stored  == {None} \cup Seq(Blocks)

(* What is held is an area.                                                *)
LEMMA HeldIsArea ==
  ASSUME NEW S, NEW fn \in [S -> Stored]
  PROVE  /\ [x \in S |-> Long(fn[x])] \in [S -> Nat]
         /\ Held(fn) = Area(S, [x \in S |-> Long(fn[x])])
<1>1. ASSUME NEW x \in S
      PROVE  /\ Long(fn[x]) \in Nat
             /\ fn[x] # None => DOMAIN fn[x] = 1..Long(fn[x])
             /\ fn[x] = None => Long(fn[x]) = 0
  BY DEF Long, Stored
<1> DEFINE n == [x \in S |-> Long(fn[x])]
<1>2. n \in [S -> Nat] /\ \A x \in S : n[x] = Long(fn[x])
  BY <1>1
<1>3. ASSUME NEW b
      PROVE  b \in Held(fn) <=> b \in Area(S, n)
  <2>1. b \in Held(fn) <=> \E x \in S : fn[x] # None /\ b \in {x} \X DOMAIN fn[x]
    BY DEF Held
  <2>2. b \in Area(S, n) <=> \E x \in S : b \in {x} \X (1..n[x])
    BY DEF Area
  <2>3. ASSUME NEW x \in S
        PROVE  (fn[x] # None /\ b \in {x} \X DOMAIN fn[x]) <=> b \in {x} \X (1..n[x])
    <3>1. CASE fn[x] # None
      BY <1>1, <1>2, <3>1
    <3>2. CASE fn[x] = None
      <4>1. 1..n[x] = {}
        BY <1>1, <1>2, <3>2
      <4> QED BY <3>2, <4>1
    <3> QED BY <3>1, <3>2
  <2> QED BY <2>1, <2>2, <2>3
<1> QED BY <1>2, <1>3

(* Blocks that lie in one of the folders f.                                *)
Here(x, f, k) == IF FolderOf[x] \in f THEN k ELSE 0

(* So is what a cap counts.                                                *)
LEMMA HeldInIsArea ==
  ASSUME NEW S, NEW fn \in [S -> Stored], NEW f
  PROVE  /\ [x \in S |-> Here(x, f, Long(fn[x]))] \in [S -> Nat]
         /\ HeldIn(fn, f) = Area(S, [x \in S |-> Here(x, f, Long(fn[x]))])
<1> DEFINE n == [x \in S |-> Long(fn[x])]
           m == [x \in S |-> Here(x, f, Long(fn[x]))]
<1>1. n \in [S -> Nat] /\ Held(fn) = Area(S, n)
  BY HeldIsArea
<1>2. m \in [S -> Nat] /\ \A x \in S : m[x] = IF FolderOf[x] \in f THEN n[x] ELSE 0
  BY <1>1 DEF Here
<1> HIDE DEF m, n
<1>3. ASSUME NEW b
      PROVE  b \in HeldIn(fn, f) <=> b \in Area(S, m)
  <2>1. b \in HeldIn(fn, f) <=> b \in Area(S, n) /\ FolderOf[b[1]] \in f
    BY <1>1 DEF HeldIn
  <2>2. b \in Area(S, n) <=> \E x \in S : b \in {x} \X (1..n[x])
    BY DEF Area
  <2>3. b \in Area(S, m) <=> \E x \in S : b \in {x} \X (1..m[x])
    BY DEF Area
  <2>4. ASSUME NEW x \in S
        PROVE  b \in {x} \X (1..m[x]) <=> b \in {x} \X (1..n[x]) /\ FolderOf[b[1]] \in f
    <3>1. CASE FolderOf[x] \in f
      BY <1>2, <3>1
    <3>2. CASE FolderOf[x] \notin f
      <4>1. 1..m[x] = {}
        BY <1>2, <3>2
      <4> QED BY <3>2, <4>1
    <3> QED BY <3>1, <3>2
  <2> QED BY <2>1, <2>2, <2>3, <2>4
<1>4. HeldIn(fn, f) = Area(S, m)
  BY <1>3
<1> QED BY <1>2, <1>4 DEF m

(* Where one file changes, so does what is held, by its blocks.            *)
LEMMA HeldChanges ==
  ASSUME NEW S, IsFiniteSet(S), NEW fn \in [S -> Stored], NEW gn \in [S -> Stored],
         NEW x \in S, \A y \in S : y # x => gn[y] = fn[y]
  PROVE  /\ Cardinality(Held(gn)) + Long(fn[x]) = Cardinality(Held(fn)) + Long(gn[x])
         /\ \A f : Cardinality(HeldIn(gn, f)) + Here(x, f, Long(fn[x]))
                     = Cardinality(HeldIn(fn, f)) + Here(x, f, Long(gn[x]))
<1> DEFINE n == [y \in S |-> Long(fn[y])]
           m == [y \in S |-> Long(gn[y])]
<1>1. n \in [S -> Nat] /\ Held(fn) = Area(S, n) /\ m \in [S -> Nat] /\ Held(gn) = Area(S, m)
  BY HeldIsArea
<1>2. n[x] = Long(fn[x]) /\ m[x] = Long(gn[x]) /\ \A y \in S : y # x => m[y] = n[y]
  OBVIOUS
<1>3. ASSUME NEW f
      PROVE  Cardinality(HeldIn(gn, f)) + Here(x, f, Long(fn[x]))
               = Cardinality(HeldIn(fn, f)) + Here(x, f, Long(gn[x]))
  <2> DEFINE nf == [y \in S |-> Here(y, f, Long(fn[y]))]
             mf == [y \in S |-> Here(y, f, Long(gn[y]))]
  <2>1. nf \in [S -> Nat] /\ HeldIn(fn, f) = Area(S, nf)
    BY HeldInIsArea
  <2>2. mf \in [S -> Nat] /\ HeldIn(gn, f) = Area(S, mf)
    BY HeldInIsArea
  <2>3. /\ nf[x] = Here(x, f, Long(fn[x])) /\ mf[x] = Here(x, f, Long(gn[x]))
        /\ \A y \in S : y # x => mf[y] = nf[y]
    BY DEF Here
  <2> HIDE DEF nf, mf
  <2> QED BY <2>1, <2>2, <2>3, AreaChanges
<1> HIDE DEF n, m
<1> QED BY <1>1, <1>2, <1>3, AreaChanges

(* What is held is a number.                                               *)
LEMMA HeldIsNumber ==
  ASSUME NEW S, IsFiniteSet(S), NEW fn \in [S -> Stored]
  PROVE  /\ Cardinality(Held(fn)) \in Nat
         /\ \A f : Cardinality(HeldIn(fn, f)) \in Nat
<1>1. Cardinality(Held(fn)) \in Nat
  <2> DEFINE n == [x \in S |-> Long(fn[x])]
  <2>1. n \in [S -> Nat] /\ Held(fn) = Area(S, n)
    BY HeldIsArea
  <2> HIDE DEF n
  <2> QED BY <2>1, AreaIsFinite
<1>2. ASSUME NEW f
      PROVE  Cardinality(HeldIn(fn, f)) \in Nat
  <2> DEFINE n == [x \in S |-> Here(x, f, Long(fn[x]))]
  <2>1. n \in [S -> Nat] /\ HeldIn(fn, f) = Area(S, n)
    BY HeldInIsArea
  <2> HIDE DEF n
  <2> QED BY <2>1, AreaIsFinite
<1> QED BY <1>1, <1>2

(* The blocks a session has yet to send, and those it will have.           *)
Due(u)  == IF Listed(u) THEN Missing(u) ELSE 0
Full(u) == IF Listed(u) THEN Size[meta[u].of] ELSE 0

(* Both are numbers.                                                       *)
LEMMA DueIsNumber ==
  ASSUME UploadsFit, NEW u \in Uploads
  PROVE  Due(u) \in Nat /\ Full(u) \in Nat
<1>1. CASE Listed(u)
  <2>1. /\ meta[u] \in UploadSession /\ Len(meta[u].got) <= Size[meta[u].of]
    BY <1>1 DEF UploadsFit, UploadFits, RecordFits, Listed
  <2>2. Size[meta[u].of] \in Nat /\ Len(meta[u].got) \in Nat
    BY <2>1, FileAssumption DEF UploadSession
  <2> QED BY <1>1, <2>1, <2>2 DEF Due, Full, Missing
<1>2. CASE ~Listed(u)
  BY <1>2 DEF Due, Full
<1> QED BY <1>1, <1>2

(* The set whose size Reserved is.                                         *)
ReservedIn(f) == UNION {{u} \X (1..Size[meta[u].of]) : u \in {w \in Sessions : FolderOf[w] \in f}}

(* What sessions were promised, and what they reserve, are areas.          *)
PromisesAreAreas ==
  /\ [u \in Uploads |-> Due(u)] \in [Uploads -> Nat]
  /\ Promised(Sessions) = Area(Uploads, [u \in Uploads |-> Due(u)])
  /\ \A f : /\ [u \in Uploads |-> Here(u, f, Full(u))] \in [Uploads -> Nat]
            /\ ReservedIn(f) = Area(Uploads, [u \in Uploads |-> Here(u, f, Full(u))])
(* As they are in any state that satisfies the invariant.                  *)
LEMMA PromisedIsArea ==
  ASSUME UploadsFit
  PROVE  PromisesAreAreas
<1> DEFINE n == [u \in Uploads |-> Due(u)]
<1>1. n \in [Uploads -> Nat]
  BY DueIsNumber
<1>2. Promised(Sessions) = Area(Uploads, n)
  <2>1. ASSUME NEW b
        PROVE  b \in Promised(Sessions) <=> b \in Area(Uploads, n)
    <3>1. b \in Promised(Sessions) <=> \E u \in Uploads : Listed(u) /\ b \in {u} \X (1..Missing(u))
      BY DEF Promised, Sessions
    <3>2. b \in Area(Uploads, n) <=> \E u \in Uploads : b \in {u} \X (1..n[u])
      BY DEF Area
    <3>3. ASSUME NEW u \in Uploads
          PROVE  (Listed(u) /\ b \in {u} \X (1..Missing(u))) <=> b \in {u} \X (1..n[u])
      <4>1. CASE Listed(u)
        BY <4>1 DEF Due
      <4>2. CASE ~Listed(u)
        <5>1. 1..n[u] = {}
          BY <4>2 DEF Due
        <5> QED BY <4>2, <5>1
      <4> QED BY <4>1, <4>2
    <3> QED BY <3>1, <3>2, <3>3
  <2> QED BY <2>1
<1>3. ASSUME NEW f
      PROVE  /\ [u \in Uploads |-> Here(u, f, Full(u))] \in [Uploads -> Nat]
             /\ ReservedIn(f) = Area(Uploads, [u \in Uploads |-> Here(u, f, Full(u))])
  <2> DEFINE m == [u \in Uploads |-> Here(u, f, Full(u))]
  <2>1. m \in [Uploads -> Nat]
    BY DueIsNumber DEF Here
  <2>2. ASSUME NEW b
        PROVE  b \in ReservedIn(f) <=> b \in Area(Uploads, m)
    <3>1. b \in ReservedIn(f) <=> \E u \in Uploads : /\ Listed(u) /\ FolderOf[u] \in f
                                                     /\ b \in {u} \X (1..Size[meta[u].of])
      BY DEF ReservedIn, Sessions
    <3>2. b \in Area(Uploads, m) <=> \E u \in Uploads : b \in {u} \X (1..m[u])
      BY DEF Area
    <3>3. ASSUME NEW u \in Uploads
          PROVE  (Listed(u) /\ FolderOf[u] \in f /\ b \in {u} \X (1..Size[meta[u].of]))
                   <=> b \in {u} \X (1..m[u])
      <4>1. CASE Listed(u) /\ FolderOf[u] \in f
        BY <4>1 DEF Here, Full
      <4>2. CASE ~(Listed(u) /\ FolderOf[u] \in f)
        <5>1. 1..m[u] = {}
          BY <4>2 DEF Here, Full
        <5> QED BY <4>2, <5>1
      <4> QED BY <4>1, <4>2
    <3> QED BY <3>1, <3>2, <3>3
  <2> QED BY <2>1, <2>2
<1> QED BY <1>1, <1>2, <1>3 DEF PromisesAreAreas
(* And in the next one.                                                    *)
LEMMA PromisedIsAreaNext == UploadsFit' => PromisesAreAreas'
<1>1. UploadsFit => PromisesAreAreas
  BY PromisedIsArea
<1> QED BY <1>1, PTL

(* Where one upload changes, so does what was promised, by its blocks.     *)
LEMMA PromisedChanges ==
  ASSUME UploadsFit, UploadsFit', NEW u \in Uploads,
         \A w \in Uploads : w # u => part'[w] = part[w] /\ meta'[w] = meta[w]
  PROVE  /\ Cardinality(Promised(Sessions)') + Due(u) = Cardinality(Promised(Sessions)) + Due(u)'
         /\ \A f : Reserved(f)' + Here(u, f, Full(u)) = Reserved(f) + Here(u, f, Full(u)')
<1> DEFINE n == [w \in Uploads |-> Due(w)]
           m == [w \in Uploads |-> Due(w)']
<1>1. /\ n \in [Uploads -> Nat] /\ Promised(Sessions) = Area(Uploads, n)
      /\ m \in [Uploads -> Nat] /\ Promised(Sessions)' = Area(Uploads, m)
  BY PromisedIsArea, PromisedIsAreaNext DEF PromisesAreAreas
<1>2. ASSUME NEW w \in Uploads, w # u
      PROVE  Due(w)' = Due(w) /\ Full(w)' = Full(w)
  BY <1>2 DEF Due, Full, Listed, Missing
<1>3. n[u] = Due(u) /\ m[u] = Due(u)' /\ \A w \in Uploads : w # u => m[w] = n[w]
  BY <1>2
<1> HIDE DEF n, m
<1>4. Cardinality(Promised(Sessions)') + Due(u) = Cardinality(Promised(Sessions)) + Due(u)'
  <2>1. IsFiniteSet(Uploads)
    BY FileAssumption
  <2>2. Cardinality(Area(Uploads, m)) + n[u] = Cardinality(Area(Uploads, n)) + m[u]
    BY <1>1, <1>3, <2>1, AreaChanges
  <2> QED BY <1>1, <1>3, <2>2
<1>5. ASSUME NEW f
      PROVE  Reserved(f)' + Here(u, f, Full(u)) = Reserved(f) + Here(u, f, Full(u)')
  <2> DEFINE nf == [w \in Uploads |-> Here(w, f, Full(w))]
             mf == [w \in Uploads |-> Here(w, f, Full(w)')]
  <2>1. /\ nf \in [Uploads -> Nat] /\ ReservedIn(f) = Area(Uploads, nf)
    BY PromisedIsArea DEF PromisesAreAreas
  <2>2. /\ mf \in [Uploads -> Nat] /\ ReservedIn(f)' = Area(Uploads, mf)
    BY PromisedIsAreaNext DEF PromisesAreAreas, Here
  <2>3. /\ nf[u] = Here(u, f, Full(u)) /\ mf[u] = Here(u, f, Full(u)')
        /\ \A w \in Uploads : w # u => mf[w] = nf[w]
    BY <1>2 DEF Here
  <2>4. Reserved(f) = Cardinality(ReservedIn(f)) /\ Reserved(f)' = Cardinality(ReservedIn(f)')
    BY DEF Reserved, ReservedIn
  <2> HIDE DEF nf, mf
  <2>5. Cardinality(Area(Uploads, mf)) + nf[u] = Cardinality(Area(Uploads, nf)) + mf[u]
    <3>1. IsFiniteSet(Uploads)
      BY FileAssumption
    <3> QED BY <2>1, <2>2, <2>3, <3>1, AreaChanges
  <2>6. Reserved(f)' = Cardinality(Area(Uploads, mf)) /\ Reserved(f) = Cardinality(Area(Uploads, nf))
    BY <2>1, <2>2, <2>4
  <2> QED BY <2>3, <2>5, <2>6
<1> QED BY <1>4, <1>5

-----------------------------------------------------------------------------
(* What is stored and promised never grows but by what was looked for.     *)

(* The parts of what is used are numbers.                                  *)
UseIsNumbers ==
  /\ Cardinality(Held(tree)) \in Nat /\ Cardinality(Held(part)) \in Nat
  /\ Cardinality(Held(item)) \in Nat /\ Cardinality(Promised(Sessions)) \in Nat /\ Ahead \in Nat
  /\ \A f : /\ Cardinality(HeldIn(tree, f)) \in Nat /\ Cardinality(HeldIn(item, f)) \in Nat
            /\ Reserved(f) \in Nat /\ AheadIn(f) \in Nat
(* In any state that satisfies the invariant.                              *)
LEMMA UseIsNumber ==
  ASSUME FilesInv
  PROVE  UseIsNumbers
<1>1. /\ tree \in [Paths -> Stored] /\ part \in [Uploads -> Stored] /\ item \in [TrashIds -> Stored]
  BY FilesAreTyped, ContentsAreStored DEF Stored
<1>2. UploadsFit
  BY DEF FilesInv
<1>3. Cardinality(Promised(Sessions)) \in Nat
  <2> DEFINE n == [u \in Uploads |-> Due(u)]
  <2>1. n \in [Uploads -> Nat] /\ Promised(Sessions) = Area(Uploads, n)
    BY <1>2, PromisedIsArea DEF PromisesAreAreas
  <2> HIDE DEF n
  <2> QED BY <2>1, FileAssumption, AreaIsFinite
<1>4. ASSUME NEW f
      PROVE  Reserved(f) \in Nat
  <2> DEFINE n == [u \in Uploads |-> Here(u, f, Full(u))]
  <2>1. n \in [Uploads -> Nat] /\ ReservedIn(f) = Area(Uploads, n)
    BY <1>2, PromisedIsArea DEF PromisesAreAreas
  <2>2. Reserved(f) = Cardinality(ReservedIn(f))
    BY DEF Reserved, ReservedIn
  <2> HIDE DEF n
  <2> QED BY <2>1, <2>2, FileAssumption, AreaIsFinite
<1>5. op.do \in {"create", "put"} => op.of \in Versions
  BY DEF FilesInv, OpFits, CreateFits
<1>6. op.do = "chunk" => /\ Missing(op.id) - 1 \in Nat /\ meta[op.id].of \in Versions
  <2> SUFFICES ASSUME op.do = "chunk"
               PROVE  Missing(op.id) - 1 \in Nat /\ meta[op.id].of \in Versions
    OBVIOUS
  <2>1. /\ op.id \in Uploads /\ meta[op.id] # None /\ op.of[2] = Len(meta[op.id].got) + 1
        /\ op.of[2] <= Size[meta[op.id].of]
    BY DEF FilesInv, OpFits, ChunkFits
  <2>2. meta[op.id].of \in Versions /\ meta[op.id].got \in Seq(Blocks)
    BY <2>1, FilesAreTyped DEF UploadSession
  <2>3. Size[meta[op.id].of] \in Nat /\ Len(meta[op.id].got) \in Nat
    BY <2>2, FileAssumption
  <2> QED BY <2>1, <2>2, <2>3 DEF Missing
<1>7. Ahead \in Nat /\ \A f : AheadIn(f) \in Nat
  BY <1>5, <1>6, FileAssumption DEF Ahead, AheadIn
<1> QED BY <1>1, <1>3, <1>4, <1>7, FileAssumption, HeldIsNumber DEF UseIsNumbers
(* And in the next one.                                                    *)
LEMMA UseIsNumberNext == FilesInv' => UseIsNumbers'
<1>1. FilesInv => UseIsNumbers
  BY UseIsNumber
<1> QED BY <1>1, PTL

(* Where one visible file changes.                                         *)
LEMMA TreeMeasure ==
  ASSUME FilesInv, FilesInv', NEW p \in Paths, \A y \in Paths : y # p => tree'[y] = tree[y]
  PROVE  /\ Cardinality(Held(tree)') + Long(tree[p]) = Cardinality(Held(tree)) + Long(tree'[p])
         /\ \A f : Cardinality(HeldIn(tree, f)') + Here(p, f, Long(tree[p]))
                     = Cardinality(HeldIn(tree, f)) + Here(p, f, Long(tree'[p]))
<1>1. tree \in [Paths -> Stored] /\ tree' \in [Paths -> Stored] /\ IsFiniteSet(Paths)
  BY ContentsAreStored, FileAssumption DEF FilesInv, FilesFit, UploadsFit, Stored
<1>2. ASSUME NEW gn \in [Paths -> Stored], \A y \in Paths : y # p => gn[y] = tree[y]
      PROVE  /\ Cardinality(Held(gn)) + Long(tree[p]) = Cardinality(Held(tree)) + Long(gn[p])
             /\ \A f : Cardinality(HeldIn(gn, f)) + Here(p, f, Long(tree[p]))
                         = Cardinality(HeldIn(tree, f)) + Here(p, f, Long(gn[p]))
  BY <1>1, <1>2, HeldChanges
<1> QED BY <1>1, <1>2

(* The same of a part.                                                     *)
LEMMA PartMeasure ==
  ASSUME FilesInv, FilesInv', NEW u \in Uploads, \A y \in Uploads : y # u => part'[y] = part[y]
  PROVE  /\ Cardinality(Held(part)') + Long(part[u]) = Cardinality(Held(part)) + Long(part'[u])
         /\ \A f : Cardinality(HeldIn(part, f)') + Here(u, f, Long(part[u]))
                     = Cardinality(HeldIn(part, f)) + Here(u, f, Long(part'[u]))
<1>1. part \in [Uploads -> Stored] /\ part' \in [Uploads -> Stored] /\ IsFiniteSet(Uploads)
  BY ContentsAreStored, FileAssumption DEF FilesInv, FilesFit, UploadsFit, Stored
<1>2. ASSUME NEW gn \in [Uploads -> Stored], \A y \in Uploads : y # u => gn[y] = part[y]
      PROVE  /\ Cardinality(Held(gn)) + Long(part[u]) = Cardinality(Held(part)) + Long(gn[u])
             /\ \A f : Cardinality(HeldIn(gn, f)) + Here(u, f, Long(part[u]))
                         = Cardinality(HeldIn(part, f)) + Here(u, f, Long(gn[u]))
  BY <1>1, <1>2, HeldChanges
<1> QED BY <1>1, <1>2

(* The same of an entry of the trash.                                      *)
LEMMA ItemMeasure ==
  ASSUME FilesInv, FilesInv', NEW t \in TrashIds, \A y \in TrashIds : y # t => item'[y] = item[y]
  PROVE  /\ Cardinality(Held(item)') + Long(item[t]) = Cardinality(Held(item)) + Long(item'[t])
         /\ \A f : Cardinality(HeldIn(item, f)') + Here(t, f, Long(item[t]))
                     = Cardinality(HeldIn(item, f)) + Here(t, f, Long(item'[t]))
<1>1. item \in [TrashIds -> Stored] /\ item' \in [TrashIds -> Stored] /\ IsFiniteSet(TrashIds)
  BY ContentsAreStored, FileAssumption DEF FilesInv, FilesFit, UploadsFit, Stored
<1>2. ASSUME NEW gn \in [TrashIds -> Stored], \A y \in TrashIds : y # t => gn[y] = item[y]
      PROVE  /\ Cardinality(Held(gn)) + Long(item[t]) = Cardinality(Held(item)) + Long(gn[t])
             /\ \A f : Cardinality(HeldIn(gn, f)) + Here(t, f, Long(item[t]))
                         = Cardinality(HeldIn(item, f)) + Here(t, f, Long(gn[t]))
  BY <1>1, <1>2, HeldChanges
<1> QED BY <1>1, <1>2

(* Nothing more is used than before.                                       *)
Shrinks == PoolUse' <= PoolUse /\ \A f \in Caps : CapUse(f)' <= CapUse(f)

(* Where only an upload changes.                                           *)
LEMMA UploadBalance ==
  ASSUME FilesInv, FilesInv', UNCHANGED <<tree, item>>, NEW u \in Uploads,
         \A w \in Uploads : w # u => part'[w] = part[w] /\ meta'[w] = meta[w],
         Long(part[u]) \in Nat, Long(part'[u]) \in Nat, Due(u)' \in Nat, Full(u)' \in Nat,
         Long(part'[u]) + Due(u)' + Ahead' <= Long(part[u]) + Due(u) + Ahead,
         \A f \in Caps : Here(u, f, Full(u)') + AheadIn(f)' <= Here(u, f, Full(u)) + AheadIn(f)
  PROVE  Shrinks
<1>1. /\ part \in [Uploads -> Stored] /\ part' \in [Uploads -> Stored] /\ UploadsFit /\ UploadsFit'
  BY DEF FilesInv, UploadsFit, Stored
<1>2. Cardinality(Held(part)') + Long(part[u]) = Cardinality(Held(part)) + Long(part'[u])
  BY PartMeasure
<1>3. /\ Cardinality(Promised(Sessions)') + Due(u) = Cardinality(Promised(Sessions)) + Due(u)'
      /\ \A f : Reserved(f)' + Here(u, f, Full(u)) = Reserved(f) + Here(u, f, Full(u)')
  BY <1>1, PromisedChanges
<1>4. Due(u) \in Nat /\ Full(u) \in Nat
  BY <1>1, DueIsNumber
<1>5. UseIsNumbers /\ UseIsNumbers'
  BY UseIsNumber, UseIsNumberNext
<1>6. /\ Held(tree)' = Held(tree) /\ Held(item)' = Held(item)
      /\ \A f : HeldIn(tree, f)' = HeldIn(tree, f) /\ HeldIn(item, f)' = HeldIn(item, f)
  BY DEF Held, HeldIn
<1>7. PoolUse' <= PoolUse
  BY <1>2, <1>3, <1>4, <1>5, <1>6 DEF PoolUse, UseIsNumbers
<1>8. ASSUME NEW f \in Caps
      PROVE  CapUse(f)' <= CapUse(f)
  BY <1>3, <1>4, <1>5, <1>6 DEF CapUse, Used, UseIsNumbers, Here
<1> QED BY <1>7, <1>8 DEF Shrinks

(* Where an upload becomes a file.                                         *)
LEMMA FileBalance ==
  ASSUME FilesInv, FilesInv', UNCHANGED item, NEW u \in Uploads, NEW p \in Paths,
         \A w \in Uploads : w # u => part'[w] = part[w] /\ meta'[w] = meta[w],
         \A q \in Paths : q # p => tree'[q] = tree[q],
         Long(tree'[p]) + Long(part'[u]) + Due(u)' + Ahead'
           <= Long(tree[p]) + Long(part[u]) + Due(u) + Ahead,
         \A f \in Caps : Here(p, f, Long(tree'[p])) + Here(u, f, Full(u)') + AheadIn(f)'
                              <= Here(p, f, Long(tree[p])) + Here(u, f, Full(u)) + AheadIn(f),
         Long(tree[p]) \in Nat, Long(tree'[p]) \in Nat, Long(part[u]) \in Nat,
         Long(part'[u]) \in Nat, Due(u)' \in Nat, Full(u)' \in Nat
  PROVE  Shrinks
<1>1. /\ part \in [Uploads -> Stored] /\ part' \in [Uploads -> Stored] /\ UploadsFit /\ UploadsFit'
      /\ tree \in [Paths -> Stored] /\ tree' \in [Paths -> Stored]
  BY ContentsAreStored DEF FilesInv, FilesFit, UploadsFit, Stored
<1>2. Cardinality(Held(part)') + Long(part[u]) = Cardinality(Held(part)) + Long(part'[u])
  BY PartMeasure
<1>3. /\ Cardinality(Promised(Sessions)') + Due(u) = Cardinality(Promised(Sessions)) + Due(u)'
      /\ \A f : Reserved(f)' + Here(u, f, Full(u)) = Reserved(f) + Here(u, f, Full(u)')
  BY <1>1, PromisedChanges
<1>4. /\ Cardinality(Held(tree)') + Long(tree[p]) = Cardinality(Held(tree)) + Long(tree'[p])
      /\ \A f : Cardinality(HeldIn(tree, f)') + Here(p, f, Long(tree[p]))
                  = Cardinality(HeldIn(tree, f)) + Here(p, f, Long(tree'[p]))
  BY TreeMeasure
<1>5. Due(u) \in Nat /\ Full(u) \in Nat
  BY <1>1, DueIsNumber
<1>6. UseIsNumbers /\ UseIsNumbers'
  BY UseIsNumber, UseIsNumberNext
<1>7. Held(item)' = Held(item) /\ \A f : HeldIn(item, f)' = HeldIn(item, f)
  BY DEF Held, HeldIn
<1>8. PoolUse' <= PoolUse
  BY <1>2, <1>3, <1>4, <1>5, <1>6, <1>7 DEF PoolUse, UseIsNumbers
<1>9. ASSUME NEW f \in Caps
      PROVE  CapUse(f)' <= CapUse(f)
  BY <1>3, <1>4, <1>5, <1>6, <1>7 DEF CapUse, Used, UseIsNumbers, Here
<1> QED BY <1>8, <1>9 DEF Shrinks

(* Where a file goes to the trash or comes back.                           *)
LEMMA TrashBalance ==
  ASSUME FilesInv, FilesInv', UNCHANGED <<part, meta>>, NEW t \in TrashIds, NEW p \in Paths,
         \A x \in TrashIds : x # t => item'[x] = item[x],
         \A q \in Paths : q # p => tree'[q] = tree[q],
         FolderOf[t] = FolderOf[p], Ahead' <= Ahead, \A f \in Caps : AheadIn(f)' <= AheadIn(f),
         Long(tree'[p]) + Long(item'[t]) <= Long(tree[p]) + Long(item[t])
  PROVE  Shrinks
<1>1. /\ item \in [TrashIds -> Stored] /\ item' \in [TrashIds -> Stored]
      /\ tree \in [Paths -> Stored] /\ tree' \in [Paths -> Stored]
  BY ContentsAreStored DEF FilesInv, FilesFit, Stored
<1>2. /\ Cardinality(Held(item)') + Long(item[t]) = Cardinality(Held(item)) + Long(item'[t])
      /\ \A f : Cardinality(HeldIn(item, f)') + Here(t, f, Long(item[t]))
                  = Cardinality(HeldIn(item, f)) + Here(t, f, Long(item'[t]))
  BY ItemMeasure
<1>3. /\ Cardinality(Held(tree)') + Long(tree[p]) = Cardinality(Held(tree)) + Long(tree'[p])
      /\ \A f : Cardinality(HeldIn(tree, f)') + Here(p, f, Long(tree[p]))
                  = Cardinality(HeldIn(tree, f)) + Here(p, f, Long(tree'[p]))
  BY TreeMeasure
<1>4. UseIsNumbers /\ UseIsNumbers'
  BY UseIsNumber, UseIsNumberNext
<1>5. /\ Held(part)' = Held(part) /\ Promised(Sessions)' = Promised(Sessions)
      /\ \A f : Reserved(f)' = Reserved(f)
  BY DEF Held, Promised, Sessions, Listed, Missing, Reserved
<1>6. /\ Long(tree[p]) \in Nat /\ Long(tree'[p]) \in Nat /\ Long(item[t]) \in Nat
      /\ Long(item'[t]) \in Nat
  BY <1>1 DEF Long, Stored
<1>7. PoolUse' <= PoolUse
  BY <1>2, <1>3, <1>4, <1>5, <1>6 DEF PoolUse, UseIsNumbers
<1>8. ASSUME NEW f \in Caps
      PROVE  CapUse(f)' <= CapUse(f)
  BY <1>2, <1>3, <1>4, <1>5, <1>6 DEF CapUse, Used, UseIsNumbers, Here
<1> QED BY <1>7, <1>8 DEF Shrinks

(* Where no block changes.                                                 *)
LEMMA SameBalance ==
  ASSUME FilesInv, FilesInv', UNCHANGED <<tree, part, meta, item>>, Ahead' <= Ahead,
         \A f \in Caps : AheadIn(f)' <= AheadIn(f)
  PROVE  Shrinks
<1>1. UseIsNumbers /\ UseIsNumbers'
  BY UseIsNumber, UseIsNumberNext
<1>2. /\ Held(part)' = Held(part) /\ Held(tree)' = Held(tree) /\ Held(item)' = Held(item)
      /\ Promised(Sessions)' = Promised(Sessions)
      /\ \A f : /\ HeldIn(tree, f)' = HeldIn(tree, f) /\ HeldIn(item, f)' = HeldIn(item, f)
                /\ Reserved(f)' = Reserved(f)
  BY DEF Held, HeldIn, Promised, Sessions, Listed, Missing, Reserved
<1> QED BY <1>1, <1>2 DEF Shrinks, PoolUse, CapUse, Used, UseIsNumbers

(* A mutation that is answered writes nothing any more.                    *)
LEMMA NothingAhead ==
  /\ \A why : Finish(why) => Ahead' = 0 /\ \A f : AheadIn(f)' = 0
  /\ GiveUp => Ahead' = 0 /\ \A f : AheadIn(f)' = 0
  /\ \A why : Botch(why) => Ahead' = 0 /\ \A f : AheadIn(f)' = 0
<1>1. ASSUME op' = Idle
      PROVE  Ahead' = 0 /\ \A f : AheadIn(f)' = 0
  BY <1>1 DEF Ahead, AheadIn, Idle, Work
<1> QED BY <1>1 DEF Finish, GiveUp, Botch, Answer

(* The lengths of nothing, of an empty part and of a whole.                *)
LEMMA LongIs ==
  /\ Long(None) = 0 /\ Long(<<>>) = 0
  /\ \A s \in Seq(Blocks) : Long(s) = Len(s) /\ Long(s) \in Nat
  /\ \A v \in Versions : Long(Whole(v)) = Size[v] /\ Size[v] \in Nat
BY EmptyIsStored, WholesAreStored, FileAssumption DEF Long

(* A new upload.                                                           *)
LEMMA SpaceOfCreate ==
  ASSUME FilesInv, FilesInv', CreatePart \/ CreateMetadata \/ CreateUndone
  PROVE  Shrinks
<1>1. PICK u : u = op.id
  OBVIOUS
<1>2. /\ u \in Uploads /\ meta[u] = None /\ op.of \in Versions /\ op.do = "create"
      /\ part[u] = IF op.at = "first" THEN None ELSE <<>>
  BY <1>1 DEF CreatePart, CreateMetadata, CreateUndone, At, FilesInv, OpFits, CreateFits
<1>3. /\ Size[op.of] \in Nat /\ Long(part[u]) = 0 /\ Due(u) = 0 /\ Full(u) = 0
      /\ Ahead = Size[op.of] /\ \A f : AheadIn(f) = Here(u, f, Size[op.of])
  BY <1>1, <1>2, LongIs DEF Due, Full, Listed, Ahead, AheadIn, Here
<1>4. CASE CreatePart
  <2>1. /\ part' = [part EXCEPT ![u] = <<>>] /\ GoOn("last") /\ UNCHANGED <<tree, meta, item>>
    BY <1>1, <1>4 DEF CreatePart
  <2>2. Ahead' = Ahead /\ \A f : AheadIn(f)' = AheadIn(f)
    BY <1>2, <2>1, GoingOn DEF Ahead, AheadIn
  <2>3. Long(part'[u]) = 0 /\ Due(u)' = 0 /\ Full(u)' = 0
    BY <1>2, <2>1, LongIs, FilesAreTyped DEF Due, Full, Listed
  <2>4. \A w \in Uploads : w # u => part'[w] = part[w] /\ meta'[w] = meta[w]
    BY <2>1, FilesAreTyped
  <2>5. Ahead' \in Nat /\ \A f : AheadIn(f)' \in Nat
    BY UseIsNumberNext DEF UseIsNumbers
  <2> QED BY <1>2, <1>3, <2>1, <2>2, <2>3, <2>4, <2>5, UploadBalance DEF Here
<1>5. CASE CreateMetadata
  <2>1. PICK r : r = [path |-> op.path, of |-> op.of, sum |-> op.to, got |-> <<>>]
    OBVIOUS
  <2>2. /\ meta' = [meta EXCEPT ![u] = r] /\ Finish("ok") /\ UNCHANGED <<tree, part, item>>
    BY <1>1, <1>5, <2>1 DEF CreateMetadata
  <2>3. meta'[u] = r /\ r.of = op.of /\ Len(r.got) = 0
    BY <1>2, <2>1, <2>2, FilesAreTyped
  <2>4. /\ Long(part'[u]) = 0
        /\ Due(u)' \in Nat /\ Due(u)' <= Size[op.of] /\ Full(u)' \in Nat /\ Full(u)' <= Size[op.of]
    BY <1>2, <1>3, <2>2, <2>3, LongIs DEF Due, Full, Missing
  <2>5. Ahead' = 0 /\ \A f : AheadIn(f)' = 0
    BY <2>2, NothingAhead
  <2>6. \A f \in Caps : Here(u, f, Full(u)') <= Here(u, f, Size[op.of])
    BY <1>3, <2>4 DEF Here
  <2>7. \A f \in Caps : Here(u, f, Full(u)') + AheadIn(f)' <= Here(u, f, Full(u)) + AheadIn(f)
    BY <1>3, <2>4, <2>5, <2>6 DEF Here
  <2>8. \A w \in Uploads : w # u => part'[w] = part[w] /\ meta'[w] = meta[w]
    BY <2>2, FilesAreTyped
  <2> QED BY <1>2, <1>3, <2>2, <2>4, <2>5, <2>7, <2>8, UploadBalance
<1>6. CASE CreateUndone
  <2>1. /\ part' = [part EXCEPT ![u] = None] /\ GiveUp /\ UNCHANGED <<tree, meta, item>>
    BY <1>1, <1>6 DEF CreateUndone
  <2>2. Ahead' = 0 /\ \A f : AheadIn(f)' = 0
    BY <2>1, NothingAhead
  <2>3. Long(part'[u]) = 0 /\ Due(u)' = 0 /\ Full(u)' = 0
    BY <1>2, <2>1, LongIs, FilesAreTyped DEF Due, Full, Listed
  <2>4. \A f \in Caps : Here(u, f, Full(u)') + AheadIn(f)' <= Here(u, f, Full(u)) + AheadIn(f)
    BY <1>3, <2>2, <2>3 DEF Here
  <2>5. \A w \in Uploads : w # u => part'[w] = part[w] /\ meta'[w] = meta[w]
    BY <2>1, FilesAreTyped
  <2> QED BY <1>2, <1>3, <2>1, <2>2, <2>3, <2>4, <2>5, UploadBalance
<1> QED BY <1>4, <1>5, <1>6

(* A chunk.                                                                *)
LEMMA SpaceOfChunk ==
  ASSUME FilesInv, FilesInv', WriteChunk \/ WriteChunkBotched \/ RecordChunk \/ ChunkUndone
  PROVE  Shrinks
<1>1. PICK u : u = op.id
  OBVIOUS
<1>2. /\ u \in Uploads /\ meta[u] # None /\ op.of \in Blocks /\ op.do = "chunk"
      /\ op.of[2] = Len(meta[u].got) + 1 /\ op.of[2] <= Size[meta[u].of]
      /\ part[u] = IF op.at = "first" THEN meta[u].got ELSE Append(meta[u].got, op.of)
  BY <1>1 DEF WriteChunk, WriteChunkBotched, RecordChunk, ChunkUndone, At, FilesInv, OpFits, ChunkFits
<1>3. /\ meta[u] \in UploadSession /\ meta[u].of \in Versions /\ meta[u].got \in Seq(Blocks)
  BY <1>2, FilesAreTyped DEF UploadSession
<1>4. PICK k \in Nat, n \in Nat : k = Len(meta[u].got) /\ n = Size[meta[u].of] /\ k + 1 <= n
  BY <1>2, <1>3, FileAssumption
<1>5. Missing(u) = n - k
  BY <1>4 DEF Missing
<1>6. /\ Append(meta[u].got, op.of) \in Seq(Blocks) /\ Len(Append(meta[u].got, op.of)) = k + 1
  BY <1>2, <1>3, <1>4
<1>7. op.at = "first" => /\ Long(part[u]) = k /\ Due(u) = n - k /\ Full(u) = n /\ Ahead = 0
                         /\ \A f : AheadIn(f) = 0
  BY <1>1, <1>2, <1>3, <1>4, <1>5, LongIs, FileAssumption DEF Due, Full, Listed, Ahead, AheadIn
<1>8. op.at = "last" => /\ Long(part[u]) = k + 1 /\ Due(u) = 0 /\ Full(u) = 0
                        /\ Ahead = n - k - 1 /\ \A f : AheadIn(f) = Here(u, f, n)
  <2> SUFFICES ASSUME op.at = "last"
               PROVE  /\ Long(part[u]) = k + 1 /\ Due(u) = 0 /\ Full(u) = 0
                      /\ Ahead = n - k - 1 /\ \A f : AheadIn(f) = Here(u, f, n)
    OBVIOUS
  <2>1. part[u] \in Seq(Blocks) /\ Len(part[u]) = k + 1
    BY <1>2, <1>6
  <2>2. ~Listed(u)
    BY <1>4, <2>1 DEF Listed
  <2>3. Ahead = n - k - 1 /\ \A f : AheadIn(f) = Here(u, f, n)
    BY <1>1, <1>2, <1>4, <1>5 DEF Ahead, AheadIn, Here
  <2> QED BY <2>1, <2>2, <2>3, LongIs DEF Due, Full
<1>9. CASE WriteChunk \/ WriteChunkBotched
  <2>1. /\ part' = [part EXCEPT ![u] = Append(meta[u].got, op.of)] /\ op.at = "first"
        /\ UNCHANGED <<tree, meta, item>>
    BY <1>1, <1>2, <1>9, FilesAreTyped DEF WriteChunk, WriteChunkBotched, At
  <2>2. part'[u] = Append(meta[u].got, op.of) /\ meta'[u] = meta[u]
    BY <1>2, <2>1, FilesAreTyped
  <2>3. Long(part'[u]) = k + 1 /\ Due(u)' = 0 /\ Full(u)' = 0
    <3>1. ~Listed(u)'
      BY <1>4, <1>6, <2>2 DEF Listed
    <3> QED BY <1>6, <2>2, <3>1, LongIs DEF Due, Full
  <2>4. /\ Ahead' \in {0, n - k - 1}
        /\ \A f : AheadIn(f)' \in {0, Here(u, f, n)}
    <3>1. CASE WriteChunk
      <4>1. op'.do = "chunk" /\ op'.at = "last" /\ op'.id = u
        BY <1>1, <1>2, <3>1, GoingOn DEF WriteChunk
      <4>2. Missing(u)' = n - k /\ Size[meta'[u].of] = n
        BY <1>4, <1>5, <2>2 DEF Missing
      <4> QED BY <4>1, <4>2 DEF Ahead, AheadIn, Here
    <3>2. CASE WriteChunkBotched
      BY <3>2, NothingAhead DEF WriteChunkBotched
    <3> QED BY <1>9, <3>1, <3>2
  <2>5. \A f \in Caps : Here(u, f, Full(u)') + AheadIn(f)' <= Here(u, f, Full(u)) + AheadIn(f)
    BY <1>4, <1>7, <2>1, <2>3, <2>4 DEF Here
  <2>6. Long(part'[u]) + Due(u)' + Ahead' <= Long(part[u]) + Due(u) + Ahead
    BY <1>4, <1>7, <2>1, <2>3, <2>4
  <2>7. \A w \in Uploads : w # u => part'[w] = part[w] /\ meta'[w] = meta[w]
    BY <2>1, FilesAreTyped
  <2> QED BY <1>2, <1>4, <1>7, <2>1, <2>3, <2>5, <2>6, <2>7, UploadBalance
<1>10. CASE RecordChunk
  <2>1. PICK r : r = [meta[u] EXCEPT !.got = Append(@, op.of)]
    OBVIOUS
  <2>2. /\ meta' = [meta EXCEPT ![u] = r] /\ Finish("ok") /\ UNCHANGED <<tree, part, item>>
        /\ op.at = "last"
    BY <1>1, <1>10, <2>1 DEF RecordChunk, At
  <2>3. r.got = Append(meta[u].got, op.of) /\ r.of = meta[u].of /\ meta'[u] = r
    BY <1>2, <1>3, <2>1, <2>2, FilesAreTyped DEF UploadSession
  <2>4. Missing(u)' = n - (k + 1) /\ Size[meta'[u].of] = n
    BY <1>4, <1>6, <2>3 DEF Missing
  <2>5. /\ Long(part'[u]) = k + 1 /\ Due(u)' \in {0, n - k - 1} /\ Full(u)' \in {0, n}
    BY <1>8, <2>2, <2>4 DEF Due, Full
  <2>6. Ahead' = 0 /\ \A f : AheadIn(f)' = 0
    BY <2>2, NothingAhead
  <2>7. \A f \in Caps : Here(u, f, Full(u)') + AheadIn(f)' <= Here(u, f, Full(u)) + AheadIn(f)
    BY <1>4, <1>8, <2>2, <2>5, <2>6 DEF Here
  <2>8. Long(part'[u]) + Due(u)' + Ahead' <= Long(part[u]) + Due(u) + Ahead
    BY <1>4, <1>8, <2>2, <2>5, <2>6
  <2>9. \A w \in Uploads : w # u => part'[w] = part[w] /\ meta'[w] = meta[w]
    BY <2>2, FilesAreTyped
  <2>10. Due(u)' \in Nat /\ Full(u)' \in Nat /\ Long(part[u]) \in Nat /\ Long(part'[u]) \in Nat
    <3>1. n \in Nat /\ k \in Nat /\ n - k - 1 \in Nat
      BY <1>4
    <3> QED BY <1>8, <2>2, <2>5, <3>1
  <2> QED BY <1>2, <1>4, <1>8, <2>2, <2>7, <2>8, <2>9, <2>10, UploadBalance
<1>11. CASE ChunkUndone
  <2>1. /\ part' = [part EXCEPT ![u] = SubSeq(Append(meta[u].got, op.of), 1, Len(meta[u].got))]
        /\ GiveUp /\ UNCHANGED <<tree, meta, item>> /\ op.at = "last"
    BY <1>1, <1>2, <1>11, FilesAreTyped DEF ChunkUndone, At
  <2>2. SubSeq(Append(meta[u].got, op.of), 1, Len(meta[u].got)) = meta[u].got
    BY <1>2, <1>3
  <2>3. part'[u] = meta[u].got /\ meta'[u] = meta[u]
    BY <1>2, <2>1, <2>2, FilesAreTyped
  <2>4. Long(part'[u]) = k /\ Due(u)' \in {0, n - k} /\ Full(u)' \in {0, n}
    BY <1>3, <1>4, <1>5, <2>3, LongIs DEF Due, Full, Missing
  <2>5. Ahead' = 0 /\ \A f : AheadIn(f)' = 0
    BY <2>1, NothingAhead
  <2>6. \A f \in Caps : Here(u, f, Full(u)') + AheadIn(f)' <= Here(u, f, Full(u)) + AheadIn(f)
    BY <1>4, <1>8, <2>1, <2>4, <2>5 DEF Here
  <2>7. Long(part'[u]) + Due(u)' + Ahead' <= Long(part[u]) + Due(u) + Ahead
    BY <1>4, <1>8, <2>1, <2>4, <2>5
  <2>8. \A w \in Uploads : w # u => part'[w] = part[w] /\ meta'[w] = meta[w]
    BY <2>1, FilesAreTyped
  <2>9. Due(u)' \in Nat /\ Full(u)' \in Nat /\ Long(part[u]) \in Nat /\ Long(part'[u]) \in Nat
    BY <1>4, <1>8, <2>1, <2>4
  <2> QED BY <1>2, <1>4, <1>8, <2>1, <2>6, <2>7, <2>8, <2>9, UploadBalance
<1> QED BY <1>9, <1>10, <1>11

(* The end of an upload.                                                   *)
LEMMA SpaceOfEnd ==
  ASSUME FilesInv, FilesInv', RemovePart \/ PartRemains \/ RemoveSession
  PROVE  Shrinks
<1>1. PICK u : u = op.id
  OBVIOUS
<1>2. /\ u \in Uploads /\ op.do \in {"cancel", "complete"}
  BY <1>1 DEF RemovePart, PartRemains, RemoveSession, At, FilesInv, OpFits, CompleteFits, CancelFits
<1>3. /\ UNCHANGED <<tree, item>>
      /\ \/ part' = [part EXCEPT ![u] = None] /\ meta' = meta
         \/ meta' = [meta EXCEPT ![u] = None] /\ part' = part
  BY <1>1 DEF RemovePart, PartRemains, RemoveSession
<1>4. Ahead' = 0 /\ \A f : AheadIn(f)' = 0
  <2>1. CASE RemovePart
    BY <1>2, <2>1, GoingOn DEF RemovePart, Ahead, AheadIn
  <2>2. CASE PartRemains \/ RemoveSession
    BY <2>2, NothingAhead DEF PartRemains, RemoveSession
  <2> QED BY <2>1, <2>2
<1>5. Ahead \in Nat /\ \A f : AheadIn(f) \in Nat
  BY UseIsNumber DEF UseIsNumbers
<1>6. /\ Due(u)' = 0 /\ Full(u)' = 0 /\ Long(part[u]) \in Nat /\ Long(part'[u]) \in Nat
      /\ Long(part'[u]) <= Long(part[u])
  BY <1>2, <1>3, FilesAreTyped, LongIs DEF Due, Full, Listed
<1>7. Due(u) \in Nat /\ Full(u) \in Nat
  BY <1>2, DueIsNumber DEF FilesInv
<1>8. \A w \in Uploads : w # u => part'[w] = part[w] /\ meta'[w] = meta[w]
  BY <1>3, FilesAreTyped
<1>9. Long(part'[u]) + Due(u)' + Ahead' <= Long(part[u]) + Due(u) + Ahead
  BY <1>4, <1>5, <1>6, <1>7
<1>10. \A f \in Caps : Here(u, f, Full(u)') + AheadIn(f)' <= Here(u, f, Full(u)) + AheadIn(f)
  BY <1>4, <1>5, <1>6, <1>7 DEF Here
<1>11. Due(u)' \in Nat /\ Full(u)' \in Nat
  BY <1>6
<1> QED BY <1>2, <1>3, <1>6, <1>8, <1>9, <1>10, <1>11, UploadBalance

(* An upload that becomes a file.                                          *)
LEMMA SpaceOfInstall ==
  ASSUME FilesInv, FilesInv', HomesFit, InstallPart
  PROVE  Shrinks
<1>1. PICK u, p : u = op.id /\ p = op.path
  OBVIOUS
<1>2. /\ op.do = "complete" /\ u \in Uploads /\ p \in Paths /\ Listed(u) /\ Missing(u) = 0
      /\ tree[p] = None /\ FolderOf[u] = FolderOf[p]
  BY <1>1 DEF InstallPart, At, FilesInv, OpFits, CompleteFits, HomesFit
<1>3. /\ tree' = [tree EXCEPT ![p] = part[u]] /\ part' = [part EXCEPT ![u] = None]
      /\ GoOn("last") /\ UNCHANGED <<meta, item>>
  BY <1>1 DEF InstallPart
<1>4. /\ meta[u] \in UploadSession /\ part[u] = meta[u].got /\ part[u] \in Seq(Blocks)
      /\ meta[u].of \in Versions
  BY <1>2, FilesAreTyped DEF UploadFits, Listed, UploadSession
<1>5. PICK n \in Nat : n = Size[meta[u].of] /\ n = Len(part[u])
  BY <1>2, <1>4, FileAssumption DEF Missing
<1>6. Long(part[u]) = n /\ Due(u) = 0 /\ Full(u) = n /\ Long(tree[p]) = 0
  BY <1>2, <1>4, <1>5, LongIs DEF Due, Full
<1>7. Long(tree'[p]) = n /\ Long(part'[u]) = 0 /\ Due(u)' = 0 /\ Full(u)' = 0
  BY <1>2, <1>3, <1>4, <1>5, FilesAreTyped, LongIs DEF Due, Full, Listed
<1>8. Ahead' = 0 /\ Ahead = 0 /\ \A f : AheadIn(f)' = 0 /\ AheadIn(f) = 0
  BY <1>2, <1>3, GoingOn DEF Ahead, AheadIn
<1>9. /\ \A w \in Uploads : w # u => part'[w] = part[w] /\ meta'[w] = meta[w]
      /\ \A q \in Paths : q # p => tree'[q] = tree[q]
  BY <1>3, FilesAreTyped
<1>10. /\ Long(tree'[p]) + Long(part'[u]) + Due(u)' + Ahead'
            <= Long(tree[p]) + Long(part[u]) + Due(u) + Ahead
       /\ \A f \in Caps : Here(p, f, Long(tree'[p])) + Here(u, f, Full(u)') + AheadIn(f)'
                              <= Here(p, f, Long(tree[p])) + Here(u, f, Full(u)) + AheadIn(f)
       /\ Long(tree[p]) \in Nat /\ Long(tree'[p]) \in Nat /\ Long(part[u]) \in Nat
       /\ Long(part'[u]) \in Nat /\ Due(u)' \in Nat /\ Full(u)' \in Nat
  BY <1>2, <1>5, <1>6, <1>7, <1>8 DEF Here
<1> QED BY <1>2, <1>3, <1>9, <1>10, FileBalance

(* A file that is sent at once.                                            *)
LEMMA SpaceOfPut ==
  ASSUME FilesInv, FilesInv', HomesFit, WriteTemp \/ ReplaceFile \/ PutUndone
  PROVE  Shrinks
<1>1. PICK u, p : u = op.id /\ p = op.path
  OBVIOUS
<1>2. /\ op.do = "put" /\ u \in Uploads /\ p \in Paths /\ meta[u] = None /\ op.of \in Versions
      /\ part[u] = (IF op.at = "first" THEN None ELSE Whole(op.of)) /\ FolderOf[u] = FolderOf[p]
  BY <1>1 DEF WriteTemp, ReplaceFile, PutUndone, At, FilesInv, OpFits, CreateFits, HomesFit
<1>3. PICK n \in Nat : n = Size[op.of] /\ Long(Whole(op.of)) = n
  BY <1>2, LongIs
<1>4. Due(u) = 0 /\ Full(u) = 0 /\ \A f : AheadIn(f) = Here(u, f, n)
  BY <1>1, <1>2, <1>3 DEF Due, Full, Listed, AheadIn, Here
<1>5. CASE WriteTemp
  <2>1. /\ part' = [part EXCEPT ![u] = Whole(op.of)] /\ GoOn("last") /\ UNCHANGED <<tree, meta, item>>
        /\ op.at = "first"
    BY <1>1, <1>5 DEF WriteTemp, At
  <2>2. Ahead = n /\ Ahead' = 0 /\ \A f : AheadIn(f)' = AheadIn(f)
    BY <1>2, <1>3, <2>1, GoingOn DEF Ahead, AheadIn
  <2>3. /\ Long(part[u]) = 0 /\ Long(part'[u]) = n /\ Due(u)' = 0 /\ Full(u)' = 0
    BY <1>2, <1>3, <2>1, LongIs, FilesAreTyped DEF Due, Full, Listed
  <2>4. \A w \in Uploads : w # u => part'[w] = part[w] /\ meta'[w] = meta[w]
    BY <2>1, FilesAreTyped
  <2>5. \A f \in Caps : Here(u, f, Full(u)') + AheadIn(f)' <= Here(u, f, Full(u)) + AheadIn(f)
    BY <1>3, <1>4, <2>2, <2>3 DEF Here
  <2>6. /\ Long(part'[u]) + Due(u)' + Ahead' <= Long(part[u]) + Due(u) + Ahead
        /\ Long(part[u]) \in Nat /\ Long(part'[u]) \in Nat /\ Due(u)' \in Nat /\ Full(u)' \in Nat
    BY <1>4, <2>2, <2>3
  <2> QED BY <1>2, <2>1, <2>4, <2>5, <2>6, UploadBalance
<1>6. CASE PutUndone
  <2>1. /\ part' = [part EXCEPT ![u] = None] /\ GiveUp /\ UNCHANGED <<tree, meta, item>>
        /\ op.at = "last"
    BY <1>1, <1>6 DEF PutUndone, At
  <2>2. Ahead = 0 /\ Ahead' = 0 /\ \A f : AheadIn(f)' = 0
    BY <1>2, <2>1, NothingAhead DEF Ahead
  <2>3. /\ Long(part[u]) = n /\ Long(part'[u]) = 0 /\ Due(u)' = 0 /\ Full(u)' = 0
    BY <1>2, <1>3, <2>1, LongIs, FilesAreTyped DEF Due, Full, Listed
  <2>4. \A w \in Uploads : w # u => part'[w] = part[w] /\ meta'[w] = meta[w]
    BY <2>1, FilesAreTyped
  <2>5. \A f \in Caps : Here(u, f, Full(u)') + AheadIn(f)' <= Here(u, f, Full(u)) + AheadIn(f)
    BY <1>3, <1>4, <2>2, <2>3 DEF Here
  <2>6. /\ Long(part'[u]) + Due(u)' + Ahead' <= Long(part[u]) + Due(u) + Ahead
        /\ Long(part[u]) \in Nat /\ Long(part'[u]) \in Nat /\ Due(u)' \in Nat /\ Full(u)' \in Nat
    BY <1>4, <2>2, <2>3
  <2> QED BY <1>2, <2>1, <2>4, <2>5, <2>6, UploadBalance
<1>7. CASE ReplaceFile
  <2>1. /\ tree' = [tree EXCEPT ![p] = part[u]] /\ part' = [part EXCEPT ![u] = None]
        /\ Finish("ok") /\ UNCHANGED <<meta, item>> /\ op.at = "last"
    BY <1>1, <1>7 DEF ReplaceFile, At
  <2>2. Ahead = 0 /\ Ahead' = 0 /\ \A f : AheadIn(f)' = 0
    BY <1>2, <2>1, NothingAhead DEF Ahead
  <2>3. /\ Long(part[u]) = n /\ Long(part'[u]) = 0 /\ Due(u)' = 0 /\ Full(u)' = 0
        /\ Long(tree'[p]) = n
    BY <1>2, <1>3, <2>1, LongIs, FilesAreTyped DEF Due, Full, Listed
  <2>4. Long(tree[p]) \in Nat
    BY <1>2, FilesAreTyped, ContentsAreStored, LongIs
  <2>5. /\ \A w \in Uploads : w # u => part'[w] = part[w] /\ meta'[w] = meta[w]
        /\ \A q \in Paths : q # p => tree'[q] = tree[q]
    BY <2>1, FilesAreTyped
  <2>6. \A f \in Caps : Here(p, f, Long(tree'[p])) + Here(u, f, Full(u)') + AheadIn(f)'
                              <= Here(p, f, Long(tree[p])) + Here(u, f, Full(u)) + AheadIn(f)
    BY <1>2, <1>3, <1>4, <2>2, <2>3, <2>4 DEF Here
  <2>7. /\ Long(tree'[p]) + Long(part'[u]) + Due(u)' + Ahead'
             <= Long(tree[p]) + Long(part[u]) + Due(u) + Ahead
        /\ Long(tree'[p]) \in Nat /\ Long(part[u]) \in Nat
        /\ Long(part'[u]) \in Nat /\ Due(u)' \in Nat /\ Full(u)' \in Nat
    BY <1>4, <2>2, <2>3, <2>4
  <2> QED BY <1>2, <2>1, <2>4, <2>5, <2>6, <2>7, FileBalance
<1> QED BY <1>5, <1>6, <1>7

(* A move, within its folder.                                              *)
LEMMA SpaceOfMove ==
  ASSUME FilesInv, FilesInv', HomesFit, Rename, tree' # tree
  PROVE  Shrinks
<1>1. PICK p, q : p = op.path /\ q = op.to
  OBVIOUS
<1>2. /\ op.do = "move" /\ p \in Paths /\ q \in Paths /\ FolderOf[q] = FolderOf[p]
  BY <1>1 DEF Rename, At, FilesInv, OpFits, MoveFits, HomesFit
<1>3. tree' = [tree EXCEPT ![q] = tree[p], ![p] = None] /\ Finish("ok") /\ UNCHANGED <<part, meta, item>>
  BY <1>1 DEF Rename
<1>4. tree \in [Paths -> Stored] /\ IsFiniteSet(Paths)
  BY FilesAreTyped, ContentsAreStored, FileAssumption DEF Stored
<1>5. PICK mid : mid = [tree EXCEPT ![q] = tree[p]]
  OBVIOUS
<1>6. /\ mid \in [Paths -> Stored] /\ mid[q] = tree[p] /\ mid[p] = tree[p]
      /\ \A x \in Paths : x # q => mid[x] = tree[x]
  BY <1>2, <1>4, <1>5
<1>7. PICK gn : gn = [mid EXCEPT ![p] = None]
  OBVIOUS
<1>8. /\ gn \in [Paths -> Stored] /\ gn[p] = None /\ \A x \in Paths : x # p => gn[x] = mid[x]
  BY <1>2, <1>6, <1>7 DEF Stored
<1>9. tree' = gn
  BY <1>3, <1>5, <1>7
<1>10. /\ Cardinality(Held(mid)) + Long(tree[q]) = Cardinality(Held(tree)) + Long(tree[p])
       /\ \A f : Cardinality(HeldIn(mid, f)) + Here(q, f, Long(tree[q]))
                   = Cardinality(HeldIn(tree, f)) + Here(q, f, Long(tree[p]))
  <2>1. /\ Cardinality(Held(mid)) + Long(tree[q]) = Cardinality(Held(tree)) + Long(mid[q])
        /\ \A f : Cardinality(HeldIn(mid, f)) + Here(q, f, Long(tree[q]))
                    = Cardinality(HeldIn(tree, f)) + Here(q, f, Long(mid[q]))
    BY <1>2, <1>4, <1>6, HeldChanges
  <2> QED BY <1>6, <2>1
<1>11. /\ Cardinality(Held(gn)) + Long(tree[p]) = Cardinality(Held(mid)) + Long(gn[p])
       /\ \A f : Cardinality(HeldIn(gn, f)) + Here(p, f, Long(tree[p]))
                   = Cardinality(HeldIn(mid, f)) + Here(p, f, Long(gn[p]))
  <2>1. /\ Cardinality(Held(gn)) + Long(mid[p]) = Cardinality(Held(mid)) + Long(gn[p])
        /\ \A f : Cardinality(HeldIn(gn, f)) + Here(p, f, Long(mid[p]))
                    = Cardinality(HeldIn(mid, f)) + Here(p, f, Long(gn[p]))
    BY <1>2, <1>4, <1>6, <1>8, HeldChanges
  <2> QED BY <1>6, <2>1
<1>12. Long(tree[p]) \in Nat /\ Long(tree[q]) \in Nat /\ Long(gn[p]) = 0
  BY <1>2, <1>4, <1>8, LongIs DEF Stored
<1>13. /\ Cardinality(Held(tree)) \in Nat /\ Cardinality(Held(mid)) \in Nat
       /\ Cardinality(Held(gn)) \in Nat
       /\ \A f : /\ Cardinality(HeldIn(tree, f)) \in Nat /\ Cardinality(HeldIn(mid, f)) \in Nat
                 /\ Cardinality(HeldIn(gn, f)) \in Nat
  BY <1>4, <1>6, <1>8, HeldIsNumber
<1>14. Cardinality(Held(gn)) <= Cardinality(Held(tree))
  BY <1>10, <1>11, <1>12, <1>13
<1>15. ASSUME NEW f
       PROVE  Cardinality(HeldIn(gn, f)) <= Cardinality(HeldIn(tree, f))
  <2>1. /\ Here(q, f, Long(tree[p])) = Here(p, f, Long(tree[p])) /\ Here(p, f, Long(gn[p])) = 0
        /\ Here(q, f, Long(tree[q])) \in Nat /\ Here(p, f, Long(tree[p])) \in Nat
    BY <1>2, <1>12 DEF Here
  <2>2. /\ Cardinality(HeldIn(tree, f)) \in Nat /\ Cardinality(HeldIn(mid, f)) \in Nat
        /\ Cardinality(HeldIn(gn, f)) \in Nat
        /\ Cardinality(HeldIn(mid, f)) + Here(q, f, Long(tree[q]))
             = Cardinality(HeldIn(tree, f)) + Here(q, f, Long(tree[p]))
        /\ Cardinality(HeldIn(gn, f)) + Here(p, f, Long(tree[p]))
             = Cardinality(HeldIn(mid, f)) + Here(p, f, Long(gn[p]))
    BY <1>10, <1>11, <1>13
  <2> QED BY <2>1, <2>2
<1>16. Ahead' = 0 /\ \A f : AheadIn(f)' = 0
  BY <1>3, NothingAhead
<1>17. /\ Held(part)' = Held(part) /\ Held(item)' = Held(item) /\ Held(tree)' = Held(gn)
       /\ Promised(Sessions)' = Promised(Sessions)
       /\ \A f : /\ HeldIn(tree, f)' = HeldIn(gn, f) /\ HeldIn(item, f)' = HeldIn(item, f)
                 /\ Reserved(f)' = Reserved(f)
  BY <1>3, <1>9 DEF Held, HeldIn, Promised, Sessions, Listed, Missing, Reserved
<1>18. UseIsNumbers
  BY UseIsNumber
<1>19. PoolUse' <= PoolUse
  BY <1>13, <1>14, <1>16, <1>17, <1>18 DEF PoolUse, UseIsNumbers
<1>20. \A f \in Caps : CapUse(f)' <= CapUse(f)
  BY <1>13, <1>15, <1>16, <1>17, <1>18 DEF CapUse, Used, UseIsNumbers
<1> QED BY <1>19, <1>20 DEF Shrinks

(* The trash.                                                              *)
LEMMA SpaceOfTrash ==
  ASSUME FilesInv, FilesInv', HomesFit, TrashEntry \/ TrashUndone \/ RestoreEntry \/ PurgeEntry,
         item' # item
  PROVE  Shrinks
<1>1. PICK t, p : t = op.id /\ p = op.path
  OBVIOUS
<1>2. /\ t \in TrashIds /\ op.do \in {"trash", "restore", "purge"} /\ UNCHANGED <<part, meta>>
      /\ op.do # "purge" => p \in Paths /\ FolderOf[t] = FolderOf[p]
  BY <1>1 DEF TrashEntry, TrashUndone, RestoreEntry, PurgeEntry, At, FilesInv, OpFits, TrashFits,
              RestoreFits, PurgeFits, HomesFit
<1>3. Ahead' = 0 /\ \A f : AheadIn(f)' = 0
  <2>1. CASE TrashEntry \/ RestoreEntry \/ PurgeEntry
    BY <1>2, <2>1, GoingOn, NothingAhead DEF TrashEntry, RestoreEntry, PurgeEntry, Ahead, AheadIn
  <2>2. CASE TrashUndone
    BY <2>2, NothingAhead DEF TrashUndone
  <2> QED BY <2>1, <2>2
<1>4. Ahead \in Nat /\ \A f : AheadIn(f) \in Nat
  BY UseIsNumber DEF UseIsNumbers
<1>5. \A c \in {None} \cup Content : Long(c) \in Nat
  BY ContentsAreStored, LongIs
<1>6. CASE TrashEntry
  <2>1. /\ op.do = "trash" /\ item' = [item EXCEPT ![t] = tree[p]] /\ tree' = [tree EXCEPT ![p] = None]
    BY <1>1, <1>6 DEF TrashEntry, At
  <2>2. /\ Long(tree'[p]) = 0 /\ Long(item'[t]) = Long(tree[p]) /\ Long(tree[p]) \in Nat
        /\ Long(item[t]) \in Nat
        /\ \A x \in TrashIds : x # t => item'[x] = item[x]
        /\ \A q \in Paths : q # p => tree'[q] = tree[q]
    BY <1>2, <1>5, <2>1, FilesAreTyped, LongIs
  <2> QED BY <1>2, <1>3, <1>4, <2>1, <2>2, TrashBalance
<1>7. CASE TrashUndone \/ RestoreEntry
  <2>1. /\ op.do \in {"trash", "restore"} /\ tree' = [tree EXCEPT ![p] = item[t]]
        /\ item' = [item EXCEPT ![t] = None]
    BY <1>1, <1>7 DEF TrashUndone, RestoreEntry, At
  <2>2. /\ Long(tree'[p]) = Long(item[t]) /\ Long(item'[t]) = 0 /\ Long(tree[p]) \in Nat
        /\ Long(item[t]) \in Nat
        /\ \A x \in TrashIds : x # t => item'[x] = item[x]
        /\ \A q \in Paths : q # p => tree'[q] = tree[q]
    BY <1>2, <1>5, <2>1, FilesAreTyped, LongIs
  <2> QED BY <1>2, <1>3, <1>4, <2>1, <2>2, TrashBalance
<1>8. CASE PurgeEntry
  <2>1. item' = [item EXCEPT ![t] = None] /\ tree' = tree
    BY <1>1, <1>8 DEF PurgeEntry
  <2>2. /\ Long(item'[t]) = 0 /\ Long(item[t]) \in Nat
        /\ \A x \in TrashIds : x # t => item'[x] = item[x]
    BY <1>2, <1>5, <2>1, FilesAreTyped, LongIs
  <2>3. /\ Cardinality(Held(item)') + Long(item[t]) = Cardinality(Held(item)) + Long(item'[t])
        /\ \A f : Cardinality(HeldIn(item, f)') + Here(t, f, Long(item[t]))
                    = Cardinality(HeldIn(item, f)) + Here(t, f, Long(item'[t]))
    BY <1>2, <2>2, ItemMeasure
  <2>4. UseIsNumbers /\ UseIsNumbers'
    BY UseIsNumber, UseIsNumberNext
  <2>5. /\ Held(part)' = Held(part) /\ Held(tree)' = Held(tree)
        /\ Promised(Sessions)' = Promised(Sessions)
        /\ \A f : HeldIn(tree, f)' = HeldIn(tree, f) /\ Reserved(f)' = Reserved(f)
    BY <1>2, <2>1 DEF Held, HeldIn, Promised, Sessions, Listed, Missing, Reserved
  <2>6. PoolUse' <= PoolUse
    BY <1>3, <2>2, <2>3, <2>4, <2>5 DEF PoolUse, UseIsNumbers
  <2>7. ASSUME NEW f \in Caps
        PROVE  CapUse(f)' <= CapUse(f)
    BY <1>3, <2>2, <2>3, <2>4, <2>5 DEF CapUse, Used, UseIsNumbers, Here
  <2> QED BY <2>6, <2>7 DEF Shrinks
<1> QED BY <1>6, <1>7, <1>8

(* No step of a mutation uses more than was looked for when it began.      *)
LEMMA CoreStepShrinks ==
  ASSUME FilesInv, FilesInv', HomesFit, CoreStep
  PROVE  Shrinks
<1>1. Ahead \in Nat /\ \A f : AheadIn(f) \in Nat
  BY UseIsNumber DEF UseIsNumbers
<1>2. CASE UNCHANGED <<tree, part, meta, item>> /\ Ahead' = 0 /\ \A f : AheadIn(f)' = 0
  BY <1>1, <1>2, SameBalance
<1>3. CASE CreatePart \/ CreateMetadata \/ CreateUndone
  BY <1>3, SpaceOfCreate
<1>4. CASE WriteChunk \/ WriteChunkBotched \/ RecordChunk \/ ChunkUndone
  BY <1>4, SpaceOfChunk
<1>5. CASE RemovePart \/ PartRemains \/ RemoveSession
  BY <1>5, SpaceOfEnd
<1>6. CASE InstallPart \/ WriteTemp \/ ReplaceFile \/ PutUndone
  BY <1>6, SpaceOfInstall, SpaceOfPut
<1>7. CASE Rename
  <2>1. CASE tree' # tree
    BY <1>7, <2>1, SpaceOfMove
  <2>2. CASE tree' = tree
    BY <1>2, <1>7, <2>2, NothingAhead DEF Rename
  <2> QED BY <2>1, <2>2
<1>8. CASE TrashEntry \/ TrashUndone \/ RestoreEntry \/ PurgeEntry
  <2>1. CASE item' # item
    BY <1>8, <2>1, SpaceOfTrash
  <2>2. CASE item' = item
    <3>1. item[op.id] # None => item'[op.id] # None
      BY <2>2
    <3>2. CASE TrashEntry
      <4>1. op.id \in TrashIds /\ item[op.id] = None
        BY <3>2 DEF TrashEntry, At, FilesInv, OpFits, TrashFits
      <4>2. CASE tree[op.path] = None
        BY <1>2, <2>2, <3>2, <4>2, NothingAhead DEF TrashEntry
      <4>3. CASE tree[op.path] # None
        BY <2>2, <3>2, <4>1, <4>3, FilesAreTyped DEF TrashEntry
      <4> QED BY <4>2, <4>3
    <3>3. CASE TrashUndone \/ RestoreEntry \/ PurgeEntry
      <4>1. op.id \in TrashIds /\ item[op.id] # None
        BY <3>3 DEF TrashUndone, RestoreEntry, PurgeEntry, At, FilesInv, OpFits, TrashFits,
                    RestoreFits, PurgeFits, InTrash
      <4>2. item'[op.id] = None
        BY <3>3, <4>1, FilesAreTyped DEF TrashUndone, RestoreEntry, PurgeEntry
      <4> QED BY <3>1, <4>1, <4>2
    <3> QED BY <1>8, <3>2, <3>3
  <2> QED BY <2>1, <2>2
<1>9. CASE RecordOrigin \/ ForgetOrigin
  BY <1>2, <1>9, NothingAhead DEF RecordOrigin, ForgetOrigin
<1>10. CASE TargetExists \/ SessionRemains \/ FirstFails \/ UndoFails \/ CoreDies
  BY <1>2, <1>10, NothingAhead DEF TargetExists, SessionRemains, FirstFails, UndoFails, CoreDies, disk
<1> QED BY <1>3, <1>4, <1>5, <1>6, <1>7, <1>8, <1>9, <1>10 DEF CoreStep

(* What fitted before fits when no more is used, and what was not promised *)
(* anything still is not.                                                  *)
LEMMA ShrinkingFits ==
  ASSUME FilesInv, FilesInv', SpaceFits, Shrinks, UNCHANGED <<quota, reserve, raised, intrusions>>,
         Unpromised => Unpromised'
  PROVE  SpaceFits'
<1>1. UseIsNumbers /\ UseIsNumbers'
  BY UseIsNumber, UseIsNumberNext
<1>2. /\ PoolUse \in Nat /\ PoolUse' \in Nat
      /\ \A f : CapUse(f) \in Nat /\ CapUse(f)' \in Nat
  BY <1>1 DEF PoolUse, CapUse, Used, UseIsNumbers
<1>3. \A f \in Caps : quota[f] = 0 \/ quota[f] \in Nat
  BY FileAssumption DEF FilesInv, RestFits
<1>4. Capacity \in Nat /\ reserve \in Nat
  BY FileAssumption DEF FilesInv, RestFits
<1>5. ASSUME intrusions = 0, ~raised
      PROVE  Unpromised' \/ PoolUse' <= Capacity - reserve'
  <2>1. Unpromised \/ PoolUse <= Capacity - reserve
    BY <1>5 DEF SpaceFits
  <2>2. PoolUse' <= PoolUse
    BY DEF Shrinks
  <2> QED BY <1>2, <1>4, <2>1, <2>2
<1>6. ASSUME intrusions = 0, ~raised, NEW f \in Caps
      PROVE  quota'[f] = 0 \/ CapUse(f)' <= quota'[f]
  BY <1>2, <1>3, <1>6 DEF SpaceFits, Shrinks
<1> QED BY <1>5, <1>6 DEF SpaceFits

(* Where uploads stay and nothing begins that was promised, there is no    *)
(* promise still.                                                          *)
LEMMA StillUnpromised ==
  ASSUME UNCHANGED <<part, meta>>, op'.do = op.do \/ op'.do \notin Promising
  PROVE  Unpromised => Unpromised'
BY DEF Unpromised, Sessions, Listed

(* Where Core is idle it has nothing to write.                             *)
LEMMA IdleUse ==
  ASSUME Admit
  PROVE  Ahead = 0 /\ \A f : AheadIn(f) = 0
BY DEF Admit, Idle, Work, Ahead, AheadIn

(* An upload or a file begins only where it fits.                          *)
LEMMA SpaceOfBegin ==
  ASSUME FilesInv, FilesInv', SpaceFits, Admit, NEW c, NEW do \in {"create", "put"},
         NEW p \in Paths, NEW to, NEW u \in Uploads, NEW v \in Versions, FolderOf[u] = FolderOf[p],
         Fits(Size[v], FolderOf[p], None), Begin(c, Work(do, p, to, u, v))
  PROVE  SpaceFits'
<1>1. UseIsNumbers /\ Ahead = 0 /\ \A f : AheadIn(f) = 0
  BY UseIsNumber, IdleUse
<1>2. /\ UNCHANGED <<tree, part, meta, item, quota, reserve, raised, intrusions>>
      /\ op'.do = do /\ op'.of = v /\ op'.id = u /\ op'.at = "first"
  <2>1. UNCHANGED <<quota, reserve, raised, intrusions>>
    BY DEF Begin, policy
  <2>2. /\ op' = [do |-> do, at |-> "first", by |-> c, path |-> p, to |-> to, id |-> u, of |-> v]
        /\ UNCHANGED <<tree, part, meta, item, origin>>
    BY WorkBegun
  <2> QED BY <2>1, <2>2
<1>3. Size[v] \in Nat
  BY LongIs
<1>4. Ahead' = Size[v] /\ \A f : AheadIn(f)' = IF FolderOf[u] \in f THEN Size[v] ELSE 0
  BY <1>2 DEF Ahead, AheadIn
<1>5. /\ Held(part)' = Held(part) /\ Held(tree)' = Held(tree) /\ Held(item)' = Held(item)
      /\ Promised(Sessions)' = Promised(Sessions)
      /\ \A f : /\ HeldIn(tree, f)' = HeldIn(tree, f) /\ HeldIn(item, f)' = HeldIn(item, f)
                /\ Reserved(f)' = Reserved(f)
  BY <1>2 DEF Held, HeldIn, Promised, Sessions, Listed, Missing, Reserved
<1>6. Sessions \ {None} = Sessions
  BY FileAssumption DEF Sessions
<1>7. PoolUse' <= Capacity - reserve'
  <2>1. /\ Capacity \in Nat /\ reserve \in Nat /\ reserve' = reserve
        /\ Cardinality(Held(tree)) \in Nat /\ Cardinality(Held(part)) \in Nat
        /\ Cardinality(Held(item)) \in Nat /\ Cardinality(Promised(Sessions)) \in Nat
    BY <1>1, <1>2, FileAssumption DEF UseIsNumbers, FilesInv, RestFits
  <2>2. Size[v] <= PoolFree - reserve - Cardinality(Promised(Sessions))
    BY <1>6 DEF Fits, PoolAllowance
  <2>3. PoolUse' = Cardinality(Held(tree)) + Cardinality(Held(part)) + Cardinality(Held(item))
                   + Cardinality(Promised(Sessions)) + Size[v]
    BY <1>4, <1>5, <2>1, <1>3 DEF PoolUse
  <2> QED BY <1>3, <2>1, <2>2, <2>3 DEF PoolFree
<1>8. ASSUME intrusions' = 0, ~raised', NEW f \in Caps
      PROVE  quota'[f] = 0 \/ CapUse(f)' <= quota'[f]
  <2>1. quota'[f] = quota[f] /\ quota[f] \in Nat
    BY <1>2, FileAssumption DEF FilesInv, RestFits
  <2>2. CASE FolderOf[u] \in f
    <3>1. quota[f] = 0 \/ Size[v] <= quota[f] - Used(f) - Reserved(f) + 0
      BY <2>2 DEF Fits, CapAllowance, Credit
    <3>2. Used(f) \in Nat /\ Used(f)' = Used(f) /\ Reserved(f) \in Nat
      BY <1>1, <1>5 DEF Used, UseIsNumbers
    <3>3. CapUse(f)' = Used(f) + Reserved(f) + Size[v]
      BY <1>4, <1>5, <2>2, <3>2 DEF CapUse
    <3> QED BY <1>3, <2>1, <3>1, <3>2, <3>3
  <2>3. CASE FolderOf[u] \notin f
    BY <1>1, <1>2, <1>4, <1>5, <1>8, <2>1, <2>3 DEF SpaceFits, CapUse, Used
  <2> QED BY <2>2, <2>3
<1> QED BY <1>7, <1>8 DEF SpaceFits

(* A quota below what it counts and has promised is refused.               *)
LEMMA SpaceOfQuota ==
  ASSUME FilesInv, FilesInv', SpaceFits, NEW f \in Caps, NEW q \in Quotas, SetQuota(f, q)
  PROVE  SpaceFits'
<1>1. /\ UNCHANGED <<tree, part, meta, item, op, reserve, raised, intrusions>> /\ Admit
      /\ quota' = [quota EXCEPT ![f] = q] /\ (q = 0 \/ Used(f) + Reserved(f) <= q)
  BY DEF SetQuota, disk
<1>2. Ahead = 0 /\ (\A g : AheadIn(g) = 0) /\ UseIsNumbers /\ UseIsNumbers'
  BY <1>1, IdleUse, UseIsNumber, UseIsNumberNext
<1>3. Ahead' = 0 /\ \A g : AheadIn(g)' = 0
  BY <1>1, <1>2 DEF Ahead, AheadIn, Missing
<1>4. Shrinks /\ (Unpromised => Unpromised')
  BY <1>1, <1>2, <1>3, SameBalance, StillUnpromised
<1>5. /\ PoolUse \in Nat /\ PoolUse' \in Nat
      /\ \A g : CapUse(g) \in Nat /\ CapUse(g)' \in Nat
  BY <1>2 DEF PoolUse, CapUse, Used, UseIsNumbers
<1>6. CapUse(f) = Used(f) + Reserved(f)
  BY <1>2 DEF CapUse, Used, UseIsNumbers
<1>7. \A g \in Caps : quota[g] \in Nat /\ quota'[g] = IF g = f THEN q ELSE quota[g]
  BY <1>1, FileAssumption DEF FilesInv, RestFits
<1>8. q \in Nat /\ Capacity \in Nat /\ reserve \in Nat
  BY FileAssumption DEF FilesInv, RestFits
<1>9. ASSUME intrusions = 0, ~raised
      PROVE  Unpromised' \/ PoolUse' <= Capacity - reserve'
  <2>1. Unpromised \/ PoolUse <= Capacity - reserve
    BY <1>9 DEF SpaceFits
  <2>2. PoolUse' <= PoolUse /\ reserve' = reserve
    BY <1>1, <1>4 DEF Shrinks
  <2> QED BY <1>4, <1>5, <1>8, <2>1, <2>2
<1>10. ASSUME intrusions = 0, ~raised, NEW g \in Caps
       PROVE  quota'[g] = 0 \/ CapUse(g)' <= quota'[g]
  <2>1. CapUse(g)' <= CapUse(g)
    BY <1>4 DEF Shrinks
  <2>2. CASE g = f
    BY <1>1, <1>5, <1>6, <1>7, <1>8, <2>1, <2>2
  <2>3. CASE g # f
    BY <1>5, <1>7, <1>10, <2>1, <2>3 DEF SpaceFits
  <2> QED BY <2>2, <2>3
<1> QED BY <1>1, <1>9, <1>10 DEF SpaceFits

(* A reserve may be lowered, or raised while nothing is promised; raised   *)
(* over uploads under way it ends the promise (raised).                    *)
LEMMA SpaceOfReserve ==
  ASSUME FilesInv, FilesInv', SpaceFits, NEW r \in Reserves, SetReserve(r)
  PROVE  SpaceFits'
<1>1. /\ UNCHANGED <<tree, part, meta, item, op, quota, intrusions>> /\ Admit
      /\ reserve' = r /\ (~raised' => ~raised /\ (r > reserve => Sessions = {}))
  BY DEF SetReserve, disk
<1>2. Ahead = 0 /\ (\A g : AheadIn(g) = 0) /\ UseIsNumbers /\ UseIsNumbers'
  BY <1>1, IdleUse, UseIsNumber, UseIsNumberNext
<1>3. Ahead' = 0 /\ \A g : AheadIn(g)' = 0
  BY <1>1, <1>2 DEF Ahead, AheadIn, Missing
<1>4. Shrinks /\ (Unpromised => Unpromised')
  BY <1>1, <1>2, <1>3, SameBalance, StillUnpromised
<1>5. /\ PoolUse \in Nat /\ PoolUse' \in Nat
      /\ \A g : CapUse(g) \in Nat /\ CapUse(g)' \in Nat
  BY <1>2 DEF PoolUse, CapUse, Used, UseIsNumbers
<1>6. Capacity \in Nat /\ reserve \in Nat /\ r \in Nat
  BY FileAssumption DEF FilesInv, RestFits
<1>7. ASSUME intrusions = 0, ~raised'
      PROVE  Unpromised' \/ PoolUse' <= Capacity - reserve'
  <2>1. PoolUse' <= PoolUse /\ reserve' = r /\ (Unpromised \/ PoolUse <= Capacity - reserve)
    BY <1>1, <1>4, <1>7 DEF Shrinks, SpaceFits
  <2>2. CASE r > reserve
    <3>1. Unpromised
      BY <1>1, <1>7, <2>2 DEF Unpromised, Admit, Idle, Work, Promising
    <3> QED BY <1>4, <3>1
  <2>3. CASE ~(r > reserve)
    BY <1>4, <1>5, <1>6, <2>1, <2>3
  <2> QED BY <2>2, <2>3
<1>8. ASSUME intrusions = 0, ~raised', NEW g \in Caps
      PROVE  quota'[g] = 0 \/ CapUse(g)' <= quota'[g]
  <2>1. CapUse(g)' <= CapUse(g) /\ quota' = quota /\ (quota[g] = 0 \/ CapUse(g) <= quota[g])
    BY <1>1, <1>4, <1>8 DEF Shrinks, SpaceFits
  <2>2. quota[g] \in Nat
    BY FileAssumption DEF FilesInv, RestFits
  <2> QED BY <1>5, <2>1, <2>2
<1> QED BY <1>1, <1>7, <1>8 DEF SpaceFits

(* Requests.                                                               *)
LEMMA SpaceOfRequest ==
  ASSUME FilesInv, FilesInv', SpaceFits, NEW c \in Callers, Request(c)
  PROVE  SpaceFits'
<1>1. Ahead \in Nat /\ \A f : AheadIn(f) \in Nat
  BY UseIsNumber DEF UseIsNumbers
<1>2. ASSUME NEW why, Refuse(c, why)
      PROVE  SpaceFits'
  <2>1. UNCHANGED <<tree, part, meta, item, op, quota, reserve, raised, intrusions>>
    BY <1>2 DEF Refuse, disk, policy
  <2>2. Ahead' = Ahead /\ \A f : AheadIn(f)' = AheadIn(f)
    BY <2>1 DEF Ahead, AheadIn, Missing
  <2>3. Unpromised => Unpromised'
    BY <2>1, StillUnpromised
  <2> QED BY <1>1, <2>1, <2>2, <2>3, SameBalance, ShrinkingFits
<1>3. ASSUME NEW do, do \notin {"create", "put"}, NEW path, NEW to, NEW id, NEW of,
             do \in Promising => Sessions # {}, Begin(c, Work(do, path, to, id, of))
      PROVE  SpaceFits'
  <2>1. /\ UNCHANGED <<tree, part, meta, item, quota, reserve, raised, intrusions>>
        /\ op'.do = do /\ op'.at = "first"
    <3>1. UNCHANGED <<quota, reserve, raised, intrusions>>
      BY <1>3 DEF Begin, policy
    <3>2. /\ op' = [do |-> do, at |-> "first", by |-> c, path |-> path, to |-> to, id |-> id,
                    of |-> of]
          /\ UNCHANGED <<tree, part, meta, item, origin>>
      BY <1>3, WorkBegun
    <3> QED BY <3>1, <3>2
  <2>2. Ahead' = 0 /\ \A f : AheadIn(f)' = 0
    BY <1>3, <2>1 DEF Ahead, AheadIn
  <2>3. Unpromised => Unpromised'
    BY <1>3, <2>1, StillUnpromised DEF Unpromised
  <2> QED BY <1>1, <2>1, <2>2, <2>3, SameBalance, ShrinkingFits
<1>4. CASE fileFolderUploads(c)
  BY <1>2, <1>4, SpaceOfBegin DEF fileFolderUploads, CreateUpload
<1>5. CASE fileFolderContent(c)
  BY <1>2, <1>5, SpaceOfBegin DEF fileFolderContent, UploadLimited
<1>6. CASE fileFolderUploadChunk(c) \/ fileFolderUploadComplete(c) \/ fileFolderUpload(c)
  BY <1>2, <1>3, <1>6 DEF fileFolderUploadChunk, fileFolderUploadComplete, fileFolderUpload,
       AppendUploadChunk, CompleteUpload, CancelUpload, Sessions
<1>7. CASE fileFolderMove(c) \/ fileFolderEntry(c)
  BY <1>2, <1>3, <1>7 DEF fileFolderMove, fileFolderEntry, Move, Trash, Promising
<1>8. CASE fileFolderTrashRestore(c) \/ fileFolderTrashPurge(c)
  BY <1>2, <1>3, <1>8 DEF fileFolderTrashRestore, fileFolderTrashPurge, RestoreTrash, PurgeTrash,
                         Promising
<1>9. CASE fileFolderManagement(c) \/ fileUserQuotas(c)
  <2>1. PICK f \in Caps, q \in Quotas : SetQuota(f, q)
    BY <1>9 DEF fileFolderManagement, fileUserQuotas, Caps
  <2> QED BY <2>1, SpaceOfQuota
<1>10. CASE filePoolCapacityPolicy(c)
  BY <1>10, SpaceOfReserve DEF filePoolCapacityPolicy
<1> QED BY <1>4, <1>5, <1>6, <1>7, <1>8, <1>9, <1>10 DEF Request

(* No step of a mutation that was promised nothing promises anything.      *)
LEMMA UnpromisedStep ==
  ASSUME FilesInv, CoreStep
  PROVE  Unpromised => Unpromised'
<1> SUFFICES ASSUME op.do \notin Promising
             PROVE  Unpromised => Unpromised'
  BY DEF Unpromised
<1>1. CASE Rename \/ TrashEntry \/ RecordOrigin \/ TrashUndone \/ RestoreEntry \/ PurgeEntry
           \/ ForgetOrigin \/ FirstFails \/ UndoFails \/ CoreDies
  <2>1. UNCHANGED <<part, meta>>
    BY <1>1 DEF Rename, TrashEntry, RecordOrigin, TrashUndone, RestoreEntry, PurgeEntry,
         ForgetOrigin, FirstFails, UndoFails, CoreDies, disk
  <2>2. /\ \A why : Answer(why) => op' = Idle
        /\ \A why : Finish(why) => op' = Idle
        /\ GiveUp => op' = Idle
        /\ \A why : Botch(why) => op' = Idle
    BY DEF Finish, GiveUp, Botch, Answer
  <2>3. GoOn("last") => op'.do = op.do
    BY GoingOn
  <2>4. op'.do = op.do \/ op' = Idle
    BY <1>1, <2>2, <2>3 DEF Rename, TrashEntry, RecordOrigin, TrashUndone, RestoreEntry,
         PurgeEntry, ForgetOrigin, FirstFails, UndoFails, CoreDies
  <2>5. Idle.do \notin Promising
    BY DEF Idle, Work, Promising
  <2> QED BY <2>1, <2>4, <2>5, StillUnpromised
<1>2. CASE CreatePart \/ CreateMetadata \/ CreateUndone \/ WriteChunk \/ WriteChunkBotched
           \/ RecordChunk \/ ChunkUndone \/ InstallPart \/ TargetExists \/ RemoveSession
           \/ SessionRemains \/ RemovePart \/ PartRemains \/ WriteTemp \/ ReplaceFile \/ PutUndone
  BY <1>2 DEF Promising, At, CreatePart, CreateMetadata, CreateUndone, WriteChunk,
       WriteChunkBotched, RecordChunk, ChunkUndone, InstallPart, TargetExists, RemoveSession,
       SessionRemains, RemovePart, PartRemains, WriteTemp, ReplaceFile, PutUndone
<1> QED BY <1>1, <1>2 DEF CoreStep

(* Every step.                                                             *)
LEMMA SpaceStep ==
  ASSUME SpaceInv, [Next]_fileVars
  PROVE  SpaceInv'
<1>1. FilesInv /\ FilesInv' /\ HomesFit /\ HomesFit' /\ SpaceFits
  BY FilesStep, HomesStep DEF SpaceInv
<1>2. CASE CoreStep
  <2>1. UNCHANGED <<quota, reserve, raised, intrusions>>
    <3>1. CASE CreatePart \/ WriteChunk \/ InstallPart \/ RemovePart \/ WriteTemp
      BY <3>1 DEF CreatePart, WriteChunk, InstallPart, RemovePart, WriteTemp, GoOn, budget, policy
    <3>2. CASE TrashEntry \/ RestoreEntry \/ PurgeEntry
      BY <3>2 DEF TrashEntry, RestoreEntry, PurgeEntry, Finish, Answer, GoOn, budget, policy
    <3>3. CASE CreateMetadata \/ RecordChunk \/ TargetExists \/ RemoveSession
      BY <3>3 DEF CreateMetadata, RecordChunk, TargetExists, RemoveSession, Finish, Answer, policy
    <3>4. CASE ReplaceFile \/ Rename \/ RecordOrigin \/ ForgetOrigin
      BY <3>4 DEF ReplaceFile, Rename, RecordOrigin, ForgetOrigin, Finish, Answer, policy
    <3>5. CASE CreateUndone \/ ChunkUndone \/ PutUndone \/ TrashUndone \/ FirstFails
      BY <3>5 DEF CreateUndone, ChunkUndone, PutUndone, TrashUndone, FirstFails, GiveUp, Answer, policy
    <3>6. CASE WriteChunkBotched \/ SessionRemains \/ PartRemains \/ UndoFails \/ CoreDies
      BY <3>6 DEF WriteChunkBotched, SessionRemains, PartRemains, UndoFails, CoreDies, Botch, Answer, policy
    <3> QED BY <1>2, <3>1, <3>2, <3>3, <3>4, <3>5, <3>6 DEF CoreStep
  <2>2. Shrinks
    BY <1>1, <1>2, CoreStepShrinks
  <2>3. Unpromised => Unpromised'
    BY <1>1, <1>2, UnpromisedStep
  <2>4. SpaceFits'
    BY <1>1, <2>1, <2>2, <2>3, ShrinkingFits
  <2> QED BY <1>1, <2>4 DEF SpaceInv
<1>3. CASE Outside
  <2>1. intrusions' = intrusions + 1 /\ intrusions \in Nat
    BY <1>1, <1>3 DEF Outside, Intrude, FilesInv, RestFits
  <2>2. SpaceFits'
    BY <2>1 DEF SpaceFits
  <2> QED BY <1>1, <2>2 DEF SpaceInv
<1>4. CASE \E c \in Callers : Request(c)
  BY <1>1, <1>4, SpaceOfRequest DEF SpaceInv
<1>5. CASE UNCHANGED fileVars
  <2>1. UNCHANGED <<tree, part, meta, item, op, quota, reserve, raised, intrusions>>
    BY <1>5 DEF fileVars, disk, policy, budget
  <2>2. Ahead' = Ahead /\ \A f : AheadIn(f)' = AheadIn(f)
    BY <2>1 DEF Ahead, AheadIn, Missing
  <2>3. UseIsNumbers
    BY <1>1, UseIsNumber
  <2>4. Shrinks
    BY <1>1, <2>1, <2>2, <2>3, SameBalance DEF UseIsNumbers
  <2>5. Unpromised => Unpromised'
    BY <2>1, StillUnpromised
  <2> QED BY <1>1, <2>1, <2>4, <2>5, ShrinkingFits DEF SpaceInv
<1> QED BY <1>2, <1>3, <1>4, <1>5 DEF Next

(* At first nothing is stored or promised.                                 *)
LEMMA SpaceBegins == Init => SpaceInv
<1> SUFFICES ASSUME Init PROVE SpaceInv
  OBVIOUS
<1>1. FilesInv
  BY FilesBegin
<1>2. HomesFit
  BY DEF Init, HomesFit, Idle, Work
<1>3. Sessions = {}
  BY DEF Init, Sessions, Listed
<1>4. Unpromised
  BY <1>3 DEF Init, Unpromised, Promising, Idle, Work
<1>5. \A f \in Caps : quota[f] = 0
  BY DEF Init
<1> QED BY <1>1, <1>2, <1>4, <1>5 DEF SpaceInv, SpaceFits

(* A session has what it was promised.                                     *)
LEMMA SpaceIsPromised == SpaceInv => PromiseKept
<1> SUFFICES ASSUME SpaceInv, intrusions = 0, ~raised, NEW u \in Sessions
             PROVE  Fits(Missing(u), FolderOf[u], u)
  BY DEF PromiseKept
<1>1. /\ FilesInv /\ SpaceFits /\ UploadsFit /\ UseIsNumbers /\ u \in Uploads /\ Listed(u)
      /\ u # None
  BY UseIsNumber, FileAssumption DEF SpaceInv, FilesInv, Sessions
<1>2. Missing(u) \in Nat
  BY <1>1, DueIsNumber DEF Due
<1>3. Cardinality(Promised(Sessions)) = Cardinality(Promised(Sessions \ {u})) + Missing(u)
      /\ Cardinality(Promised(Sessions \ {u})) \in Nat
  <2> DEFINE n == [w \in Uploads |-> Due(w)]
  <2>1. n \in [Uploads -> Nat] /\ Promised(Sessions) = Area(Uploads, n)
    BY <1>1, PromisedIsArea DEF PromisesAreAreas
  <2>2. n[u] = Missing(u)
    BY <1>1 DEF Due
  <2>3. Promised(Sessions \ {u}) = Area(Uploads \ {u}, n)
    <3>1. ASSUME NEW b
          PROVE  b \in Promised(Sessions \ {u}) <=> b \in Area(Uploads \ {u}, n)
      <4>1. b \in Promised(Sessions \ {u})
            <=> \E w \in Uploads \ {u} : Listed(w) /\ b \in {w} \X (1..Missing(w))
        BY DEF Promised, Sessions
      <4>2. b \in Area(Uploads \ {u}, n) <=> \E w \in Uploads \ {u} : b \in {w} \X (1..n[w])
        BY DEF Area
      <4>3. ASSUME NEW w \in Uploads \ {u}
            PROVE  (Listed(w) /\ b \in {w} \X (1..Missing(w))) <=> b \in {w} \X (1..n[w])
        <5>1. CASE Listed(w)
          BY <5>1 DEF Due
        <5>2. CASE ~Listed(w)
          <6>1. 1..n[w] = {}
            BY <5>2 DEF Due
          <6> QED BY <5>2, <6>1
        <5> QED BY <5>1, <5>2
      <4> QED BY <4>1, <4>2, <4>3
    <3> QED BY <3>1
  <2> HIDE DEF n
  <2> QED BY <1>1, <2>1, <2>2, <2>3, FileAssumption, AreaOfOne
<1>4. PoolUse <= Capacity - reserve
  <2>1. ~Unpromised
    BY DEF Unpromised
  <2> QED BY <1>1, <2>1 DEF SpaceFits
<1>5. Missing(u) <= PoolAllowance(u)
  <2>1. /\ Capacity \in Nat /\ reserve \in Nat /\ Ahead \in Nat
        /\ Cardinality(Held(tree)) \in Nat /\ Cardinality(Held(part)) \in Nat
        /\ Cardinality(Held(item)) \in Nat
    BY <1>1, FileAssumption DEF UseIsNumbers, FilesInv, RestFits
  <2>2. PoolUse = Cardinality(Held(tree)) + Cardinality(Held(part)) + Cardinality(Held(item))
                  + Cardinality(Promised(Sessions)) + Ahead
    BY DEF PoolUse
  <2>3. PoolAllowance(u) = Capacity - Cardinality(Held(tree)) - Cardinality(Held(part))
          - Cardinality(Held(item)) - reserve - Cardinality(Promised(Sessions \ {u}))
    BY DEF PoolAllowance, PoolFree
  <2> QED BY <1>2, <1>3, <1>4, <2>1, <2>2, <2>3
<1>6. ASSUME NEW f \in Caps, FolderOf[u] \in f
      PROVE  quota[f] = 0 \/ Missing(u) <= CapAllowance(f, u)
  <2>1. Used(f) \in Nat /\ Reserved(f) \in Nat /\ AheadIn(f) \in Nat
    BY <1>1 DEF Used, UseIsNumbers
  <2>2. quota[f] = 0 \/ Used(f) + Reserved(f) + AheadIn(f) <= quota[f]
    BY <1>1 DEF SpaceFits, CapUse
  <2>3. Credit(u) = Missing(u)
    BY <1>1 DEF Credit
  <2>4. quota[f] \in Nat
    BY <1>1, FileAssumption DEF FilesInv, RestFits
  <2> QED BY <1>2, <2>1, <2>2, <2>3, <2>4 DEF CapAllowance
<1> QED BY <1>5, <1>6 DEF Fits

(* As long as Core alone writes and nobody raises the reserve over uploads *)
(* under way, an accepted upload fits to its last byte                     *)
(* (PromiseKept).                                                          *)
THEOREM PromisesHold == Spec => []PromiseKept
<1>1. SpaceInv /\ [Next]_fileVars => SpaceInv'
  BY SpaceStep
<1> QED BY <1>1, SpaceBegins, SpaceIsPromised, PTL DEF Spec

-----------------------------------------------------------------------------
(* The Windows client (FileSync).                                          *)

(* An upload the client works on was begun for the version it copies: the  *)
(* checksum in the metadata is that of its snapshot.                       *)
Steps == {"rest", "inspect", "trashing", "validate", "verify", "list", "cancelling", "create",
          "creating", "send", "sending", "resend", "finishing", "recheck"}
Holding  == {"send", "sending", "resend", "finishing"}
Requests == {"trash", "create", "chunk", "complete", "cancel"}
Statuses == {"none", "pending", "running", "completed", "failed"}
Belongs(u) ==
  /\ u \in Uploads
  /\ meta[u] # None => meta[u].of = agent.snap
  /\ op.do = "create" /\ op.id = u => op.of = agent.snap
AgentFits ==
  /\ agent \in [at : Steps, snap : Mine \cup {None}, id : Uploads \cup {None}, sent : Nat,
                block : Blocks \cup {None}, tries : 0..Tries, lost : BOOLEAN]
  /\ agent.at # "rest" => agent.snap \in Mine
  /\ agent.id # None => agent.sent <= Size[agent.snap]
  /\ agent.at \in Holding => Belongs(agent.id)
  /\ agent.at \in {"sending", "resend"} =>
       /\ agent.sent < Size[agent.snap]
       /\ agent.block \in Blocks /\ agent.block[2] = agent.sent + 1
  /\ agent.at = "inspect" => way.driver = "sync"

(* Only a queue has a row, and while it runs the client copies what the    *)
(* row says.                                                               *)
RowFits ==
  /\ way \in Ways /\ source \in Mine /\ row \in [status : Statuses, snap : Mine]
  /\ row.status # "none" <=> way.driver = "queue"
  /\ row.status = "running" => agent.at # "rest"
  /\ agent.at # "rest" /\ way.driver = "queue" => row.status = "running" /\ agent.snap = row.snap

(* What is asked, by the client and by a request it gave up.               *)
MayTrash == way.driver = "sync" /\ way.policy = "replace-to-trash"
RequestFits(r) ==
  /\ r \in [do : Requests \cup {"none", "served", "cut"}, id : Uploads \cup {None}, of : {r.of},
            at : {r.at}]
  /\ r.do = "trash" => MayTrash
  /\ r.do = "create" => r.of \in Mine
  /\ r.do = "chunk" => r.id \in Uploads /\ r.of \in Blocks /\ r.at = r.of[2] - 1
  /\ r.do \in {"complete", "cancel"} => r.id \in Uploads

(* The last answer to the client is that to its last request, and the      *)
(* completion of an upload is on its way to being true.                    *)
FinishFits ==
  /\ said["agent"] = "ok" => Whole(agent.snap) \in seen
  /\ op.by = "agent" /\ op.do # "idle" =>
       /\ op.do = "complete"
       /\ op.at = "first" => part[op.id] = Whole(agent.snap)
       /\ op.at = "last" => Whole(agent.snap) \in seen
WireFits ==
  /\ RequestFits(wire) /\ RequestFits(late)
  /\ agent.at = "creating" =>
       /\ wire.do \in {"create", "served", "cut"}
       /\ wire.do = "create" => wire.of = agent.snap
       /\ wire.do = "served" => Belongs(wire.id)
  /\ agent.at = "finishing" =>
       /\ wire.do \in {"complete", "served", "cut"}
       /\ wire.do = "complete" => wire.id = agent.id
       /\ wire.do = "served" => FinishFits

(* Core works for the client and for what it gave up, at the target.       *)
CoreFits ==
  /\ \A u \in Uploads : meta[u] # None => meta[u].path = Target /\ meta[u].sum = TRUE
  /\ op.do \in Requests \cup {"idle"}
  /\ op.do \in {"create", "complete", "trash"} => op.path = Target
  /\ op.do = "create" => op.to = TRUE
  /\ op.do = "trash" => MayTrash
SeenFits == (agent.at # "rest" => tree[Target] \in seen) /\ CopiedIsThere

(* The inductive invariant.                                                *)
SyncInv == FilesInv /\ AgentFits /\ RowFits /\ WireFits /\ CoreFits /\ SeenFits

-----------------------------------------------------------------------------
(* How the client goes on.                                                 *)
AgentIs(at, id, sent, block, tries, lost) ==
  agent' = [at |-> at, snap |-> agent.snap, id |-> id, sent |-> sent, block |-> block,
            tries |-> tries, lost |-> lost]

(* The client's record, field by field, after each kind of step.           *)
LEMMA AgentBecomes ==
  ASSUME AgentFits, NEW at
  PROVE  LET a == agent IN
         /\ agent' = [agent EXCEPT !.at = at] => AgentIs(at, a.id, a.sent, a.block, a.tries, a.lost)
         /\ \A i, n : agent' = [agent EXCEPT !.at = at, !.id = i, !.sent = n]
                        => AgentIs(at, i, n, a.block, a.tries, a.lost)
         /\ agent' = [agent EXCEPT !.at = at, !.sent = @ + 1]
              => AgentIs(at, a.id, a.sent + 1, a.block, a.tries, a.lost)
         /\ \A b, n : agent' = [agent EXCEPT !.at = at, !.block = b, !.tries = n]
                        => AgentIs(at, a.id, a.sent, b, n, a.lost)
         /\ agent' = [agent EXCEPT !.at = at, !.tries = @ + 1]
              => AgentIs(at, a.id, a.sent, a.block, a.tries + 1, a.lost)
         /\ \A l : agent' = [agent EXCEPT !.at = at, !.lost = l]
                     => AgentIs(at, a.id, a.sent, a.block, a.tries, l)
<1> DEFINE half == [agent EXCEPT !.at = at]
           Is(i, n, b, m, l) == [at |-> at, snap |-> agent.snap, id |-> i, sent |-> n, block |-> b,
                                 tries |-> m, lost |-> l]
<1>1. half = Is(agent.id, agent.sent, agent.block, agent.tries, agent.lost)
  BY DEF AgentFits
<1> HIDE DEF half
<1>2. /\ half.sent = agent.sent /\ half.tries = agent.tries
  BY <1>1
<1>3. \A i, n : [[half EXCEPT !.id = i] EXCEPT !.sent = n] = Is(i, n, agent.block, agent.tries, agent.lost)
  <2> TAKE i, n
  <2> DEFINE more == [half EXCEPT !.id = i]
  <2>1. more = Is(i, agent.sent, agent.block, agent.tries, agent.lost)
    BY <1>1
  <2> HIDE DEF more
  <2>2. [more EXCEPT !.sent = n] = Is(i, n, agent.block, agent.tries, agent.lost)
    BY <2>1
  <2> QED BY <2>2 DEF more
<1>4. \A n : [half EXCEPT !.sent = n] = Is(agent.id, n, agent.block, agent.tries, agent.lost)
  BY <1>1
<1>5. \A b, n : [[half EXCEPT !.block = b] EXCEPT !.tries = n] = Is(agent.id, agent.sent, b, n, agent.lost)
  <2> TAKE b, n
  <2> DEFINE more == [half EXCEPT !.block = b]
  <2>1. more = Is(agent.id, agent.sent, b, agent.tries, agent.lost)
    BY <1>1
  <2> HIDE DEF more
  <2>2. [more EXCEPT !.tries = n] = Is(agent.id, agent.sent, b, n, agent.lost)
    BY <2>1
  <2> QED BY <2>2 DEF more
<1>6. \A n : [half EXCEPT !.tries = n] = Is(agent.id, agent.sent, agent.block, n, agent.lost)
  BY <1>1
<1>7. \A l : [half EXCEPT !.lost = l] = Is(agent.id, agent.sent, agent.block, agent.tries, l)
  BY <1>1
<1>8. agent' = [agent EXCEPT !.at = at] => AgentIs(at, agent.id, agent.sent, agent.block, agent.tries, agent.lost)
  BY <1>1 DEF half, AgentIs
<1>9. \A i, n : agent' = [agent EXCEPT !.at = at, !.id = i, !.sent = n]
                  => AgentIs(at, i, n, agent.block, agent.tries, agent.lost)
  BY <1>3, Zenon DEF half, AgentIs
<1>10. agent' = [agent EXCEPT !.at = at, !.sent = @ + 1]
         => AgentIs(at, agent.id, agent.sent + 1, agent.block, agent.tries, agent.lost)
  BY <1>2, <1>4, Zenon DEF half, AgentIs
<1>11. \A b, n : agent' = [agent EXCEPT !.at = at, !.block = b, !.tries = n]
                   => AgentIs(at, agent.id, agent.sent, b, n, agent.lost)
  BY <1>5, Zenon DEF half, AgentIs
<1>12. agent' = [agent EXCEPT !.at = at, !.tries = @ + 1]
         => AgentIs(at, agent.id, agent.sent, agent.block, agent.tries + 1, agent.lost)
  BY <1>2, <1>6, Zenon DEF half, AgentIs
<1>13. \A l : agent' = [agent EXCEPT !.at = at, !.lost = l]
                => AgentIs(at, agent.id, agent.sent, agent.block, agent.tries, l)
  BY <1>7, Zenon DEF half, AgentIs
<1> QED BY <1>8, <1>9, <1>10, <1>11, <1>12, <1>13

(* Whatever the client does, Core is where it was.                         *)
LEMMA CoreStays ==
  ASSUME SyncInv, UNCHANGED <<fileVars, way>>
  PROVE  /\ FilesInv' /\ CoreFits' /\ MayTrash' = MayTrash /\ UNCHANGED <<tree, part, meta, op, said>>
<1>1. UNCHANGED <<tree, part, meta, op, said>>
  BY DEF fileVars, disk
<1>2. FilesInv'
  BY FilesStep DEF SyncInv
<1>3. MayTrash' = MayTrash
  BY DEF MayTrash
<1>4. CoreFits'
  BY <1>1, <1>3 DEF SyncInv, CoreFits
<1> QED BY <1>1, <1>2, <1>3, <1>4

(* Nothing asked is a request that fits.                                   *)
LEMMA SilentFits == RequestFits(Silent)
BY DEF RequestFits, Silent, Requests

(* What the client does in a run touches nothing else.                     *)
Still == UNCHANGED <<fileVars, way, source, late, seen>>

(* The client goes on with a run, and may ask Core for something.          *)
Onward(at, id, sent, block, tries, lost) ==
  /\ at \in Steps \ {"rest", "inspect"} /\ id \in Uploads \cup {None} /\ sent \in Nat
  /\ block \in Blocks \cup {None} /\ tries \in 0..Tries /\ lost \in BOOLEAN
  /\ id # None => sent <= Size[agent.snap]
  /\ at \in Holding => Belongs(id)
  /\ at \in {"sending", "resend"} =>
       sent < Size[agent.snap] /\ block \in Blocks /\ block[2] = sent + 1
  /\ AgentIs(at, id, sent, block, tries, lost)
Asks(at, id, r) ==
  /\ RequestFits(r) /\ wire' = r
  /\ at = "creating" => r.do = "create" /\ r.of = agent.snap
  /\ at = "finishing" => r.do = "complete" /\ r.id = id
LEMMA GoingOnKeepsSync ==
  ASSUME SyncInv, agent.at # "rest", UNCHANGED <<row, told>>, Still,
         NEW at, NEW id, NEW sent, NEW block, NEW tries, NEW lost,
         Onward(at, id, sent, block, tries, lost), NEW r, Asks(at, id, r)
  PROVE  SyncInv'
<1> USE DEF Onward, Asks
<1>1. /\ FilesInv' /\ CoreFits' /\ MayTrash' = MayTrash /\ UNCHANGED <<tree, part, meta, op, said>>
      /\ UNCHANGED <<way, source, late, seen>>
  BY CoreStays DEF Still
<1>2. /\ agent'.at = at /\ agent'.snap = agent.snap /\ agent'.id = id /\ agent'.sent = sent
      /\ agent'.block = block /\ agent'.tries = tries /\ agent'.lost = lost
  BY DEF AgentIs
<1>3. agent.snap \in Mine
  BY DEF SyncInv, AgentFits
<1>5. AgentFits'
  <2>1. agent' \in [at : Steps, snap : Mine \cup {None}, id : Uploads \cup {None}, sent : Nat,
                    block : Blocks \cup {None}, tries : 0..Tries, lost : BOOLEAN]
    BY <1>3 DEF AgentIs
  <2>2. (agent.at \in Holding => Belongs(agent.id))'
    BY <1>1, <1>2 DEF Belongs
  <2> QED BY <1>2, <1>3, <2>1, <2>2 DEF AgentFits
<1>6. RowFits'
  BY <1>1, <1>2 DEF SyncInv, RowFits
<1>7. WireFits'
  <2>1. RequestFits(wire)' /\ RequestFits(late)'
    BY <1>1 DEF SyncInv, WireFits, RequestFits
  <2> QED BY <1>2, <2>1 DEF WireFits
<1>8. SeenFits'
  BY <1>1, <1>2 DEF SyncInv, SeenFits, CopiedIsThere
<1> QED BY <1>1, <1>5, <1>6, <1>7, <1>8 DEF SyncInv

(* The client rests and tells what became of the run.                      *)
LEMMA RestingKeepsSync ==
  ASSUME SyncInv, UNCHANGED <<fileVars, way, source, seen>>, agent' = Resting, wire' = Silent,
         RequestFits(late)', row' \in [status : Statuses, snap : {row.snap}],
         row'.status # "running", row'.status # "none" <=> row.status # "none",
         CopiedIsThere'
  PROVE  SyncInv'
<1>1. FilesInv' /\ CoreFits' /\ MayTrash' = MayTrash /\ UNCHANGED <<tree, part, meta, op, said>>
  BY CoreStays
<1>2. /\ agent'.at = "rest" /\ agent'.id = None
      /\ agent' \in [at : Steps, snap : Mine \cup {None}, id : Uploads \cup {None}, sent : Nat,
                     block : Blocks \cup {None}, tries : 0..Tries, lost : BOOLEAN]
  BY SyncAssumption DEF Resting, Steps
<1>3. AgentFits'
  BY <1>2 DEF AgentFits, Holding
<1>4. RowFits'
  BY <1>2 DEF SyncInv, RowFits
<1>5. WireFits'
  <2>1. RequestFits(wire)'
    BY SilentFits, <1>1 DEF RequestFits, Silent
  <2> QED BY <1>2, <2>1 DEF WireFits
<1>6. SeenFits'
  BY <1>2 DEF SeenFits
<1> QED BY <1>1, <1>3, <1>4, <1>5, <1>6 DEF SyncInv

(* The request given up is where it was.                                   *)
LEMMA LateStays ==
  ASSUME SyncInv, UNCHANGED <<late, way>>
  PROVE  RequestFits(late)'
BY DEF SyncInv, WireFits, RequestFits, MayTrash

(* A run ends with a report.                                               *)
LEMMA ReportKeeps ==
  ASSUME SyncInv, agent.at # "rest", NEW what, Report(what),
         what \in {"copied", "unchanged"} => Whole(agent.snap) \in seen,
         what \in {"failed", "pending", "copied"} \/ agent.at = "inspect"
  PROVE  SyncInv'
<1>1. /\ agent' = Resting /\ wire' = Silent /\ told' = [what |-> what, of |-> agent.snap]
      /\ UNCHANGED <<fileVars, way, source, seen, late>>
      /\ row' = IF way.driver = "queue" THEN [row EXCEPT !.status = Outcome(what)] ELSE row
  BY DEF Report, Stay
<1>2. told'.what = what /\ told'.of = agent.snap
  BY <1>1
<1>3. RequestFits(late)'
  BY <1>1, LateStays
<1>4. row \in [status : Statuses, snap : Mine] /\ (row.status # "none" <=> way.driver = "queue")
  BY DEF SyncInv, RowFits
<1>5. Outcome(what) \in {"failed", "pending", "completed"} /\ Outcome(what) \in Statuses
  BY DEF Outcome, Statuses
<1>6. CASE way.driver = "queue"
  <2>1. row' = [status |-> Outcome(what), snap |-> row.snap]
    BY <1>1, <1>4, <1>6
  <2>2. row'.status = Outcome(what) /\ row'.snap = row.snap /\ row' \in [status : Statuses, snap : {row.snap}]
    BY <1>5, <2>1
  <2>3. agent.snap = row.snap /\ agent.at # "inspect"
    BY <1>6 DEF SyncInv, RowFits, AgentFits
  <2>4. Outcome(what) = "completed" => what = "copied"
    BY <2>3 DEF Outcome
  <2>5. CopiedIsThere'
    BY <1>1, <1>2, <2>2, <2>3, <2>4 DEF CopiedIsThere
  <2> QED BY <1>1, <1>3, <1>4, <1>5, <1>6, <2>2, <2>5, RestingKeepsSync
<1>7. CASE way.driver # "queue"
  <2>1. row' = row /\ row.status = "none" /\ row \in [status : Statuses, snap : {row.snap}]
    BY <1>1, <1>4, <1>7
  <2>2. CopiedIsThere'
    BY <1>1, <1>2, <2>1 DEF CopiedIsThere
  <2> QED BY <1>1, <1>3, <2>1, <2>2, RestingKeepsSync
<1> QED BY <1>6, <1>7

(* A run ends because something failed.                                    *)
LEMMA RunFailsKeeps ==
  ASSUME SyncInv, agent.at # "rest", NEW lost, RunFails(lost)
  PROVE  SyncInv'
BY ReportKeeps DEF RunFails

(* The client turns to its next step with what it has.                     *)
LEMMA TurnKeeps ==
  ASSUME SyncInv, agent.at # "rest",
         NEW at \in {"validate", "verify", "list", "create"}, Turn(at)
  PROVE  SyncInv'
<1>1. /\ AgentIs(at, agent.id, agent.sent, agent.block, agent.tries, agent.lost)
      /\ wire' = Silent /\ UNCHANGED <<row, told>> /\ Still
  BY AgentBecomes DEF Turn, Become, SyncInv, Stay, Still
<1>2. /\ agent.id \in Uploads \cup {None} /\ agent.sent \in Nat /\ agent.block \in Blocks \cup {None}
      /\ agent.tries \in 0..Tries /\ agent.lost \in BOOLEAN /\ (agent.id # None => agent.sent <= Size[agent.snap])
  BY DEF SyncInv, AgentFits
<1>3. at \in Steps \ {"rest", "inspect", "creating", "finishing", "sending", "resend"} /\ at \notin Holding
  BY DEF Steps, Holding
<1>4. Onward(at, agent.id, agent.sent, agent.block, agent.tries, agent.lost) /\ Asks(at, agent.id, Silent)
  BY <1>1, <1>2, <1>3, SilentFits DEF Onward, Asks
<1> QED BY <1>1, <1>4, GoingOnKeepsSync

(* The upload fails, and the client looks whether it is done.              *)
LEMMA UploadFailsKeeps ==
  ASSUME SyncInv, agent.at # "rest", NEW lost \in BOOLEAN, UploadFails(lost)
  PROVE  SyncInv'
<1>1. /\ AgentIs("recheck", agent.id, agent.sent, agent.block, agent.tries, lost)
      /\ wire' = Silent /\ UNCHANGED <<row, told>> /\ Still
  BY AgentBecomes DEF UploadFails, Become, SyncInv, Stay, Still
<1>2. /\ agent.id \in Uploads \cup {None} /\ agent.sent \in Nat /\ agent.block \in Blocks \cup {None}
      /\ agent.tries \in 0..Tries /\ (agent.id # None => agent.sent <= Size[agent.snap])
  BY DEF SyncInv, AgentFits
<1>3. "recheck" \in Steps \ {"rest", "inspect"} /\ "recheck" \notin Holding
  BY DEF Steps, Holding
<1>4. Onward("recheck", agent.id, agent.sent, agent.block, agent.tries, lost) /\ Asks("recheck", agent.id, Silent)
  BY <1>1, <1>2, <1>3, SilentFits DEF Onward, Asks
<1> QED BY <1>1, <1>4, GoingOnKeepsSync
(* The client asks for something.                                          *)
LEMMA SendKeeps ==
  ASSUME SyncInv, agent.at # "rest",
         NEW at \in {"trashing", "cancelling", "creating", "sending", "finishing"},
         NEW r, RequestFits(r), Send(at, r),
         at = "creating" => r.do = "create" /\ r.of = agent.snap,
         at = "finishing" => r.do = "complete" /\ r.id = agent.id,
         at \in Holding => Belongs(agent.id),
         at = "sending" => /\ agent.sent < Size[agent.snap] /\ agent.block \in Blocks
                           /\ agent.block[2] = agent.sent + 1
  PROVE  SyncInv'
<1>1. /\ AgentIs(at, agent.id, agent.sent, agent.block, agent.tries, agent.lost)
      /\ wire' = r /\ UNCHANGED <<row, told>> /\ Still
  BY AgentBecomes DEF Send, SyncInv, Stay, Still
<1>2. /\ agent.id \in Uploads \cup {None} /\ agent.sent \in Nat /\ agent.block \in Blocks \cup {None}
      /\ agent.tries \in 0..Tries /\ agent.lost \in BOOLEAN /\ (agent.id # None => agent.sent <= Size[agent.snap])
  BY DEF SyncInv, AgentFits
<1>3. at \in Steps \ {"rest", "inspect", "resend"}
  BY DEF Steps
<1>4. at \in {"sending", "resend"} =>
        agent.sent < Size[agent.snap] /\ agent.block \in Blocks /\ agent.block[2] = agent.sent + 1
  OBVIOUS
<1>5. at \in Steps \ {"rest", "inspect"}
  BY <1>3
<1>6. Onward(at, agent.id, agent.sent, agent.block, agent.tries, agent.lost) /\ Asks(at, agent.id, r)
  BY <1>1, <1>2, <1>4, <1>5 DEF Onward, Asks
<1> QED BY <1>1, <1>6, GoingOnKeepsSync

-----------------------------------------------------------------------------
(* The steps of a run.                                                     *)
(* What is as planned at the target has been seen there.                   *)
LEMMA SameIsSeen ==
  ASSUME SyncInv, agent.at # "rest", Same
  PROVE  Whole(agent.snap) \in seen
BY DEF SyncInv, SeenFits, Same

(* SyncOnce compares and follows the policy.                               *)
LEMMA InspectKeeps ==
  ASSUME SyncInv, Inspect
  PROVE  SyncInv'
<1>1. agent.at = "inspect" /\ way.driver = "sync"
  BY DEF Inspect, SyncInv, AgentFits
<1>2. CASE Same /\ Report("unchanged")
  BY <1>1, <1>2, SameIsSeen, ReportKeeps
<1>3. CASE Turn("validate")
  BY <1>1, <1>3, TurnKeeps
<1>4. CASE Report("failed") \/ Report("skipped")
  BY <1>1, <1>4, ReportKeeps
<1>5. CASE way.policy = "replace-to-trash" /\ Send("trashing", Asked("trash", None, None, 0))
  <2>1. RequestFits(Asked("trash", None, None, 0))
    BY <1>1, <1>5 DEF RequestFits, Asked, Requests, MayTrash
  <2> QED BY <1>1, <1>5, <2>1, SendKeeps DEF Holding
<1> QED BY <1>2, <1>3, <1>4, <1>5 DEF Inspect

(* The answer to what was asked of the trash.                              *)
LEMMA TrashingKeeps ==
  ASSUME SyncInv, Trashing
  PROVE  SyncInv'
BY TurnKeeps, RunFailsKeeps DEF Trashing

(* The snapshot still stands, or the run fails.                            *)
LEMMA ValidateKeeps ==
  ASSUME SyncInv, Validate
  PROVE  SyncInv'
BY TurnKeeps, RunFailsKeeps DEF Validate

(* What is at the target is looked at again before the upload.             *)
LEMMA VerifyKeeps ==
  ASSUME SyncInv, Verify
  PROVE  SyncInv'
<1>1. agent.at = "verify"
  BY DEF Verify
<1>2. CASE Same /\ Report("copied")
  BY <1>1, <1>2, SameIsSeen, ReportKeeps
<1> QED BY <1>1, <1>2, TurnKeeps, RunFailsKeeps DEF Verify

(* An upload of this very version is resumed, another one cancelled.       *)
LEMMA ListUploadsKeeps ==
  ASSUME SyncInv, ListUploads
  PROVE  SyncInv'
<1>1. agent.at = "list"
  BY DEF ListUploads
<1>2. ASSUME NEW u \in Unfinished, Resumable(u),
             Become([agent EXCEPT !.at = "send", !.id = u, !.sent = Len(meta[u].got)])
      PROVE  SyncInv'
  <2>1. u \in Uploads /\ meta[u] # None /\ meta[u].of = agent.snap
    BY <1>2 DEF Unfinished, Sessions, Listed, Resumable
  <2>2. meta[u] \in UploadSession /\ Len(meta[u].got) <= Size[meta[u].of] /\ Len(meta[u].got) \in Nat
    BY <2>1 DEF SyncInv, FilesInv, UploadsFit, UploadFits, RecordFits, UploadSession
  <2>3. op.do = "create" => op.id # u
    BY <2>1 DEF SyncInv, FilesInv, OpFits, CreateFits
  <2>4. Belongs(u)
    BY <2>1, <2>3 DEF Belongs
  <2>5. /\ AgentIs("send", u, Len(meta[u].got), agent.block, agent.tries, agent.lost)
        /\ wire' = Silent /\ UNCHANGED <<row, told>> /\ Still
    BY <1>2, AgentBecomes DEF Become, SyncInv, Stay, Still
  <2>6. /\ agent.block \in Blocks \cup {None} /\ agent.tries \in 0..Tries /\ agent.lost \in BOOLEAN
        /\ "send" \in Steps \ {"rest", "inspect"}
    BY DEF SyncInv, AgentFits, Steps
  <2>7. Onward("send", u, Len(meta[u].got), agent.block, agent.tries, agent.lost) /\ Asks("send", u, Silent)
    BY <2>1, <2>2, <2>4, <2>5, <2>6, SilentFits DEF Onward, Asks
  <2> QED BY <1>1, <2>5, <2>7, GoingOnKeepsSync
<1>3. ASSUME NEW u \in Unfinished, Send("cancelling", Asked("cancel", u, None, 0))
      PROVE  SyncInv'
  <2>1. RequestFits(Asked("cancel", u, None, 0))
    BY <1>3 DEF RequestFits, Asked, Requests, Unfinished, Sessions
  <2> QED BY <1>1, <1>3, <2>1, SendKeeps DEF Holding
<1> QED BY <1>1, <1>2, <1>3, TurnKeeps, UploadFailsKeeps DEF ListUploads

(* The answer to the cancellation.                                         *)
LEMMA CancellingKeeps ==
  ASSUME SyncInv, Cancelling
  PROVE  SyncInv'
BY TurnKeeps, UploadFailsKeeps DEF Cancelling

(* An upload is asked for.                                                 *)
LEMMA CreateSessionKeeps ==
  ASSUME SyncInv, CreateSession
  PROVE  SyncInv'
<1>1. agent.at = "create" /\ agent.snap \in Mine
  BY DEF CreateSession, SyncInv, AgentFits
<1>2. /\ RequestFits(Asked("create", None, agent.snap, 0))
      /\ Asked("create", None, agent.snap, 0).do = "create"
      /\ Asked("create", None, agent.snap, 0).of = agent.snap
  BY <1>1 DEF RequestFits, Asked, Requests
<1> QED BY <1>1, <1>2, SendKeeps DEF CreateSession, Holding

(* The answer names an upload begun for the snapshot.                      *)
LEMMA CreatingKeeps ==
  ASSUME SyncInv, Creating
  PROVE  SyncInv'
<1>1. agent.at = "creating"
  BY DEF Creating
<1>2. CASE Hear("ok") /\ Become([agent EXCEPT !.at = "send", !.id = wire.id, !.sent = 0])
  <2>1. Belongs(wire.id) /\ wire.id \in Uploads
    BY <1>1, <1>2 DEF SyncInv, WireFits, Hear, Belongs
  <2>2. /\ AgentIs("send", wire.id, 0, agent.block, agent.tries, agent.lost)
        /\ wire' = Silent /\ UNCHANGED <<row, told>> /\ Still
    BY <1>2, AgentBecomes DEF Become, SyncInv, Stay, Still
  <2>3. /\ agent.block \in Blocks \cup {None} /\ agent.tries \in 0..Tries /\ agent.lost \in BOOLEAN
        /\ "send" \in Steps \ {"rest", "inspect"} /\ agent.snap \in Versions
    BY <1>1 DEF SyncInv, AgentFits, Steps, Mine
  <2>4. 0 <= Size[agent.snap]
    BY <2>3, FileAssumption
  <2>5. Onward("send", wire.id, 0, agent.block, agent.tries, agent.lost) /\ Asks("send", wire.id, Silent)
    BY <2>1, <2>2, <2>3, <2>4, SilentFits DEF Onward, Asks
  <2> QED BY <1>1, <2>2, <2>5, GoingOnKeepsSync
<1> QED BY <1>1, <1>2, UploadFailsKeeps DEF Creating

(* A chunk is read from the file as it is now, and sent.                   *)
LEMMA SendChunkKeeps ==
  ASSUME SyncInv, SendChunk
  PROVE  SyncInv'
<1>1. /\ agent.at = "send" /\ agent.sent < Size[agent.snap] /\ agent.sent \in Nat
      /\ Belongs(agent.id) /\ agent.id \in Uploads /\ agent.lost \in BOOLEAN /\ source \in Versions
      /\ agent.snap \in Versions
  BY DEF SendChunk, SyncInv, AgentFits, Holding, Belongs, RowFits, Mine
<1>2. CASE agent.sent < Size[source]
  <2> DEFINE b == <<source, agent.sent + 1>>
             r == Asked("chunk", agent.id, b, agent.sent)
  <2>1. /\ agent' = [agent EXCEPT !.at = "sending", !.block = b, !.tries = 1]
        /\ wire' = r /\ UNCHANGED <<row, told>> /\ Still
    BY <1>2 DEF SendChunk, Stay, Still
  <2>2. AgentIs("sending", agent.id, agent.sent, b, 1, agent.lost)
    BY <2>1, AgentBecomes DEF SyncInv
  <2>3. agent.sent + 1 \in 1..Size[source]
    BY <1>1, <1>2, FileAssumption
  <2>4. b \in Blocks /\ b[2] = agent.sent + 1
    BY <1>1, <2>3 DEF Blocks
  <2>5. RequestFits(r)
    BY <1>1, <2>4 DEF RequestFits, Asked, Requests
  <2>6. 1 \in 0..Tries /\ "sending" \in Steps \ {"rest", "inspect"} /\ agent.sent <= Size[agent.snap]
    BY <1>1, FileAssumption, SyncAssumption DEF Steps
  <2> HIDE DEF b, r
  <2>7. Onward("sending", agent.id, agent.sent, b, 1, agent.lost) /\ Asks("sending", agent.id, r)
    BY <1>1, <2>1, <2>2, <2>4, <2>5, <2>6 DEF Onward, Asks
  <2> QED BY <1>1, <2>1, <2>7, GoingOnKeepsSync
<1>3. CASE ~(agent.sent < Size[source])
  BY <1>1, <1>3, UploadFailsKeeps DEF SendChunk
<1> QED BY <1>2, <1>3

(* The answer to a chunk.                                                  *)
LEMMA SendingKeeps ==
  ASSUME SyncInv, Sending
  PROVE  SyncInv'
<1>1. /\ agent.at = "sending" /\ agent.sent < Size[agent.snap] /\ agent.sent \in Nat
      /\ Belongs(agent.id) /\ agent.id \in Uploads /\ agent.lost \in BOOLEAN
      /\ agent.block \in Blocks /\ agent.block[2] = agent.sent + 1 /\ agent.tries \in 0..Tries
      /\ agent.snap \in Versions
  BY DEF Sending, SyncInv, AgentFits, Holding, Belongs, Mine
<1>2. agent.sent + 1 <= Size[agent.snap] /\ agent.sent <= Size[agent.snap]
  BY <1>1, FileAssumption
<1>3. {"send", "resend"} \subseteq Steps \ {"rest", "inspect"}
  BY DEF Steps
<1>4. CASE Received
  <2>1. /\ AgentIs("send", agent.id, agent.sent + 1, agent.block, agent.tries, agent.lost)
        /\ wire' = Silent /\ UNCHANGED <<row, told>> /\ Still
    BY <1>4, AgentBecomes DEF Received, Become, SyncInv, Stay, Still
  <2>2. Onward("send", agent.id, agent.sent + 1, agent.block, agent.tries, agent.lost) /\ Asks("send", agent.id, Silent)
    BY <1>1, <1>2, <1>3, <2>1, SilentFits DEF Onward, Asks
  <2> QED BY <1>1, <2>1, <2>2, GoingOnKeepsSync
<1>5. CASE agent.tries < Tries /\ Become([agent EXCEPT !.at = "resend", !.tries = @ + 1])
  <2>1. /\ AgentIs("resend", agent.id, agent.sent, agent.block, agent.tries + 1, agent.lost)
        /\ wire' = Silent /\ UNCHANGED <<row, told>> /\ Still
    BY <1>5, AgentBecomes DEF Become, SyncInv, Stay, Still
  <2>2. agent.tries + 1 \in 0..Tries
    BY <1>1, <1>5, SyncAssumption
  <2>3. Onward("resend", agent.id, agent.sent, agent.block, agent.tries + 1, agent.lost) /\ Asks("resend", agent.id, Silent)
    BY <1>1, <1>2, <1>3, <2>1, <2>2, SilentFits DEF Onward, Asks
  <2> QED BY <1>1, <2>1, <2>3, GoingOnKeepsSync
<1> QED BY <1>1, <1>4, <1>5, UploadFailsKeeps DEF Sending

(* The same chunk is sent again.                                           *)
LEMMA SendAgainKeeps ==
  ASSUME SyncInv, SendAgain
  PROVE  SyncInv'
<1>1. /\ agent.at = "resend" /\ agent.sent < Size[agent.snap] /\ agent.sent \in Nat
      /\ Belongs(agent.id) /\ agent.id \in Uploads
      /\ agent.block \in Blocks /\ agent.block[2] = agent.sent + 1
  BY DEF SendAgain, SyncInv, AgentFits, Holding, Belongs
<1>2. RequestFits(Asked("chunk", agent.id, agent.block, agent.sent))
  BY <1>1 DEF RequestFits, Asked, Requests
<1> QED BY <1>1, <1>2, SendKeeps DEF SendAgain

(* The upload is to be completed.                                          *)
LEMMA FinishUploadKeeps ==
  ASSUME SyncInv, FinishUpload
  PROVE  SyncInv'
<1>1. agent.at = "send" /\ Belongs(agent.id) /\ agent.id \in Uploads
  BY DEF FinishUpload, SyncInv, AgentFits, Holding, Belongs
<1>2. CASE Send("finishing", Asked("complete", agent.id, None, 0))
  <2>1. /\ RequestFits(Asked("complete", agent.id, None, 0))
        /\ Asked("complete", agent.id, None, 0).do = "complete"
        /\ Asked("complete", agent.id, None, 0).id = agent.id
    BY <1>1 DEF RequestFits, Asked, Requests
  <2> QED BY <1>1, <1>2, <2>1, SendKeeps
<1> QED BY <1>1, <1>2, UploadFailsKeeps DEF FinishUpload

(* Its completion was true, or the client looks for itself.                *)
LEMMA FinishingKeeps ==
  ASSUME SyncInv, Finishing
  PROVE  SyncInv'
<1>1. agent.at = "finishing"
  BY DEF Finishing
<1>2. CASE Hear("ok") /\ Report("copied")
  <2>1. Whole(agent.snap) \in seen
    BY <1>1, <1>2 DEF SyncInv, WireFits, FinishFits, Hear
  <2> QED BY <1>1, <1>2, <2>1, ReportKeeps
<1> QED BY <1>1, <1>2, UploadFailsKeeps DEF Finishing

(* The client looks at the target after an upload that failed.             *)
LEMMA RecheckKeeps ==
  ASSUME SyncInv, Recheck
  PROVE  SyncInv'
<1>1. agent.at = "recheck"
  BY DEF Recheck
<1>2. CASE Same /\ Report("copied")
  BY <1>1, <1>2, SameIsSeen, ReportKeeps
<1> QED BY <1>1, <1>2, RunFailsKeeps DEF Recheck

(* No step of a run breaks the invariant.                                  *)
LEMMA RunKeeps ==
  ASSUME SyncInv, Run
  PROVE  SyncInv'
BY InspectKeeps, TrashingKeeps, ValidateKeeps, VerifyKeeps, ListUploadsKeeps, CancellingKeeps,
   CreateSessionKeeps, CreatingKeeps, SendChunkKeeps, SendingKeeps, SendAgainKeeps, FinishUploadKeeps,
   FinishingKeeps, RecheckKeeps DEF Run

-----------------------------------------------------------------------------
(* What Core does meanwhile.                                               *)

(* Metadata are recorded by a creation, and keep what they say of the      *)
(* target and the version until they are removed.                          *)
LEMMA MetadataStay ==
  ASSUME FilesInv, CoreStep, NEW u \in Uploads, meta'[u] # None
  PROVE  \/ /\ meta[u] # None
            /\ meta'[u].path = meta[u].path /\ meta'[u].of = meta[u].of /\ meta'[u].sum = meta[u].sum
         \/ /\ op.do = "create" /\ op.id = u
            /\ meta'[u].path = op.path /\ meta'[u].of = op.of /\ meta'[u].sum = op.to
<1>1. meta \in [Uploads -> {None} \cup UploadSession]
  BY DEF FilesInv, UploadsFit
<1>2. CASE CreateMetadata
  <2>1. /\ op.do = "create"
        /\ meta' = [meta EXCEPT ![op.id] = [path |-> op.path, of |-> op.of, sum |-> op.to, got |-> <<>>]]
    BY <1>2 DEF CreateMetadata, At
  <2>2. CASE op.id = u
    <3>1. meta'[u] = [path |-> op.path, of |-> op.of, sum |-> op.to, got |-> <<>>]
      BY <1>1, <2>1, <2>2
    <3> QED BY <2>1, <2>2, <3>1
  <2>3. CASE op.id # u
    BY <1>1, <2>1, <2>3
  <2> QED BY <2>2, <2>3
<1>3. CASE RecordChunk
  <2>1. meta' = [meta EXCEPT ![op.id].got = Append(@, op.of)]
    BY <1>3 DEF RecordChunk
  <2>2. CASE op.id = u
    <3>1. meta[u] # None /\ meta[u] \in UploadSession
      BY <1>1, <1>3, <2>2 DEF RecordChunk, At, FilesInv, OpFits, ChunkFits
    <3>2. meta'[u] = [meta[u] EXCEPT !.got = Append(@, op.of)]
      BY <1>1, <2>1, <2>2
    <3> QED BY <3>1, <3>2 DEF UploadSession
  <2>3. CASE op.id # u
    BY <1>1, <2>1, <2>3
  <2> QED BY <2>2, <2>3
<1>4. CASE RemoveSession \/ PartRemains
  <2>1. meta' = [meta EXCEPT ![op.id] = None]
    BY <1>4 DEF RemoveSession, PartRemains
  <2> QED BY <1>1, <2>1
<1>5. CASE UNCHANGED meta
  BY <1>5
<1>6. \/ CreateMetadata \/ RecordChunk \/ RemoveSession \/ PartRemains \/ UNCHANGED meta
  BY DEF CoreStep, CreatePart, CreateUndone, WriteChunk, WriteChunkBotched, ChunkUndone, InstallPart,
         TargetExists, SessionRemains, RemovePart, WriteTemp, ReplaceFile, PutUndone, Rename, TrashEntry,
         RecordOrigin, TrashUndone, RestoreEntry, PurgeEntry, ForgetOrigin, FirstFails, UndoFails,
         CoreDies, disk
<1> QED BY <1>2, <1>3, <1>4, <1>5, <1>6

(* A mutation goes on once, or ends and answers whoever asked for it.      *)
MutationEnds == op' = Idle /\ \E why \in Answers : Tell(op.by, why)
MutationGoesOn ==
  /\ op.at = "first" /\ op'.at = "last" /\ op'.do = op.do /\ op'.by = op.by /\ op'.path = op.path
  /\ op'.to = op.to /\ op'.id = op.id /\ op'.of = op.of /\ UNCHANGED said

LEMMA MutationsEnd ==
  ASSUME FilesInv, CoreStep
  PROVE  MutationEnds \/ MutationGoesOn
<1>1. ASSUME op.at = "first", GoOn("last") PROVE MutationGoesOn
  BY <1>1, GoingOn DEF MutationGoesOn, GoOn
<1>2. ASSUME NEW why \in Answers, Finish(why) \/ Botch(why) PROVE MutationEnds
  BY <1>2 DEF MutationEnds, Finish, Botch, Answer
<1>3. ASSUME GiveUp PROVE MutationEnds
  BY <1>3 DEF MutationEnds, GiveUp, Answer, Answers
<1>4. CASE CreatePart \/ WriteChunk \/ InstallPart \/ RemovePart \/ WriteTemp \/ RestoreEntry \/ PurgeEntry
  BY <1>1, <1>4 DEF CreatePart, WriteChunk, InstallPart, RemovePart, WriteTemp, RestoreEntry, PurgeEntry, At
<1>5. CASE CreateUndone \/ ChunkUndone \/ PutUndone \/ TrashUndone \/ FirstFails
  BY <1>3, <1>5 DEF CreateUndone, ChunkUndone, PutUndone, TrashUndone, FirstFails
<1>6. {"ok", "failed", "conflict", "lost"} \subseteq Answers
  BY DEF Answers
<1>7. CASE \/ CreateMetadata \/ WriteChunkBotched \/ RecordChunk \/ TargetExists \/ RemoveSession
           \/ PartRemains \/ ReplaceFile \/ RecordOrigin \/ ForgetOrigin \/ UndoFails \/ CoreDies
  BY <1>2, <1>6, <1>7 DEF CreateMetadata, WriteChunkBotched, RecordChunk, TargetExists, RemoveSession,
     PartRemains, ReplaceFile, RecordOrigin, ForgetOrigin, UndoFails, CoreDies
<1>8. CASE SessionRemains
  <2>1. PICK why \in Answers : Botch(why)
    BY <1>6, <1>8 DEF SessionRemains
  <2> QED BY <1>2, <2>1
<1>9. CASE Rename
  BY <1>2, <1>6, <1>9 DEF Rename
<1>10. CASE TrashEntry
  BY <1>1, <1>2, <1>6, <1>10 DEF TrashEntry, At
<1> QED BY <1>4, <1>5, <1>7, <1>8, <1>9, <1>10 DEF CoreStep

(* A completion says that it was done only when the file is there.         *)
LEMMA CompletionsAreTrue ==
  ASSUME FilesInv, CoreStep, op.do = "complete", op.by = "agent", "agent" \in Callers
  PROVE  \/ /\ MutationGoesOn /\ op.path \in Paths /\ tree'[op.path] = part[op.id]
         \/ op' = Idle /\ said'["agent"] # "ok"
         \/ op' = Idle /\ op.at = "last"
<1>1. tree \in [Paths -> {None} \cup Content] /\ op.path \in Paths
  BY DEF FilesInv, FilesFit, OpFits, CompleteFits
<1>2. CASE InstallPart
  <2>1. op.at = "first" /\ GoOn("last") /\ tree' = [tree EXCEPT ![op.path] = part[op.id]]
    BY <1>2 DEF InstallPart, At
  <2>2. MutationGoesOn
    BY <2>1, GoingOn DEF MutationGoesOn, GoOn
  <2> QED BY <1>1, <2>1, <2>2
<1>3. ASSUME NEW why, why # "ok", Tell(op.by, why) PROVE said'["agent"] # "ok"
  BY <1>3 DEF Tell
<1>4. CASE TargetExists \/ FirstFails \/ CoreDies
  BY <1>3, <1>4 DEF TargetExists, FirstFails, CoreDies, Finish, GiveUp, Botch, Answer
<1>5. CASE RemoveSession \/ SessionRemains
  BY <1>5 DEF RemoveSession, SessionRemains, Finish, Botch, Answer
<1> QED BY <1>2, <1>4, <1>5 DEF CoreStep, CreatePart, CreateMetadata, CreateUndone, WriteChunk, WriteChunkBotched,
        RecordChunk, ChunkUndone, RemovePart, PartRemains, WriteTemp, ReplaceFile, PutUndone, Rename, TrashEntry,
        RecordOrigin, TrashUndone, RestoreEntry, PurgeEntry, ForgetOrigin, UndoFails, At

(* An upload that belongs to the client's version goes on doing so.        *)
LEMMA BelongsStays ==
  ASSUME FilesInv, CoreStep, UNCHANGED agent, NEW u, Belongs(u)
  PROVE  Belongs(u)'
<1>1. u \in Uploads
  BY DEF Belongs
<1>2. meta'[u] # None => meta'[u].of = agent.snap
  BY <1>1, MetadataStay DEF Belongs
<1>3. op'.do = "create" /\ op'.id = u => op'.of = agent.snap
  BY MutationsEnd DEF MutationEnds, MutationGoesOn, Belongs, Idle, Work
<1> QED BY <1>1, <1>2, <1>3 DEF Belongs

(* A completion on its way to being true stays so.                         *)
LEMMA FinishStays ==
  ASSUME FilesInv, CoreFits, FinishFits, CoreStep, UNCHANGED agent, seen' = seen \cup {tree'[Target]}
  PROVE  FinishFits'
<1>1. Whole(agent.snap)' = Whole(agent.snap) /\ seen \subseteq seen' /\ "agent" \in Callers
  BY SyncAssumption DEF Whole
<1>2. op.do # "idle" /\ op.at \in {"first", "last"}
  BY DEF CoreStep, CreatePart, CreateMetadata, CreateUndone, WriteChunk, WriteChunkBotched,
     RecordChunk, ChunkUndone, InstallPart, TargetExists, RemoveSession, SessionRemains, RemovePart,
     PartRemains, WriteTemp, ReplaceFile, PutUndone, Rename, TrashEntry,
     RecordOrigin, TrashUndone, RestoreEntry, PurgeEntry, ForgetOrigin, FirstFails, UndoFails, CoreDies, At,
     FilesInv, OpFits, RestFits
<1>3. CASE op.by = "agent"
  <2>1. /\ op.do = "complete" /\ (op.at = "first" => part[op.id] = Whole(agent.snap))
        /\ (op.at = "last" => Whole(agent.snap) \in seen) /\ op.path = Target
    BY <1>2, <1>3 DEF FinishFits, CoreFits
  <2>2. CASE MutationGoesOn /\ tree'[op.path] = part[op.id]
    <3>1. Whole(agent.snap) \in seen'
      BY <2>1, <2>2 DEF MutationGoesOn
    <3> QED BY <1>1, <2>1, <2>2, <3>1 DEF FinishFits, MutationGoesOn
  <2>3. CASE op' = Idle /\ (said'["agent"] # "ok" \/ op.at = "last")
    <3>1. op'.do = "idle"
      BY <2>3 DEF Idle, Work
    <3> QED BY <1>1, <2>1, <2>3, <3>1 DEF FinishFits
  <2> QED BY <1>1, <1>3, <2>1, <2>2, <2>3, CompletionsAreTrue
<1>4. CASE op.by # "agent"
  <2>1. said'["agent"] = said["agent"]
    BY <1>1, <1>4, MutationsEnd DEF MutationEnds, MutationGoesOn, Tell
  <2>2. op'.do = "idle" \/ op'.by # "agent"
    BY <1>4, MutationsEnd DEF MutationEnds, MutationGoesOn, Idle, Work
  <2> QED BY <1>1, <2>1, <2>2 DEF FinishFits
<1> QED BY <1>3, <1>4

(* The client is where it was, and has what it had.                        *)
LEMMA ClientStays ==
  ASSUME SyncInv, UNCHANGED client
  PROVE  /\ UNCHANGED <<way, source, agent, wire, late, row, told>> /\ MayTrash' = MayTrash
         /\ RowFits' /\ RequestFits(wire)' /\ RequestFits(late)'
<1>1. UNCHANGED <<way, source, agent, wire, late, row, told>>
  BY DEF client
<1>2. MayTrash' = MayTrash
  BY <1>1 DEF MayTrash
<1>3. RowFits'
  BY <1>1 DEF SyncInv, RowFits
<1>4. RequestFits(wire)' /\ RequestFits(late)'
  BY <1>1, <1>2 DEF SyncInv, WireFits, RequestFits
<1> QED BY <1>1, <1>2, <1>3, <1>4

(* What has been seen at the target only grows.                            *)
LEMMA MoreSeen ==
  ASSUME SyncInv, UNCHANGED <<agent, told, row>>, seen' = seen \cup {tree'[Target]}
  PROVE  SeenFits'
BY DEF SyncInv, SeenFits, CopiedIsThere

(* The client does not move.                                               *)
LEMMA AgentStays ==
  ASSUME SyncInv, UNCHANGED <<agent, way>>, \A u : Belongs(u) => Belongs(u)'
  PROVE  AgentFits'
BY DEF SyncInv, AgentFits

(* Nothing comes over the wire.                                            *)
LEMMA WireStays ==
  ASSUME SyncInv, UNCHANGED <<agent, wire>>, \A u : Belongs(u) => Belongs(u)', FinishFits => FinishFits',
         RequestFits(wire)', RequestFits(late)'
  PROVE  WireFits'
BY DEF SyncInv, WireFits

(* Core works on what it began.                                            *)
LEMMA CoreWorksKeeps ==
  ASSUME SyncInv, CoreWorks
  PROVE  SyncInv'
<1>1. /\ CoreStep /\ UNCHANGED client /\ seen' = seen \cup {tree'[Target]} /\ FilesInv
  BY DEF CoreWorks, SyncInv
<1>2. /\ UNCHANGED <<way, source, agent, wire, late, row, told>> /\ MayTrash' = MayTrash
      /\ RowFits' /\ RequestFits(wire)' /\ RequestFits(late)'
  BY <1>1, ClientStays
<1>3. FilesInv'
  BY <1>1, CoreStepKeeps
<1>4. \A u : Belongs(u) => Belongs(u)'
  BY <1>1, <1>2, BelongsStays
<1>5. FinishFits => FinishFits'
  BY <1>1, <1>2, FinishStays DEF SyncInv
<1>6. AgentFits' /\ WireFits'
  BY <1>2, <1>4, <1>5, AgentStays, WireStays
<1>7. CoreFits'
  <2>1. \A u \in Uploads : meta'[u] # None => meta'[u].path = Target /\ meta'[u].sum = TRUE
    BY <1>1, MetadataStay DEF SyncInv, CoreFits
  <2>2. /\ op'.do \in Requests \cup {"idle"}
        /\ op'.do \in {"create", "complete", "trash"} => op'.path = Target
        /\ op'.do = "create" => op'.to = TRUE
        /\ op'.do = "trash" => MayTrash
    BY <1>1, MutationsEnd DEF SyncInv, CoreFits, MutationEnds, MutationGoesOn, Idle, Work
  <2> QED BY <1>2, <2>1, <2>2 DEF CoreFits
<1>8. SeenFits'
  BY <1>1, <1>2, MoreSeen
<1> QED BY <1>2, <1>3, <1>6, <1>7, <1>8 DEF SyncInv

(* A client of SMB changes the target.                                     *)
LEMMA OthersKeep ==
  ASSUME SyncInv, Others
  PROVE  SyncInv'
<1>1. /\ Outside /\ UNCHANGED client /\ seen' = seen \cup {tree'[Target]} /\ FilesInv
      /\ UNCHANGED <<part, meta, op, said>>
  BY DEF Others, SyncInv, Outside, Intrude
<1>2. /\ UNCHANGED <<way, source, agent, wire, late, row, told>> /\ MayTrash' = MayTrash
      /\ RowFits' /\ RequestFits(wire)' /\ RequestFits(late)'
  BY <1>1, ClientStays
<1>3. FilesInv'
  BY <1>1, FilesStep DEF Next
<1>4. \A u : Belongs(u) => Belongs(u)'
  BY <1>1, <1>2 DEF Belongs
<1>5. FinishFits => FinishFits'
  BY <1>1, <1>2 DEF FinishFits
<1>6. AgentFits' /\ WireFits'
  BY <1>2, <1>4, <1>5, AgentStays, WireStays
<1>7. CoreFits'
  BY <1>1, <1>2 DEF SyncInv, CoreFits
<1>8. SeenFits'
  BY <1>1, <1>2, MoreSeen
<1> QED BY <1>2, <1>3, <1>6, <1>7, <1>8 DEF SyncInv

-----------------------------------------------------------------------------
(* Core takes a request up or refuses it.                                  *)
Refused(c) == op' = op /\ said'[c] # "ok"
Taken(c, r) ==
  /\ op'.do = r.do /\ op'.by = c /\ op'.at = "first" /\ said'[c] = "none"
  /\ r.do \in {"create", "complete", "trash"} => op'.path = Target
  /\ r.do = "create" => op'.id = SomeUpload /\ op'.of = r.of /\ op'.to = TRUE
  /\ r.do = "complete" => /\ op'.id = r.id /\ meta[r.id] # None
                          /\ part[r.id] = Whole(meta[r.id].of)

(* A new upload has an id nobody knows yet.                                *)
LEMMA UploadsAreNew ==
  ASSUME FreshUploads # {}
  PROVE  /\ SomeUpload \in Uploads /\ meta[SomeUpload] = None
         /\ SomeUpload \notin {agent.id, wire.id, late.id}
<1>1. SomeUpload \in FreshUploads
  BY DEF SomeUpload
<1> QED BY <1>1 DEF FreshUploads, Unused

(* A refusal is told and changes nothing.                                  *)
LEMMA RefusalsAreKnown ==
  ASSUME NEW c \in Callers, NEW why, why # "ok", Refuse(c, why)
  PROVE  Refused(c) /\ UNCHANGED <<tree, part, meta, item, origin>> /\ \A x \in Callers : x # c => said'[x] = said[x]
BY DEF Refuse, Refused, Tell, disk

(* What has begun has no answer yet.                                       *)
LEMMA BegunIsTold ==
  ASSUME NEW c \in Callers, NEW work, Begin(c, work)
  PROVE  said'[c] = "none" /\ \A x \in Callers : x # c => said'[x] = said[x]
BY DEF Begin, Tell

(* Core serves what fits by refusing it or taking it up.                   *)
LEMMA RequestsAreServed ==
  ASSUME SyncInv, NEW c \in Callers, NEW r, RequestFits(r), Serves(c, r)
  PROVE  /\ FilesInv' /\ op = Idle /\ UNCHANGED <<tree, part, meta>> /\ r.do \in Requests
         /\ \A x \in Callers : x # c => said'[x] = said[x]
         /\ Refused(c) \/ Taken(c, r)
<1>1. FilesInv /\ SyncAssumption
  BY SyncAssumption DEF SyncInv
<1>2. CASE r.do = "trash" /\ FreshTrash # {} /\ Trash(c, Target, SomeTrash)
  <2>1. SomeTrash \in TrashIds
    BY <1>2 DEF SomeTrash, FreshTrash
  <2>2. Request(c)
    BY <1>1, <1>2, <2>1 DEF Request, fileFolderEntry
  <2>3. FilesInv' /\ op = Idle
    BY <1>1, <1>2, <2>2, RequestsKeep DEF Trash, Admit
  <2>4. CASE Refuse(c, "missing")
    BY <1>2, <2>3, <2>4, RefusalsAreKnown DEF Requests
  <2>5. CASE Begin(c, Work("trash", Target, None, SomeTrash, None))
    BY <1>2, <2>3, <2>5, WorkBegun, BegunIsTold DEF Requests, Taken
  <2> QED BY <1>2, <2>4, <2>5 DEF Trash
<1>3. CASE r.do = "create" /\ FreshUploads # {} /\ CreateUpload(c, Target, r.of, SomeUpload, TRUE)
  <2>1. SomeUpload \in Uploads /\ r.of \in Versions
    BY <1>3, UploadsAreNew DEF RequestFits, Mine
  <2>2. Request(c)
    BY <1>1, <1>3, <2>1 DEF Request, fileFolderUploads
  <2>3. FilesInv' /\ op = Idle
    BY <1>1, <1>3, <2>2, RequestsKeep DEF CreateUpload, Admit
  <2>4. CASE Refuse(c, "full") \/ Refuse(c, "conflict")
    BY <1>3, <2>3, <2>4, RefusalsAreKnown DEF Requests
  <2>5. CASE Begin(c, Work("create", Target, TRUE, SomeUpload, r.of))
    <3>1. op' = [do |-> "create", at |-> "first", by |-> c, path |-> Target, to |-> TRUE, id |-> SomeUpload,
                 of |-> r.of]
      BY <2>5, WorkBegun, Zenon
    <3>2. op'.to = TRUE
      BY <3>1, Zenon
    <3>3. /\ op'.do = "create" /\ op'.by = c /\ op'.at = "first" /\ op'.path = Target /\ op'.id = SomeUpload
          /\ op'.of = r.of
      BY <3>1
    <3>4. UNCHANGED <<tree, part, meta>>
      BY <2>5, WorkBegun
    <3>5. Taken(c, r)
      BY <1>3, <2>5, <3>2, <3>3, BegunIsTold DEF Taken
    <3> QED BY <1>3, <2>3, <2>5, <3>4, <3>5, BegunIsTold DEF Requests
  <2> QED BY <1>3, <2>4, <2>5 DEF CreateUpload
<1>4. CASE r.do = "chunk" /\ AppendUploadChunk(c, r.id, r.at, r.of)
  <2>1. r.id \in Uploads /\ r.of \in Blocks /\ r.at = r.of[2] - 1
    BY <1>4 DEF RequestFits
  <2>2. meta[r.id] # None => meta[r.id].sum
    BY <2>1 DEF SyncInv, CoreFits
  <2>3. Request(c)
    <3>1. AppendUploadChunk(c, r.id, r.of[2] - 1, r.of)
      BY <1>4, <2>1
    <3>2. meta[r.id] # None => meta[r.id].sum \/ meta[r.id].of = r.of[1]
      BY <2>2
    <3>3. fileFolderUploadChunk(c)
      BY <2>1, <3>1, <3>2, Zenon DEF fileFolderUploadChunk
    <3> QED BY <3>3 DEF Request
  <2>4. FilesInv' /\ op = Idle
    BY <1>1, <1>4, <2>3, RequestsKeep DEF AppendUploadChunk, Admit
  <2>5. CASE Refuse(c, "missing") \/ Refuse(c, "full") \/ Refuse(c, "conflict") \/ Refuse(c, "failed")
    BY <1>4, <2>4, <2>5, RefusalsAreKnown DEF Requests
  <2>6. CASE Begin(c, Work("chunk", meta[r.id].path, None, r.id, r.of))
    BY <1>4, <2>4, <2>6, WorkBegun, BegunIsTold DEF Requests, Taken
  <2> QED BY <1>4, <2>5, <2>6 DEF AppendUploadChunk
<1>5. CASE r.do = "complete" /\ CompleteUpload(c, r.id)
  <2>1. r.id \in Uploads
    BY <1>5 DEF RequestFits
  <2>2. Request(c)
    BY <1>5, <2>1 DEF Request, fileFolderUploadComplete
  <2>3. FilesInv' /\ op = Idle
    BY <1>1, <1>5, <2>2, RequestsKeep DEF CompleteUpload, Admit
  <2>4. CASE Refuse(c, "missing") \/ Refuse(c, "failed")
    BY <1>5, <2>3, <2>4, RefusalsAreKnown DEF Requests
  <2>5. CASE Listed(r.id) /\ Checked(r.id) /\ Begin(c, Work("complete", meta[r.id].path, None, r.id, None))
    <3>1. meta[r.id] # None /\ meta[r.id].path = Target /\ part[r.id] = Whole(meta[r.id].of)
      BY <2>1, <2>5 DEF Listed, Checked, SyncInv, CoreFits
    <3> QED BY <1>5, <2>3, <2>5, <3>1, WorkBegun, BegunIsTold DEF Requests, Taken
  <2> QED BY <1>5, <2>4, <2>5 DEF CompleteUpload
<1>6. CASE r.do = "cancel" /\ CancelUpload(c, r.id)
  <2>1. r.id \in Uploads
    BY <1>6 DEF RequestFits
  <2>2. Request(c)
    BY <1>6, <2>1 DEF Request, fileFolderUpload
  <2>3. FilesInv' /\ op = Idle
    BY <1>1, <1>6, <2>2, RequestsKeep DEF CancelUpload, Admit
  <2>4. CASE Refuse(c, "missing")
    BY <1>6, <2>3, <2>4, RefusalsAreKnown DEF Requests
  <2>5. CASE Begin(c, Work("cancel", meta[r.id].path, None, r.id, None))
    BY <1>6, <2>3, <2>5, WorkBegun, BegunIsTold DEF Requests, Taken
  <2> QED BY <1>6, <2>4, <2>5 DEF CancelUpload
<1> QED BY <1>2, <1>3, <1>4, <1>5, <1>6 DEF Serves

(* What Core took up is known of the upload, the rest as before.           *)
LEMMA ServingKeeps ==
  ASSUME SyncInv, NEW c \in {"agent", "late"}, NEW r \in {wire, late}, Serves(c, r),
         UNCHANGED <<way, source, agent, row, told, seen>>
  PROVE  /\ FilesInv' /\ CoreFits' /\ RowFits' /\ AgentFits' /\ SeenFits' /\ MayTrash' = MayTrash
         /\ \A u : Belongs(u) /\ u \in {agent.id, wire.id, late.id} => Belongs(u)'
<1>1. c \in Callers /\ RequestFits(r)
  BY SyncAssumption DEF SyncInv, WireFits
<1>2. /\ FilesInv' /\ op = Idle /\ UNCHANGED <<tree, part, meta>> /\ r.do \in Requests
      /\ Refused(c) \/ Taken(c, r)
  BY <1>1, RequestsAreServed
<1>3. MayTrash' = MayTrash
  BY DEF MayTrash
<1>4. op'.do = "create" => SomeUpload \notin {agent.id, wire.id, late.id} /\ op'.id = SomeUpload
  <2>1. op'.do = "create" => r.do = "create" /\ op'.id = SomeUpload
    BY <1>2 DEF Refused, Taken, Idle, Work
  <2>2. r.do = "create" => FreshUploads # {}
    BY DEF Serves
  <2> QED BY <2>1, <2>2, UploadsAreNew
<1>5. \A u : Belongs(u) /\ u \in {agent.id, wire.id, late.id} => Belongs(u)'
  BY <1>2, <1>4 DEF Belongs
<1>6. AgentFits'
  BY <1>5 DEF SyncInv, AgentFits
<1>7. RowFits'
  BY DEF SyncInv, RowFits
<1>8. SeenFits'
  BY <1>2 DEF SyncInv, SeenFits, CopiedIsThere
<1>9. CoreFits'
  <2>1. /\ op'.do \in Requests \cup {"idle"}
        /\ op'.do \in {"create", "complete", "trash"} => op'.path = Target
        /\ op'.do = "create" => op'.to = TRUE
        /\ op'.do = "trash" => MayTrash
    BY <1>1, <1>2 DEF Refused, Taken, Idle, Work, RequestFits
  <2> QED BY <1>2, <1>3, <2>1 DEF SyncInv, CoreFits
<1> QED BY <1>2, <1>3, <1>5, <1>6, <1>7, <1>8, <1>9

(* Core serves the request under way.                                      *)
LEMMA ServeWireKeeps ==
  ASSUME SyncInv, ServeWire
  PROVE  SyncInv'
<1>1. /\ Serves("agent", wire) /\ wire' = [Silent EXCEPT !.do = "served", !.id = Named(wire)]
      /\ UNCHANGED <<way, source, agent, late, row, told, seen>>
      /\ "agent" \in Callers /\ RequestFits(wire) /\ RequestFits(late)
  BY SyncAssumption DEF ServeWire, SyncInv, WireFits
<1>2. /\ FilesInv' /\ CoreFits' /\ RowFits' /\ AgentFits' /\ SeenFits' /\ MayTrash' = MayTrash
  BY <1>1, ServingKeeps
<1>3. /\ op = Idle /\ UNCHANGED <<tree, part, meta>> /\ wire.do \in Requests
      /\ Refused("agent") \/ Taken("agent", wire)
  BY <1>1, RequestsAreServed
<1>4. wire' = [do |-> "served", id |-> Named(wire), of |-> None, at |-> 0]
  BY <1>1 DEF Silent
<1>5. wire.do = "create" => SomeUpload \in Uploads /\ meta[SomeUpload] = None
  BY <1>1, UploadsAreNew DEF Serves
<1>6. Named(wire) \in Uploads \cup {None}
  BY <1>1, <1>5 DEF Named, RequestFits
<1>7. RequestFits(wire)' /\ RequestFits(late)'
  <2>1. RequestFits(wire)'
    BY <1>4, <1>6 DEF RequestFits
  <2>2. RequestFits(late)'
    BY <1>1, <1>2 DEF RequestFits
  <2> QED BY <2>1, <2>2
<1>8. ASSUME agent.at = "creating" PROVE Belongs(wire.id)'
  <2>1. wire.do = "create" /\ wire.of = agent.snap
    BY <1>3, <1>8 DEF SyncInv, WireFits, Requests
  <2>2. wire'.id = SomeUpload /\ meta'[SomeUpload] = None /\ SomeUpload \in Uploads
    BY <1>3, <1>4, <1>5, <2>1 DEF Named
  <2>3. op'.do = "create" => op'.of = agent.snap
    BY <1>3, <2>1 DEF Refused, Taken, Idle, Work
  <2> QED BY <1>1, <2>2, <2>3 DEF Belongs
<1>9. ASSUME agent.at = "finishing" PROVE FinishFits'
  <2>1. wire.do = "complete" /\ wire.id = agent.id /\ Belongs(agent.id)
    BY <1>3, <1>9 DEF SyncInv, WireFits, Requests, AgentFits, Holding
  <2>2. said'["agent"] # "ok"
    BY <1>3 DEF Refused, Taken
  <2>3. op'.do # "idle" =>
          /\ op'.do = "complete" /\ op'.at = "first"
          /\ part'[op'.id] = Whole(agent.snap)
    BY <1>3, <2>1 DEF Refused, Taken, Idle, Work, Belongs
  <2>4. Whole(agent.snap)' = Whole(agent.snap)
    BY <1>1 DEF Whole
  <2> QED BY <2>2, <2>3, <2>4 DEF FinishFits
<1>10. WireFits'
  BY <1>1, <1>4, <1>7, <1>8, <1>9 DEF WireFits
<1> QED BY <1>2, <1>10 DEF SyncInv

(* Core serves a request that the client has given up.                     *)
LEMMA ServeLateKeeps ==
  ASSUME SyncInv, ServeLate
  PROVE  SyncInv'
<1>1. /\ Serves("late", late) /\ late' = Silent
      /\ UNCHANGED <<way, source, agent, wire, row, told, seen>>
      /\ {"agent", "late"} \subseteq Callers /\ RequestFits(wire) /\ RequestFits(late)
  BY SyncAssumption DEF ServeLate, SyncInv, WireFits
<1>2. /\ FilesInv' /\ CoreFits' /\ RowFits' /\ AgentFits' /\ SeenFits' /\ MayTrash' = MayTrash
      /\ Belongs(wire.id) => Belongs(wire.id)'
  <2>1. \A u : Belongs(u) /\ u \in {agent.id, wire.id, late.id} => Belongs(u)'
    BY <1>1, ServingKeeps
  <2>2. Belongs(wire.id) => Belongs(wire.id)'
    BY <1>1, <2>1 DEF Belongs
  <2> QED BY <1>1, <2>2, ServingKeeps
<1>3. /\ op = Idle /\ UNCHANGED <<tree, part, meta>>
      /\ Refused("late") \/ Taken("late", late)
      /\ said'["agent"] = said["agent"]
  BY <1>1, RequestsAreServed
<1>4. FinishFits => FinishFits'
  <2>1. op'.do = "idle" \/ op'.by # "agent"
    BY <1>3 DEF Refused, Taken, Idle, Work
  <2> QED BY <1>1, <1>3, <2>1 DEF FinishFits
<1>5. RequestFits(wire)' /\ RequestFits(late)'
  <2>1. RequestFits(wire)'
    BY <1>1, <1>2 DEF RequestFits
  <2>2. RequestFits(late)'
    BY <1>1 DEF RequestFits, Silent, Requests
  <2> QED BY <2>1, <2>2
<1>6. WireFits'
  BY <1>1, <1>2, <1>4, <1>5 DEF SyncInv, WireFits
<1> QED BY <1>2, <1>6 DEF SyncInv

-----------------------------------------------------------------------------
(* The network, the user and the client's process.                         *)

(* A request given up was one that fits.                                   *)
LEMMA AbandonedFits ==
  ASSUME SyncInv, UNCHANGED way, late' \in Abandoned
  PROVE  RequestFits(late)'
<1>2. late' \in {wire, Silent, late} /\ MayTrash' = MayTrash
  BY DEF Abandoned, MayTrash
<1>3. CASE late' = wire
  BY <1>2, <1>3 DEF SyncInv, WireFits, RequestFits
<1>4. CASE late' = late
  BY <1>2, <1>4 DEF SyncInv, WireFits, RequestFits
<1>5. CASE late' = Silent
  BY <1>5 DEF RequestFits, Silent, Requests
<1> QED BY <1>2, <1>3, <1>4, <1>5

(* An answer is lost.                                                      *)
LEMMA TimeOutKeeps ==
  ASSUME SyncInv, TimeOut
  PROVE  SyncInv'
<1>1. /\ late' \in Abandoned /\ wire' = [do |-> "cut", id |-> None, of |-> None, at |-> 0]
      /\ UNCHANGED <<fileVars, way, source, agent, row, told, seen>>
  BY DEF TimeOut, Silent
<1>2. FilesInv' /\ CoreFits' /\ MayTrash' = MayTrash /\ UNCHANGED <<tree, part, meta, op, said>>
  BY <1>1, CoreStays
<1>3. RequestFits(late)'
  BY <1>1, AbandonedFits
<1>4. RequestFits(wire)'
  BY <1>1 DEF RequestFits, Requests
<1>5. AgentFits'
  BY <1>1, <1>2 DEF SyncInv, AgentFits, Belongs
<1>6. RowFits' /\ SeenFits'
  BY <1>1, <1>2 DEF SyncInv, RowFits, SeenFits, CopiedIsThere
<1>7. WireFits'
  BY <1>1, <1>3, <1>4 DEF WireFits
<1> QED BY <1>2, <1>5, <1>6, <1>7 DEF SyncInv

(* A reading call fails.                                                   *)
LEMMA ReadFailsKeeps ==
  ASSUME SyncInv, ReadFails
  PROVE  SyncInv'
<1>1. wire' = Silent /\ UNCHANGED <<fileVars, way, source, late, seen>> /\ RequestFits(late)'
  BY LateStays DEF ReadFails
<1>2. CASE /\ agent.at \in {"inspect", "verify", "recheck"}
           /\ agent' = Resting /\ told' = [what |-> "failed", of |-> agent.snap]
           /\ row' = IF way.driver = "queue" THEN [row EXCEPT !.status = "failed"] ELSE row
  <2>1. row \in [status : Statuses, snap : Mine] /\ (row.status # "none" <=> way.driver = "queue")
        /\ (row.status = "running" => way.driver = "queue")
    BY DEF SyncInv, RowFits
  <2>2. CASE way.driver = "queue"
    <3>1. row' = [status |-> "failed", snap |-> row.snap]
      BY <1>2, <2>1, <2>2
    <3>2. CopiedIsThere'
      BY <1>2, <3>1 DEF CopiedIsThere
    <3>3. row' \in [status : Statuses, snap : {row.snap}]
      BY <3>1 DEF Statuses
    <3> QED BY <1>1, <1>2, <2>1, <2>2, <3>1, <3>2, <3>3, RestingKeepsSync
  <2>3. CASE way.driver # "queue"
    <3>1. row' = row /\ row.status = "none" /\ row \in [status : Statuses, snap : {row.snap}]
      BY <1>2, <2>1, <2>3
    <3>2. CopiedIsThere'
      BY <1>2, <3>1 DEF CopiedIsThere
    <3> QED BY <1>1, <1>2, <3>1, <3>2, RestingKeepsSync
  <2> QED BY <2>2, <2>3
<1>3. CASE agent.at = "list" /\ agent' = [agent EXCEPT !.at = "recheck"] /\ UNCHANGED <<row, told>>
  <2>1. AgentIs("recheck", agent.id, agent.sent, agent.block, agent.tries, agent.lost) /\ Still
    BY <1>1, <1>3, AgentBecomes DEF SyncInv, Still
  <2>2. /\ agent.id \in Uploads \cup {None} /\ agent.sent \in Nat /\ agent.block \in Blocks \cup {None}
        /\ agent.tries \in 0..Tries /\ agent.lost \in BOOLEAN
        /\ (agent.id # None => agent.sent <= Size[agent.snap])
    BY DEF SyncInv, AgentFits
  <2>3. "recheck" \in Steps \ {"rest", "inspect"} /\ "recheck" \notin Holding
    BY DEF Steps, Holding
  <2>5. agent.at # "rest" /\ wire' = Silent /\ UNCHANGED <<row, told>> /\ SyncInv
    BY <1>1, <1>3
  <2>4. Onward("recheck", agent.id, agent.sent, agent.block, agent.tries, agent.lost) /\ Asks("recheck", agent.id, Silent)
    BY <2>1, <2>2, <2>3, <2>5, SilentFits DEF Onward, Asks
  <2> QED BY <2>1, <2>5, <2>4, GoingOnKeepsSync
<1> QED BY <1>2, <1>3 DEF ReadFails

(* The client dies, and OpenQueue makes its transfer pending again.        *)
LEMMA ClientDiesKeeps ==
  ASSUME SyncInv, ClientDies
  PROVE  SyncInv'
<1>1. /\ agent' = Resting /\ wire' = Silent /\ late' \in Abandoned
      /\ row' = IF row.status = "running" THEN [row EXCEPT !.status = "pending"] ELSE row
      /\ UNCHANGED <<fileVars, way, source, told, seen>> /\ row \in [status : Statuses, snap : Mine]
  BY DEF ClientDies, SyncInv, RowFits
<1>2. RequestFits(late)'
  BY <1>1, AbandonedFits
<1>3. /\ row' \in [status : Statuses, snap : {row.snap}] /\ row'.snap = row.snap
      /\ row'.status = IF row.status = "running" THEN "pending" ELSE row.status
  <2>1. CASE row.status = "running"
    <3>1. row' = [status |-> "pending", snap |-> row.snap]
      BY <1>1, <2>1
    <3> QED BY <2>1, <3>1 DEF Statuses
  <2>2. CASE row.status # "running"
    BY <1>1, <2>2
  <2> QED BY <2>1, <2>2
<1>4. CopiedIsThere'
  BY <1>1, <1>3 DEF SyncInv, SeenFits, CopiedIsThere
<1> QED BY <1>1, <1>2, <1>3, <1>4, RestingKeepsSync

(* The user edits the file.                                                *)
LEMMA EditSourceKeeps ==
  ASSUME SyncInv, NEW v \in Mine, EditSource(v)
  PROVE  SyncInv'
<1>1. UNCHANGED <<fileVars, way, agent, wire, late, row, told, seen>> /\ source' = v
  BY DEF EditSource
<1>2. FilesInv' /\ CoreFits' /\ MayTrash' = MayTrash /\ UNCHANGED <<tree, part, meta, op, said>>
  BY <1>1, CoreStays
<1>3. \A u : Belongs(u) => Belongs(u)'
  BY <1>1, <1>2 DEF Belongs
<1>4. FinishFits => FinishFits'
  BY <1>1, <1>2 DEF FinishFits
<1>5. RequestFits(wire)' /\ RequestFits(late)'
  BY <1>1, <1>2 DEF SyncInv, WireFits, RequestFits
<1>6. AgentFits' /\ WireFits'
  BY <1>1, <1>3, <1>4, <1>5, AgentStays, WireStays
<1>7. RowFits' /\ SeenFits'
  BY <1>1, <1>2 DEF SyncInv, RowFits, SeenFits, CopiedIsThere
<1> QED BY <1>2, <1>6, <1>7 DEF SyncInv

(* A run begins: what it will report has yet to be seen.                   *)
LEMMA StartKeeps ==
  ASSUME SyncInv, UNCHANGED <<fileVars, way, source, wire, late>>, NEW at \in {"inspect", "validate"},
         NEW snap \in Mine, Start(at, snap), Begun,
         row' \in [status : Statuses, snap : {row.snap}],
         row'.status # "none" <=> row.status # "none", row'.status # "completed",
         at = "inspect" => way.driver = "sync",
         way.driver = "queue" => row'.status = "running" /\ snap = row.snap
  PROVE  SyncInv'
<1>1. FilesInv' /\ CoreFits' /\ MayTrash' = MayTrash /\ UNCHANGED <<tree, part, meta, op, said>>
  BY CoreStays
<1>2. agent' = [at |-> at, snap |-> snap, id |-> None, sent |-> 0, block |-> None, tries |-> 0,
                lost |-> Resting.lost]
  <2> DEFINE half == [Resting EXCEPT !.at = at]
             no   == Resting.lost
  <2>1. Resting = [at |-> "rest", snap |-> None, id |-> None, sent |-> 0, block |-> None, tries |-> 0,
                   lost |-> no]
    BY DEF Resting
  <2> HIDE DEF no
  <2>2. half = [at |-> at, snap |-> None, id |-> None, sent |-> 0, block |-> None, tries |-> 0,
                lost |-> no]
    BY <2>1
  <2> HIDE DEF half
  <2>3. [half EXCEPT !.snap = snap] = [at |-> at, snap |-> snap, id |-> None, sent |-> 0, block |-> None,
                                       tries |-> 0, lost |-> no]
    BY <2>2
  <2> QED BY <2>3, Zenon DEF half, no, Start
<1>3. AgentFits'
  <2>1. agent' \in [at : Steps, snap : Mine \cup {None}, id : Uploads \cup {None}, sent : Nat,
                    block : Blocks \cup {None}, tries : 0..Tries, lost : BOOLEAN]
    <3>1. Resting.lost \in BOOLEAN
      BY DEF Resting
    <3> QED BY <1>2, <3>1, SyncAssumption DEF Steps
  <2> QED BY <1>2, <2>1 DEF AgentFits, Holding
<1>4. RowFits'
  BY <1>2 DEF SyncInv, RowFits
<1>5. WireFits'
  <2>1. RequestFits(wire)' /\ RequestFits(late)'
    BY <1>1 DEF SyncInv, WireFits, RequestFits
  <2> QED BY <1>2, <2>1 DEF WireFits
<1>6. SeenFits'
  <2>1. told'.what = "none" /\ tree[Target] \in seen'
    BY DEF Begun, Unsaid
  <2> QED BY <1>1, <2>1 DEF SeenFits, CopiedIsThere
<1> QED BY <1>1, <1>3, <1>4, <1>5, <1>6 DEF SyncInv

(* A synchronisation begins with the file as it is.                        *)
LEMMA StartSyncKeeps ==
  ASSUME SyncInv, StartSync
  PROVE  SyncInv'
<1>1. /\ way.driver = "sync" /\ Start("inspect", source) /\ Begun /\ source \in Mine
      /\ UNCHANGED <<fileVars, way, source, wire, late, row>>
      /\ row \in [status : Statuses, snap : {row.snap}] /\ row.status = "none"
  BY DEF StartSync, SyncInv, RowFits
<1> QED BY <1>1, StartKeeps

(* A queue begins with the snapshot in the row.                            *)
LEMMA StartTransferKeeps ==
  ASSUME SyncInv, StartTransfer
  PROVE  SyncInv'
<1>1. /\ row.status = "pending" /\ Start("validate", row.snap) /\ Begun /\ row.snap \in Mine
      /\ UNCHANGED <<fileVars, way, source, wire, late>> /\ way.driver = "queue"
      /\ row' = [row EXCEPT !.status = "running"] /\ row \in [status : Statuses, snap : Mine]
  BY DEF StartTransfer, SyncInv, RowFits
<1>2. row' = [status |-> "running", snap |-> row.snap]
  BY <1>1
<1>3. row' \in [status : Statuses, snap : {row.snap}] /\ row'.status = "running"
  BY <1>2 DEF Statuses
<1> QED BY <1>1, <1>3, StartKeeps

(* The user retries a failed transfer.                                     *)
LEMMA RetryJobKeeps ==
  ASSUME SyncInv, RetryJob
  PROVE  SyncInv'
<1>1. /\ row.status = "failed" /\ UNCHANGED <<fileVars, way, source, agent, wire, late, told, seen>>
      /\ row' = [row EXCEPT !.status = "pending"] /\ row \in [status : Statuses, snap : Mine]
  BY DEF RetryJob, SyncInv, RowFits
<1>2. row' = [status |-> "pending", snap |-> row.snap]
  BY <1>1
<1>3. FilesInv' /\ CoreFits' /\ MayTrash' = MayTrash /\ UNCHANGED <<tree, part, meta, op, said>>
  BY <1>1, CoreStays
<1>4. \A u : Belongs(u) => Belongs(u)'
  BY <1>1, <1>3 DEF Belongs
<1>5. FinishFits => FinishFits'
  BY <1>1, <1>3 DEF FinishFits
<1>6. RequestFits(wire)' /\ RequestFits(late)'
  BY <1>1, <1>3 DEF SyncInv, WireFits, RequestFits
<1>7. AgentFits' /\ WireFits'
  BY <1>1, <1>4, <1>5, <1>6, AgentStays, WireStays
<1>8. RowFits'
  BY <1>1, <1>2 DEF SyncInv, RowFits, Statuses
<1>9. SeenFits'
  BY <1>1, <1>2, <1>3 DEF SyncInv, SeenFits, CopiedIsThere
<1> QED BY <1>3, <1>7, <1>8, <1>9 DEF SyncInv

-----------------------------------------------------------------------------
(* The invariant holds at first.                                           *)
LEMMA SyncBegins == SyncInit => SyncInv
<1> SUFFICES ASSUME SyncInit PROVE SyncInv
  OBVIOUS
<1>1. FilesInv
  BY FilesBegin DEF SyncInit
<1>2. /\ way \in Ways /\ source \in Mine /\ agent = Resting /\ wire = Silent /\ late = Silent
      /\ row = [status |-> IF way.driver = "queue" THEN "pending" ELSE "none", snap |-> source]
      /\ told = Unsaid
  BY SyncAssumption DEF SyncInit, Mine
<1>3. AgentFits
  <2>1. agent \in [at : Steps, snap : Mine \cup {None}, id : Uploads \cup {None}, sent : Nat,
                   block : Blocks \cup {None}, tries : 0..Tries, lost : BOOLEAN]
    BY <1>2, SyncAssumption DEF Resting, Steps
  <2> QED BY <1>2, <2>1 DEF AgentFits, Holding, Resting
<1>4. RowFits
  BY <1>2 DEF RowFits, Statuses, Resting
<1>5. WireFits
  BY <1>2, SilentFits DEF WireFits, Resting
<1>6. CoreFits
  BY DEF SyncInit, Init, CoreFits, Idle, Work
<1>7. SeenFits
  BY <1>2 DEF SeenFits, CopiedIsThere, Resting, Unsaid
<1> QED BY <1>1, <1>3, <1>4, <1>5, <1>6, <1>7 DEF SyncInv

(* No step breaks the invariant.                                           *)
LEMMA SyncGoesOn ==
  ASSUME SyncInv, [SyncNext]_vars
  PROVE  SyncInv'
<1>1. CASE UNCHANGED vars
  <2>1. /\ UNCHANGED <<fileVars, way, source, agent, wire, late, row, told, seen>>
    BY <1>1 DEF vars, client
  <2>2. FilesInv' /\ CoreFits' /\ MayTrash' = MayTrash /\ UNCHANGED <<tree, part, meta, op, said>>
    BY <2>1, CoreStays
  <2>3. \A u : Belongs(u) => Belongs(u)'
    BY <2>1, <2>2 DEF Belongs
  <2>4. FinishFits => FinishFits'
    BY <2>1, <2>2 DEF FinishFits
  <2>5. RequestFits(wire)' /\ RequestFits(late)'
    BY <2>1, <2>2 DEF SyncInv, WireFits, RequestFits
  <2>6. AgentFits' /\ WireFits'
    BY <2>1, <2>3, <2>4, <2>5, AgentStays, WireStays
  <2>7. RowFits' /\ SeenFits'
    BY <2>1, <2>2 DEF SyncInv, RowFits, SeenFits, CopiedIsThere
  <2> QED BY <2>2, <2>6, <2>7 DEF SyncInv
<1> QED BY <1>1, RunKeeps, StartSyncKeeps, StartTransferKeeps, RetryJobKeeps, ServeWireKeeps, ServeLateKeeps,
           CoreWorksKeeps, OthersKeep, TimeOutKeeps, ReadFailsKeeps, ClientDiesKeeps, EditSourceKeeps DEF SyncNext

-----------------------------------------------------------------------------
(* The invariant is stronger than the types.                               *)
LEMMA SyncIsTyped == SyncInv => SyncTypeOK
BY DEF SyncInv, AgentFits, RowFits, SyncTypeOK, Statuses

(* The invariant is stronger than the truth of the reports.                *)
LEMMA CopiesAreThere == SyncInv => CopiedIsThere
BY DEF SyncInv, SeenFits

(* Of what Core does for the client only a trash the profile allows takes  *)
(* a foreign file away, or its undoing what came over SMB meanwhile.       *)
ForeignStays ==
  Foreign /\ tree'[Target] # tree[Target] /\ intrusions' = intrusions =>
    \/ MayTrash /\ \E t \in TrashIds : item'[t] = tree[Target]
    \/ op.do = "trash" /\ Target \in intruded

(* No step of Core takes a foreign file away for less.                     *)
LEMMA ForeignStaysInCore ==
  ASSUME SyncInv, CoreStep
  PROVE  ForeignStays
<1> SUFFICES ASSUME Foreign, tree'[Target] # tree[Target]
             PROVE  \/ MayTrash /\ \E t \in TrashIds : item'[t] = tree[Target]
                    \/ op.do = "trash" /\ Target \in intruded
  BY DEF ForeignStays
<1>1. tree[Target] # None
  <2>1. PICK v \in Outsiders : tree[Target] = Whole(v)
    BY DEF Foreign
  <2> QED BY <2>1, FileAssumption, WholesAreStored
<1>2. /\ op.do \in Requests \cup {"idle"} /\ (op.do \in {"complete", "trash"} => op.path = Target)
      /\ (op.do = "trash" => MayTrash)
  BY DEF SyncInv, CoreFits
<1>3. CASE InstallPart
  <2>1. op.path = Target /\ tree[op.path] = None
    BY <1>2, <1>3 DEF InstallPart, At
  <2> QED BY <1>1, <2>1
<1>4. CASE TrashEntry
  <2>1. op.do = "trash" /\ op.at = "first" /\ op.path = Target
    BY <1>2, <1>4 DEF TrashEntry, At
  <2>2. op.id \in TrashIds /\ item \in [TrashIds -> {None} \cup Content]
    BY <2>1 DEF SyncInv, FilesInv, OpFits, TrashFits, FilesFit
  <2>3. item' = [item EXCEPT ![op.id] = tree[Target]]
    BY <1>1, <1>4, <2>1 DEF TrashEntry
  <2>4. item'[op.id] = tree[Target]
    BY <2>2, <2>3
  <2> QED BY <1>2, <2>1, <2>2, <2>4
<1>5. CASE TrashUndone
  <2>1. op.do = "trash" /\ op.at = "last" /\ op.path = Target
    BY <1>2, <1>5 DEF TrashUndone, At
  <2>2. Vacant(Target)
    BY <2>1 DEF SyncInv, FilesInv, OpFits, TrashFits
  <2> QED BY <1>1, <2>1, <2>2 DEF Vacant
<1>6. CASE ReplaceFile \/ Rename \/ RestoreEntry
  BY <1>2, <1>6 DEF ReplaceFile, Rename, RestoreEntry, At, Requests
<1>7. CASE UNCHANGED tree
  BY <1>7
<1>8. InstallPart \/ TrashEntry \/ TrashUndone \/ ReplaceFile \/ Rename \/ RestoreEntry \/ UNCHANGED tree
  BY DEF CoreStep, CreatePart, CreateMetadata, CreateUndone, WriteChunk, WriteChunkBotched,
     RecordChunk, ChunkUndone, TargetExists, RemoveSession, SessionRemains, RemovePart,
     PartRemains, WriteTemp, PutUndone, RecordOrigin, PurgeEntry, ForgetOrigin, FirstFails, UndoFails,
     CoreDies, disk
<1> QED BY <1>3, <1>4, <1>5, <1>6, <1>7, <1>8

(* No step at all does.                                                    *)
LEMMA ForeignStaysAlways ==
  ASSUME SyncInv, [SyncNext]_vars
  PROVE  ForeignStays
<1>1. CASE CoreWorks
  BY <1>1, ForeignStaysInCore DEF CoreWorks
<1>2. CASE Others
  <2>1. intrusions' = intrusions + 1 /\ intrusions \in Nat
    BY <1>2 DEF Others, Outside, Intrude, SyncInv, FilesInv, RestFits
  <2> QED BY <2>1 DEF ForeignStays
<1>3. CASE ServeWire \/ ServeLate
  <2>1. UNCHANGED tree
    BY <1>3, RequestsAreServed, SyncAssumption DEF ServeWire, ServeLate, SyncInv, WireFits
  <2> QED BY <2>1 DEF ForeignStays
<1>4. CASE Run
  <2>1. UNCHANGED fileVars
    BY <1>4 DEF Run, Inspect, Trashing, Validate, Verify, ListUploads, Cancelling, CreateSession, Creating,
       SendChunk, Sending, SendAgain, FinishUpload, Finishing, Recheck, Report, RunFails, UploadFails, Turn,
       Become, Send, Received, Stay
  <2> QED BY <2>1 DEF ForeignStays, fileVars, disk
<1>5. CASE \/ StartSync \/ StartTransfer \/ RetryJob \/ TimeOut \/ ReadFails \/ ClientDies
           \/ (\E v \in Mine : EditSource(v)) \/ UNCHANGED vars
  <2>1. UNCHANGED fileVars
    BY <1>5 DEF StartSync, StartTransfer, RetryJob, TimeOut, ReadFails, ClientDies, EditSource, vars
  <2> QED BY <2>1 DEF ForeignStays, fileVars, disk
<1> QED BY <1>1, <1>2, <1>3, <1>4, <1>5 DEF SyncNext

(* What the client reports is there, and what somebody else put at the     *)
(* target stays unless the profile says otherwise (CopyIsSafe).            *)
THEOREM CopiesAreSafe == SyncSpec => CopyIsSafe
<1>1. SyncInit => SyncInv
  BY SyncBegins
<1>2. SyncInv /\ [SyncNext]_vars => SyncInv'
  BY SyncGoesOn
<1>3. SyncInv => SyncTypeOK /\ CopiedIsThere
  BY SyncIsTyped, CopiesAreThere
<1>4. SyncInv /\ [SyncNext]_vars =>
        [Foreign /\ tree'[Target] # tree[Target] /\ intrusions' = intrusions =>
           \/ /\ way.driver = "sync" /\ way.policy = "replace-to-trash"
              /\ \E t \in TrashIds : item'[t] = tree[Target]
           \/ op.do = "trash" /\ Target \in intruded]_vars
  BY ForeignStaysAlways DEF ForeignStays, MayTrash
<1> QED BY <1>1, <1>2, <1>3, <1>4, PTL DEF SyncSpec, CopyIsSafe, ForeignIsKept
===============================================================================
