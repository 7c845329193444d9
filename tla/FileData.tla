------------------------------- MODULE FileData -------------------------------
(***************************************************************************)
(* The files of the NAS folders (internal/filedata) behind the handlers of *)
(* internal/api/files.go: uploads in parts, replacement, moves and the     *)
(* trash.  fileMutationMu admits one mutation at a time, so op is a single *)
(* program counter; every step is one change of the file system, between   *)
(* two of which Core may die and clients of SMB change the visible files.  *)
(* Names are plain: directories and the check of paths are left out.  The  *)
(* folders are on one pool, whose file system keeps no project quotas.     *)
(***************************************************************************)
EXTENDS Integers, Sequences, FiniteSets

CONSTANTS
  Paths, Uploads, TrashIds,  (* visible names; the random ids handed out   *)
  Folders, FolderOf,         (* each of these lies in one logical folder   *)
  Owned,                     (* the private folders of each user           *)
  Versions, Size,            (* what a file may hold, and its blocks       *)
  Outsiders,                 (* the versions written by clients of SMB     *)
  Capacity, Reserves,        (* blocks of the pool; how many an            *)
                             (* administrator has kept free                *)
  Quotas,                    (* quotas an administrator sets, 0 for none   *)
  Callers, None,
  MaxRequests,               (* bound: mutations asked of Core             *)
  MaxMishaps,                (* bound: failed calls and deaths of Core     *)
  MaxIntrusions              (* bound: changes by clients of SMB           *)

Blocks   == UNION {{<<v, i>> : i \in 1..Size[v]} : v \in Versions}
Whole(v) == [i \in 1..Size[v] |-> <<v, i>>]
UploadSession == [path : Paths, of : Versions, sum : BOOLEAN, got : Seq(Blocks)]

ASSUME FileAssumption ==
  /\ FolderOf \in [Paths \cup Uploads \cup TrashIds -> Folders]
  /\ Uploads \cap TrashIds = {} /\ None \notin Paths \cup Uploads \cup TrashIds
  /\ IsFiniteSet(Paths) /\ IsFiniteSet(Uploads) /\ IsFiniteSet(TrashIds)
  /\ None \notin Seq(Blocks) /\ None \notin UploadSession
  /\ Size \in [Versions -> Nat \ {0}]
  /\ Outsiders \subseteq Versions /\ Quotas \cup Reserves \subseteq Nat
  /\ {Capacity, MaxRequests, MaxMishaps, MaxIntrusions} \subseteq Nat

VARIABLES
  tree,        (* what is at each visible path                             *)
  part, meta,  (* .home-ai-upload-<id>: the bytes and the session          *)
  item, origin,(* .home-ai-trash: the entries and where they came from     *)
  quota,       (* of folders and users, in nas_folders and nas_user_quotas *)
  reserve,     (* of the pool, in the nas_pools table                      *)
  op,          (* the mutation that holds fileMutationMu                   *)
  said,        (* what Core answered each caller last                      *)
  raised,      (* the reserve was raised while uploads were under way      *)
               (* (history)                                                *)
  intruded,    (* paths changed over SMB since op began (history)          *)
  cuts,        (* deaths within a mutation and failed clean-ups (history)  *)
  requests, mishaps, intrusions

disk   == <<tree, part, meta, item, origin>>
budget == <<cuts, requests, mishaps, intrusions>>
policy == <<quota, reserve, raised>>
fileVars == <<disk, policy, op, said, intruded, budget>>

(* What a quota is set for: a folder, or a user's private folders.         *)
Caps == {{f} : f \in Folders} \cup Owned

Work(do, path, to, id, of) ==
  [do |-> do, at |-> "first", by |-> None, path |-> path, to |-> to, id |-> id, of |-> of]
Idle == Work("idle", None, None, None, None)

Init ==
  /\ tree = [p \in Paths |-> None]
  /\ part = [u \in Uploads |-> None] /\ meta = [u \in Uploads |-> None]
  /\ item = [t \in TrashIds |-> None] /\ origin = [t \in TrashIds |-> None]
  /\ quota = [k \in Caps |-> 0] /\ reserve \in Reserves /\ raised = FALSE /\ op = Idle
  /\ said = [c \in Callers |-> "none"] /\ intruded = {}
  /\ cuts = 0 /\ requests = 0 /\ mishaps = 0 /\ intrusions = 0

-----------------------------------------------------------------------------
(* What a cap counts and what may still be written to it.                 *)

Held(fn) == UNION {{x} \X DOMAIN fn[x] : x \in {y \in DOMAIN fn : fn[y] # None}}
HeldIn(fn, k) == {b \in Held(fn) : FolderOf[b[1]] \in k}

(* A session counts only while its part has the size the metadata tells.   *)
Listed(u)   == meta[u] # None /\ part[u] # None /\ Len(part[u]) = Len(meta[u].got)
Sessions    == {u \in Uploads : Listed(u)}
Missing(u)  == Size[meta[u].of] - Len(meta[u].got)
Promised(S) == UNION {{u} \X (1..Missing(u)) : u \in S}

Used(k)     == Cardinality(HeldIn(tree, k)) + Cardinality(HeldIn(item, k))
Reserved(k) == Cardinality(UNION {{u} \X (1..Size[meta[u].of]) :
                                   u \in {w \in Sessions : FolderOf[w] \in k}})
PoolFree == Capacity - Cardinality(Held(tree)) - Cardinality(Held(part)) - Cardinality(Held(item))
Credit(u) == IF u = None THEN 0 ELSE Missing(u)

(* A bug: what other uploads were promised is not set aside.               *)
PoolAllowanceGreedy(u) == PoolFree - reserve
(* Space for the session u, or for something new when u is None.           *)
PoolAllowance(u) == PoolFree - reserve - Cardinality(Promised(Sessions \ {u}))
CapAllowance(k, u) == quota[k] - Used(k) - Reserved(k) + Credit(u)
Fits(n, f, u) ==
  /\ n <= PoolAllowance(u)
  /\ \A k \in Caps : f \in k => quota[k] = 0 \/ n <= CapAllowance(k, u)

-----------------------------------------------------------------------------
(* A mutation takes the mutex, works in steps and answers its caller.      *)

Admit == op = Idle
Tell(c, why) == said' = [x \in Callers |-> IF x = c THEN why ELSE said[x]]
Begin(c, work) ==
  /\ op' = [work EXCEPT !.by = c] /\ Tell(c, "none") /\ intruded' = {}
  /\ UNCHANGED <<disk, policy, cuts, mishaps, intrusions>>
Refuse(c, why) ==
  /\ Tell(c, why)
  /\ UNCHANGED <<disk, policy, op, intruded, cuts, mishaps, intrusions>>

At(do, at) == op.do = do /\ op.at = at
GoOn(at) == op' = [op EXCEPT !.at = at] /\ UNCHANGED <<policy, said, intruded, budget>>
Answer(why) ==
  /\ op' = Idle /\ Tell(op.by, why)
  /\ UNCHANGED <<policy, intruded, requests, intrusions>>
Finish(why) == Answer(why) /\ UNCHANGED <<cuts, mishaps>>
(* One call fails and what was begun is undone; or the undoing fails too.  *)
GiveUp == mishaps < MaxMishaps /\ mishaps' = mishaps + 1 /\ Answer("failed") /\ UNCHANGED cuts
Botch(why) == mishaps < MaxMishaps /\ mishaps' = mishaps + 1 /\ cuts' = cuts + 1 /\ Answer(why)

Unused(u) == part[u] = None /\ meta[u] = None

-----------------------------------------------------------------------------
(* CreateUpload: a part, then the metadata that makes it a session.        *)

Conflicts(p) == tree[p] # None \/ \E w \in Sessions : meta[w].path = p
CreateUpload(c, p, v, u, sum) ==
  /\ Admit /\ Unused(u) /\ FolderOf[u] = FolderOf[p]
  /\ \/ ~Fits(Size[v], FolderOf[p], None) /\ Refuse(c, "full")
     \/ Fits(Size[v], FolderOf[p], None) /\ Conflicts(p) /\ Refuse(c, "conflict")
     \/ /\ Fits(Size[v], FolderOf[p], None) /\ ~Conflicts(p)
        /\ Begin(c, Work("create", p, sum, u, v))
CreatePart ==
  /\ At("create", "first") /\ part' = [part EXCEPT ![op.id] = <<>>]
  /\ GoOn("last") /\ UNCHANGED <<tree, meta, item, origin>>
CreateMetadata ==
  /\ At("create", "last")
  /\ meta' = [meta EXCEPT ![op.id] = [path |-> op.path, of |-> op.of, sum |-> op.to, got |-> <<>>]]
  /\ Finish("ok") /\ UNCHANGED <<tree, part, item, origin>>
CreateUndone ==
  /\ At("create", "last") /\ part' = [part EXCEPT ![op.id] = None]
  /\ GiveUp /\ UNCHANGED <<tree, meta, item, origin>>

(* AppendUploadChunk: the block b is meant for offset at.                  *)
AppendUploadChunk(c, u, at, b) ==
  /\ Admit
  /\ \/ ~Listed(u) /\ Refuse(c, "missing")
     \/ Listed(u) /\ ~Fits(1, FolderOf[u], u) /\ Refuse(c, "full")
     \/ /\ Listed(u) /\ Fits(1, FolderOf[u], u)
        /\ \/ at # Len(meta[u].got) /\ Refuse(c, "conflict")
           \/ at = Len(meta[u].got) /\ Missing(u) = 0 /\ Refuse(c, "failed")
           \/ /\ at = Len(meta[u].got) /\ Missing(u) > 0
              /\ Begin(c, Work("chunk", meta[u].path, None, u, b))
WriteChunk ==
  /\ At("chunk", "first") /\ part' = [part EXCEPT ![op.id] = Append(@, op.of)]
  /\ GoOn("last") /\ UNCHANGED <<tree, meta, item, origin>>
(* The write or the sync fails, and so does the truncation.                *)
WriteChunkBotched ==
  /\ At("chunk", "first") /\ part' = [part EXCEPT ![op.id] = Append(@, op.of)]
  /\ Botch("failed") /\ UNCHANGED <<tree, meta, item, origin>>
RecordChunk ==
  /\ At("chunk", "last") /\ meta' = [meta EXCEPT ![op.id].got = Append(@, op.of)]
  /\ Finish("ok") /\ UNCHANGED <<tree, part, item, origin>>
ChunkUndone ==
  /\ At("chunk", "last")
  /\ part' = [part EXCEPT ![op.id] = SubSeq(@, 1, Len(meta[op.id].got))]
  /\ GiveUp /\ UNCHANGED <<tree, meta, item, origin>>

(* CompleteUpload: all bytes, the checksum, then a rename that never       *)
(* replaces (RENAME_NOREPLACE) and the removal of the metadata.            *)
Checked(u) == meta[u].sum => part[u] = Whole(meta[u].of)
(* A bug: the number of bytes received is not compared.                    *)
CompleteUploadEarly(c, u) ==
  /\ Admit
  /\ \/ ~Listed(u) /\ Refuse(c, "missing")
     \/ Listed(u) /\ Checked(u) /\ Begin(c, Work("complete", meta[u].path, None, u, None))
CompleteUpload(c, u) ==
  /\ Admit
  /\ \/ ~Listed(u) /\ Refuse(c, "missing")
     \/ Listed(u) /\ (Missing(u) > 0 \/ ~Checked(u)) /\ Refuse(c, "failed")
     \/ /\ Listed(u) /\ Missing(u) = 0 /\ Checked(u)
        /\ Begin(c, Work("complete", meta[u].path, None, u, None))
InstallPart ==
  /\ At("complete", "first") /\ tree[op.path] = None
  /\ tree' = [tree EXCEPT ![op.path] = part[op.id]] /\ part' = [part EXCEPT ![op.id] = None]
  /\ GoOn("last") /\ UNCHANGED <<meta, item, origin>>
TargetExists ==
  At("complete", "first") /\ tree[op.path] # None /\ Finish("conflict") /\ UNCHANGED disk
RemoveSession ==
  /\ op.do \in {"complete", "cancel"} /\ op.at = "last"
  /\ meta' = [meta EXCEPT ![op.id] = None]
  /\ Finish("ok") /\ UNCHANGED <<tree, part, item, origin>>
(* Left behind; the upload is complete and said to be.                     *)
SessionRemains ==
  /\ op.do \in {"complete", "cancel"} /\ op.at = "last"
  /\ Botch(IF op.do = "complete" THEN "ok" ELSE "failed") /\ UNCHANGED disk

CancelUpload(c, u) ==
  /\ Admit
  /\ IF Listed(u) THEN Begin(c, Work("cancel", meta[u].path, None, u, None))
                  ELSE Refuse(c, "missing")
RemovePart ==
  /\ At("cancel", "first") /\ part' = [part EXCEPT ![op.id] = None]
  /\ GoOn("last") /\ UNCHANGED <<tree, meta, item, origin>>
(* The first error is reported; the metadata is removed all the same.      *)
PartRemains ==
  /\ At("cancel", "first") /\ meta' = [meta EXCEPT ![op.id] = None]
  /\ Botch("failed") /\ UNCHANGED <<tree, part, item, origin>>

(* UploadLimited: a whole file through a temporary one, replacing.         *)
UploadLimited(c, p, v, u) ==
  /\ Admit /\ Unused(u) /\ FolderOf[u] = FolderOf[p]
  /\ IF Fits(Size[v], FolderOf[p], None) THEN Begin(c, Work("put", p, None, u, v))
                                         ELSE Refuse(c, "full")
WriteTemp ==
  /\ At("put", "first") /\ part' = [part EXCEPT ![op.id] = Whole(op.of)]
  /\ GoOn("last") /\ UNCHANGED <<tree, meta, item, origin>>
ReplaceFile ==
  /\ At("put", "last")
  /\ tree' = [tree EXCEPT ![op.path] = part[op.id]] /\ part' = [part EXCEPT ![op.id] = None]
  /\ Finish("ok") /\ UNCHANGED <<meta, item, origin>>
PutUndone ==
  /\ At("put", "last") /\ part' = [part EXCEPT ![op.id] = None]
  /\ GiveUp /\ UNCHANGED <<tree, meta, item, origin>>

-----------------------------------------------------------------------------
(* Move looks for the target before a rename that replaces.                *)

(* A bug: it does not look.                                                *)
MoveBlindly(c, p, q) ==
  /\ Admit /\ p # q /\ FolderOf[p] = FolderOf[q]
  /\ IF tree[p] = None THEN Refuse(c, "missing") ELSE Begin(c, Work("move", p, q, None, None))
Move(c, p, q) ==
  /\ Admit /\ p # q /\ FolderOf[p] = FolderOf[q]
  /\ \/ tree[p] = None /\ Refuse(c, "missing")
     \/ tree[p] # None /\ tree[q] # None /\ Refuse(c, "conflict")
     \/ tree[p] # None /\ tree[q] = None /\ Begin(c, Work("move", p, q, None, None))
Rename ==
  /\ At("move", "first")
  /\ IF tree[op.path] = None THEN Finish("failed") /\ UNCHANGED tree
     ELSE /\ tree' = [tree EXCEPT ![op.to] = tree[op.path], ![op.path] = None]
          /\ Finish("ok")
  /\ UNCHANGED <<part, meta, item, origin>>

(* Trash: the entry first, then where it came from.                        *)
Trash(c, p, t) ==
  /\ Admit /\ item[t] = None /\ origin[t] = None /\ FolderOf[t] = FolderOf[p]
  /\ IF tree[p] = None THEN Refuse(c, "missing") ELSE Begin(c, Work("trash", p, None, t, None))
TrashEntry ==
  /\ At("trash", "first")
  /\ IF tree[op.path] = None THEN Finish("failed") /\ UNCHANGED <<tree, item>>
     ELSE /\ item' = [item EXCEPT ![op.id] = tree[op.path]]
          /\ tree' = [tree EXCEPT ![op.path] = None]
          /\ GoOn("last")
  /\ UNCHANGED <<part, meta, origin>>
RecordOrigin ==
  /\ At("trash", "last") /\ origin' = [origin EXCEPT ![op.id] = op.path]
  /\ Finish("ok") /\ UNCHANGED <<tree, part, meta, item>>
(* The entry is renamed back, over whatever has appeared there.            *)
TrashUndone ==
  /\ At("trash", "last")
  /\ tree' = [tree EXCEPT ![op.path] = item[op.id]] /\ item' = [item EXCEPT ![op.id] = None]
  /\ GiveUp /\ UNCHANGED <<part, meta, origin>>

InTrash(t) == item[t] # None /\ origin[t] # None
RestoreTrash(c, t) ==
  /\ Admit
  /\ \/ ~InTrash(t) /\ Refuse(c, "failed")
     \/ InTrash(t) /\ tree[origin[t]] # None /\ Refuse(c, "conflict")
     \/ InTrash(t) /\ tree[origin[t]] = None /\ Begin(c, Work("restore", origin[t], None, t, None))
RestoreEntry ==
  /\ At("restore", "first")
  /\ tree' = [tree EXCEPT ![op.path] = item[op.id]] /\ item' = [item EXCEPT ![op.id] = None]
  /\ GoOn("last") /\ UNCHANGED <<part, meta, origin>>
PurgeTrash(c, t) ==
  /\ Admit
  /\ IF InTrash(t) THEN Begin(c, Work("purge", None, None, t, None)) ELSE Refuse(c, "failed")
PurgeEntry ==
  /\ At("purge", "first") /\ item' = [item EXCEPT ![op.id] = None]
  /\ GoOn("last") /\ UNCHANGED <<tree, part, meta, origin>>
ForgetOrigin ==
  /\ op.do \in {"restore", "purge"} /\ op.at = "last"
  /\ origin' = [origin EXCEPT ![op.id] = None]
  /\ Finish("ok") /\ UNCHANGED <<tree, part, meta, item>>

-----------------------------------------------------------------------------
(* Failures, and what happens outside Core.                                *)

(* The first call of a mutation fails: nothing has happened yet.           *)
FirstFails == op # Idle /\ op.at = "first" /\ GiveUp /\ UNCHANGED disk
(* The undoing of the second call fails, or there is none.                 *)
UndoFails ==
  /\ op.do \in {"create", "chunk", "put", "trash", "restore", "purge"} /\ op.at = "last"
  /\ Botch("failed") /\ UNCHANGED disk
CoreDies == op # Idle /\ Botch("lost") /\ UNCHANGED disk

(* A client of SMB writes, replaces or deletes a visible file.             *)
Intrude(p, c) ==
  /\ intrusions < MaxIntrusions /\ intrusions' = intrusions + 1 /\ tree[p] # c
  /\ tree' = [tree EXCEPT ![p] = c] /\ intruded' = intruded \cup {p}
  /\ UNCHANGED <<part, meta, item, origin, policy, op, said, cuts, requests, mishaps>>

(* A quota below what is used and promised is refused.                     *)
SetQuota(k, q) ==
  /\ Admit /\ q # quota[k] /\ (q = 0 \/ Used(k) + Reserved(k) <= q)
  /\ quota' = [quota EXCEPT ![k] = q]
  /\ UNCHANGED <<disk, reserve, raised, op, said, intruded, cuts, mishaps, intrusions>>
(* What was promised is not looked at.                                     *)
SetReserve(r) ==
  /\ Admit /\ r # reserve /\ reserve' = r
  /\ raised' = (raised \/ (r > reserve /\ Sessions # {}))
  /\ UNCHANGED <<disk, quota, op, said, intruded, cuts, mishaps, intrusions>>

CoreStep ==
  \/ CreatePart \/ CreateMetadata \/ CreateUndone
  \/ WriteChunk \/ WriteChunkBotched \/ RecordChunk \/ ChunkUndone
  \/ InstallPart \/ TargetExists \/ RemoveSession \/ SessionRemains
  \/ RemovePart \/ PartRemains
  \/ WriteTemp \/ ReplaceFile \/ PutUndone
  \/ Rename \/ TrashEntry \/ RecordOrigin \/ TrashUndone
  \/ RestoreEntry \/ PurgeEntry \/ ForgetOrigin
  \/ FirstFails \/ UndoFails \/ CoreDies

(* Without a checksum of the whole the sender reads one version.           *)
fileFolderUploads(c) == \E p \in Paths, v \in Versions, u \in Uploads, sum \in BOOLEAN :
  CreateUpload(c, p, v, u, sum)
fileFolderUploadChunk(c) == \E u \in Uploads, b \in Blocks :
  /\ meta[u] # None => meta[u].sum \/ meta[u].of = b[1]
  /\ AppendUploadChunk(c, u, b[2] - 1, b)
fileFolderUploadComplete(c) == \E u \in Uploads : CompleteUpload(c, u)
fileFolderUpload(c)         == \E u \in Uploads : CancelUpload(c, u)
fileFolderContent(c) == \E p \in Paths, v \in Versions, u \in Uploads : UploadLimited(c, p, v, u)
fileFolderMove(c)    == \E p, q \in Paths : Move(c, p, q)
fileFolderEntry(c)   == \E p \in Paths, t \in TrashIds : Trash(c, p, t)
fileFolderTrashRestore(c) == \E t \in TrashIds : RestoreTrash(c, t)
fileFolderTrashPurge(c)   == \E t \in TrashIds : PurgeTrash(c, t)
fileFolderManagement(c)   == \E f \in Folders, q \in Quotas : SetQuota({f}, q)
fileUserQuotas(c)         == \E k \in Owned, q \in Quotas : SetQuota(k, q)
filePoolCapacityPolicy(c) == \E r \in Reserves : SetReserve(r)
Request(c) ==
  \/ fileFolderUploads(c) \/ fileFolderUploadChunk(c) \/ fileFolderUploadComplete(c)
  \/ fileFolderUpload(c) \/ fileFolderContent(c) \/ fileFolderMove(c) \/ fileFolderEntry(c)
  \/ fileFolderTrashRestore(c) \/ fileFolderTrashPurge(c) \/ fileFolderManagement(c)
  \/ fileUserQuotas(c) \/ filePoolCapacityPolicy(c)
Counted == requests < MaxRequests /\ requests' = requests + 1
Outside ==
  \/ \E p \in Paths, v \in Outsiders : Intrude(p, Whole(v))
  \/ \E p \in Paths : Intrude(p, None)

Next == CoreStep \/ Outside \/ (Counted /\ \E c \in Callers : Request(c))
Spec == Init /\ [][Next]_fileVars

-----------------------------------------------------------------------------
(* Properties                                                              *)

Content == {Whole(v) : v \in Versions}

(* The variables have their types.  filedata.UploadSession, TrashEntry     *)
TypeOK ==
  /\ tree \in [Paths -> {None} \cup Seq(Blocks)]
  /\ part \in [Uploads -> {None} \cup Seq(Blocks)]
  /\ meta \in [Uploads -> {None} \cup UploadSession]
  /\ \A u \in Uploads : meta[u] # None => Len(meta[u].got) <= Size[meta[u].of]
  /\ item \in [TrashIds -> {None} \cup Seq(Blocks)]
  /\ origin \in [TrashIds -> Paths \cup {None}]
  /\ quota \in [Caps -> Quotas \cup {0}] /\ reserve \in Reserves /\ raised \in BOOLEAN
  /\ said \in [Callers -> {"none", "ok", "missing", "conflict", "full", "failed", "lost"}]
  /\ op.at \in {"first", "last"} /\ intruded \subseteq Paths

(* A visible file is one whole version: whatever chunks were refused, sent *)
(* twice, cut off or left by a death of Core, CompleteUpload publishes     *)
(* neither a part nor a mixture.                                           *)
PublishedIsWhole == \A p \in Paths : tree[p] # None => tree[p] \in Content

(* What GetUpload accepts is what the part holds, so that a client resumes *)
(* at the offset it is told.                                               *)
SessionIsTrue == \A u \in Uploads : Listed(u) => part[u] = meta[u].got

(* As long as Core alone writes, and nobody raises the reserve of the pool *)
(* over uploads under way, every accepted upload fits to its last byte:    *)
(* neither a second upload, a replaced file nor a lowered quota of a       *)
(* folder or a user takes the space it was promised                        *)
(* (reservedPoolAllowance, fileWriteAllowance).                            *)
PromiseKept ==
  intrusions = 0 /\ ~raised => \A u \in Sessions : Fits(Missing(u), FolderOf[u], u)

(* An upload or an entry of the trash of which only a half exists, and     *)
(* which nobody can list, resume, restore or remove, is left only by a     *)
(* death of Core or by a clean-up that failed itself, one by each.         *)
Halves ==
  {u \in Uploads : op.id # u /\ ~Unused(u) /\ ~Listed(u)} \cup
  {t \in TrashIds : op.id # t /\ ~InTrash(t) /\ (item[t] # None \/ origin[t] # None)}
HalvesAreCuts == Cardinality(Halves) <= cuts

(* The last copy of a file goes only when somebody asked for it: by        *)
(* replacing or purging it, or over SMB.  Moving, restoring and the way    *)
(* back of a failed trash may only cover what came over SMB meanwhile; the *)
(* commit of an upload covers nothing.                                     *)
Kept(c) == (\E p \in Paths : tree[p] = c) \/ (\E t \in TrashIds : item[t] = c)
LossIsAsked ==
  [][\A c \in Content : Kept(c) /\ ~Kept(c)' =>
       \/ intrusions' # intrusions \/ op.do \in {"put", "purge"}
       \/ /\ op.do \in {"move", "restore", "trash"}
          /\ \E p \in intruded : tree[p] = c]_fileVars

(* What is stored is sound: typed, every visible file whole, every upload  *)
(* that can be resumed true, and no half of one left without a failure.    *)
FilesAreSound == TypeOK /\ PublishedIsWhole /\ SessionIsTrue /\ HalvesAreCuts
=============================================================================
