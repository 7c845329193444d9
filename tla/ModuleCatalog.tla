----------------------------- MODULE ModuleCatalog ----------------------------
(***************************************************************************)
(* The catalogue a browser is shown (internal/api/module_catalog.go,       *)
(* homeassistant_catalog.go, frigate_catalog.go): the published document,  *)
(* with candidates of three sources laid over it, each of which may fail   *)
(* or be out of date, and the resolution of an official tag to the digest  *)
(* of one platform (internal/frigate/upstream.go,                          *)
(* internal/homeassistant/image.go).  A behaviour is one load.             *)
(***************************************************************************)
EXTENDS Naturals, FiniteSets

CONSTANTS
  Arch,         (* runtime.GOARCH                                          *)
  Releases      (* what version numbers there are, in their order          *)

ASSUME CatalogAssumption == Arch \in {"amd64", "arm64"} /\ Releases \subseteq Nat \ {0}

VARIABLES
  document,     (* the published catalogue: module -> [version, image]     *)
  private,      (* the private NVR manifest and the answer to its request  *)
  release,      (* the official release of Home Assistant, likewise        *)
  index,        (* the registry's answers about Frigate's tag              *)
  last          (* the candidate frigateCatalogCache holds                 *)

catalogVars == <<document, private, release, index, last>>

NoEntry == [version |-> 0, image |-> 0]
CatalogIds == {"nvr", "ha", "frigate"}

(* newerNVRSemver.                                                         *)
NewerOrSame(a, b) == a >= b
Newer(a, b) == a > b

(* mergePrivateNVRCandidate, for a host that has opted in and may read it: *)
(* fetchPrivateNVRManifest refuses other modules and image repositories.   *)
Trusted == private.opted /\ private.answered /\ private.ours
MergePrivateNVR(entry) ==
  IF entry # NoEntry /\ Trusted /\ Newer(private.version, entry.version)
  THEN [version |-> private.version, image |-> private.image] ELSE entry

(* ResolveLatest: a stable release whose index is what its digest says.    *)
ResolveLatest ==
  IF release.answered /\ release.stable /\ release.genuine /\ release.platforms # {}
  THEN [version |-> release.version, image |-> release.image] ELSE NoEntry

(* refreshHomeAssistantCandidate.                                          *)
RefreshHomeAssistant(entry) ==
  IF entry # NoEntry /\ ResolveLatest # NoEntry /\ Newer(ResolveLatest.version, entry.version)
  THEN ResolveLatest ELSE entry

(* Resolve: the tag's object is a manifest or an index of them, of which   *)
(* one must be of this platform; its configuration must name it as well.   *)
Selected == IF index.direct THEN index.manifests ELSE {m \in index.manifests : m.arch = Arch}
Resolve ==
  IF /\ index.stable /\ index.genuine
     /\ Cardinality(Selected) = 1
     /\ \A m \in Selected : m.genuine /\ m.config = Arch
  THEN [version |-> index.version, image |-> (CHOOSE m \in Selected : TRUE).image] ELSE NoEntry

(* frigateReleaseStatus: without an answer the last candidate is kept, and *)
(* said to be stale.                                                       *)
FrigateCandidate ==
  IF index.answered /\ Resolve # NoEntry THEN Resolve ELSE last

(* expandFrigateCatalog: never the document's own entry of Frigate.        *)
ExpandFrigate ==
  IF document.source = "declared" THEN FrigateCandidate ELSE NoEntry

(* loadOfficialModuleCatalog and loadModuleCatalog.                        *)
LoadCatalog ==
  [id \in CatalogIds |->
     CASE id = "nvr"     -> MergePrivateNVR(document.entry["nvr"])
       [] id = "ha"      -> RefreshHomeAssistant(document.entry["ha"])
       [] id = "frigate" -> ExpandFrigate]

(* Whatever the three sources answer, nobody is offered an older version   *)
(* than the catalogue publishes, a version that is published keeps its     *)
(* published image, and a module that is not published stays out of it     *)
(* ("Never replace the public NVR image for other users").                 *)
CatalogKeepsPublished ==
  \A id \in {"nvr", "ha"} :
    LET entry == document.entry[id] served == LoadCatalog[id] IN
    /\ served = NoEntry <=> entry = NoEntry
    /\ served.version >= entry.version
    /\ served.version = entry.version => served.image = entry.image
    /\ id = "nvr" /\ ~private.opted => served = entry

(* What is offered for Frigate is the one manifest of the official tag     *)
(* that was made for this machine, or what the cache had before; the       *)
(* document's own entry is never offered (Resolve, expandFrigateCatalog).  *)
FrigateFitsHost ==
  LET served == LoadCatalog["frigate"] IN
  served \notin {NoEntry, last} =>
    /\ index.direct \/ {m.image : m \in {n \in index.manifests : n.arch = Arch}} = {served.image}
    /\ \A m \in index.manifests : m.image = served.image => m.config = Arch
==============================================================================
