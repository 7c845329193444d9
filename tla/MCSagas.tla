------------------------------- MODULE MCSagas --------------------------------
(* From the catalogue to the containers.  In a behaviour one part runs and *)
(* the variables of the others stay: the helper's lock lets one operation  *)
(* run at a time, the three modules' containers and files are disjoint,    *)
(* and what is offered, planned and admitted meets them only in the job    *)
(* that ModuleRegistry models.                                             *)
EXTENDS Containers, ModuleAdmission, ModulePlanner, ModuleCatalog, UpdateSource, TLC

NoPlan    == available = <<>> /\ installed = <<>>
NoCatalog == document = 0 /\ private = 0 /\ release = 0 /\ index = 0 /\ last = 0
NoSaga    == FrigateInit /\ NoHA /\ NoAI /\ NoNVR
NoCore    == [version |-> 1, phase |-> "idle", offered |-> 0, step |-> "idle", hash |-> 0]
NoSource  == shelf = <<>> /\ named = 0 /\ unfit = {} /\ core = NoCore /\ offer = NoOffer /\ offerFile = NoOffer
               /\ stateFile = NoFiles /\ store = <<>> /\ build = 0 /\ kept = NoBackup
               /\ uploads = 0 /\ losses = 0 /\ unsaved = FALSE

-----------------------------------------------------------------------------
(* Every graph of dependencies of three modules; one of them invalid,      *)
(* missing or in conflict, or else one capability that one of them         *)
(* provides and one requires.                                              *)
V1 == <<0, 9, 12>>
V2 == <<0, 10, 0>>
Constraint == [any |-> {},
               new |-> {[op |-> ">=", version |-> V2]},
               old |-> {[op |-> ">", version |-> <<0, 9, 0>>], [op |-> "<", version |-> V2]}]

PlannerInit ==
  \E graph \in [Modules -> SUBSET Modules], need \in DOMAIN Constraint,
     defect \in {"none", "misfit", "missing", "conflict"}, x \in Modules, y \in Modules,
     giver \in Modules \cup {0}, taker \in Modules \cup {0} :
    /\ \A m \in Modules : m \notin graph[m]
    /\ defect # "conflict" => x = y
    /\ defect = "none" => x = 1
    /\ need = "any" \/ \E m \in Modules : 3 \in graph[m]
    /\ (giver = 0) = (taker = 0)
    /\ giver # 0 => defect = "none"
    /\ available = [m \in Modules |->
         [offered |-> ~(defect = "missing" /\ m = x), version |-> IF m = 3 THEN V2 ELSE V1,
          deps |-> [d \in graph[m] |-> IF d = 3 THEN Constraint[need] ELSE {}],
          conflicts |-> IF defect = "conflict" /\ m = x THEN {y} ELSE {},
          requires |-> {"host.docker"} \cup (IF m = taker THEN {"cap"} ELSE {}),
          provides |-> IF m = giver THEN {"cap"} ELSE {},
          fits |-> ~(defect = "misfit" /\ m = x)]]
    /\ installed \in {f \in [Modules -> {<<>>, V1, V2}] : f[1] # V2 /\ f[2] # V2}

Candidates == [version : Releases, image : {1, 2}]
Offer == Candidates \cup {NoEntry}
NoPrivate == [opted |-> FALSE, answered |-> FALSE, ours |-> FALSE, version |-> 1, image |-> 1]
NoRelease == [answered |-> FALSE, stable |-> TRUE, genuine |-> TRUE, platforms |-> {}, version |-> 1, image |-> 1]
NoIndex   == [answered |-> FALSE, stable |-> TRUE, genuine |-> TRUE, direct |-> FALSE,
              version |-> 1, manifests |-> {}]
Manifests(i) == {[arch |-> a, config |-> c, genuine |-> g, image |-> i] :
                   a \in {"amd64", "arm64"}, c \in {"amd64", "arm64"}, g \in BOOLEAN}
Document(nvr, ha, source) ==
  [entry |-> [id \in CatalogIds |-> CASE id = "nvr" -> nvr [] id = "ha" -> ha [] OTHER -> NoEntry], source |-> source]

(* One source at a time: they do not meet.                                 *)
CatalogInit ==
  \/ \E nvr \in Offer : document = Document(nvr, NoEntry, "none")
     /\ private \in [opted : BOOLEAN, answered : BOOLEAN, ours : BOOLEAN, version : Releases, image : {1, 2}]
     /\ release = NoRelease /\ index = NoIndex /\ last = NoEntry
  \/ \E ha \in Offer : document = Document(NoEntry, ha, "none")
     /\ release \in [answered : BOOLEAN, stable : BOOLEAN, genuine : BOOLEAN, platforms : SUBSET {"amd64", "arm64"},
                     version : Releases, image : {1, 2}]
     /\ private = NoPrivate /\ index = NoIndex /\ last = NoEntry
  \/ \E source \in {"none", "declared", "invalid"} : document = Document(NoEntry, NoEntry, source)
     /\ \E m \in Manifests(1), n \in Manifests(2), direct \in BOOLEAN, answered \in BOOLEAN, genuine \in BOOLEAN :
          \E listed \in IF direct THEN {{m}} ELSE {{}, {m}, {m, n}} :
            index = [NoIndex EXCEPT !.answered = answered, !.genuine = genuine, !.direct = direct,
                                    !.manifests = listed]
     /\ last \in {NoEntry, [version |-> 1, image |-> 3]}
     /\ private = NoPrivate /\ release = NoRelease

-----------------------------------------------------------------------------
(* Two tabs while nothing new is published, or one tab and all releases.   *)
OneRelease ==
  upstream' = upstream /\ \A c \in Clients : req'[c].image \in {NoImage, <<1, 1>>}
OneTab == Cardinality({c \in Clients : req'[c] # Idle}) <= 1

SagasInit ==
  \/ /\ AdmissionInit /\ NoPlan /\ NoCatalog /\ NoSource
     /\ ContainersInit \/ (part \in {"tabs", "releases"} /\ NoSaga)
  \/ /\ AdmissionInit /\ NoSaga
     /\ \/ part = "planner" /\ PlannerInit /\ NoCatalog /\ NoSource
        \/ part = "catalog" /\ CatalogInit /\ NoPlan /\ NoSource
        \/ part = "updates" /\ SourceInit /\ NoPlan /\ NoCatalog
SagasNext ==
  /\ UNCHANGED <<plannerVars, catalogVars>>
  /\ \/ ContainersNext /\ UNCHANGED <<admissionVars, sourceVars>>
     \/ part = "tabs" /\ AdmissionNext /\ OneRelease /\ UNCHANGED <<containerVars, sourceVars>>
     \/ part = "releases" /\ AdmissionNext /\ OneTab /\ UNCHANGED <<containerVars, sourceVars>>
     \/ part = "updates" /\ SourceNext /\ UNCHANGED <<containerVars, admissionVars>>
SagasSpec ==
  SagasInit /\ [][SagasNext]_<<containerVars, sourceVars, admissionVars, plannerVars, catalogVars>>

Interchangeable == Permutations(Clients) \cup Permutations(Jobs)

(* A plan can be carried out, and where one should exist it is found       *)
(* (PlanInstall).                                                          *)
PlansAreSound == part = "planner" => PlanIsSound /\ PlanIsFound

(* What is offered is what was published, or newer, and fits this host     *)
(* (internal/catalog, frigate_catalog.go).                                 *)
CatalogueIsSound == part = "catalog" => CatalogKeepsPublished /\ FrigateFitsHost
==============================================================================
