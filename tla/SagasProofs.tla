------------------------------ MODULE SagasProofs -------------------------------
(***************************************************************************)
(* Proofs about the ways a new release comes into use: the admission of    *)
(* module jobs (ModuleAdmission), for every set of clients, job rows and   *)
(* releases; where Core's updates come from (UpdateSource), for every set  *)
(* of versions and builds and any number of uploads and losses; and the    *)
(* containers (Containers), for any number of images, directories,         *)
(* requests, failures and deaths.                                          *)
(***************************************************************************)
EXTENDS Containers, ModuleAdmission, UpdateSource, FiniteSetTheorems, TLAPS

-----------------------------------------------------------------------------
(* The values a request, a job and the registry's row can have.            *)
RequestPlaces   == {"idle", "submit", "queued", "running", "cancel_requested", "listed", "forwarding"}
Kinds    == ModuleKinds \cup WriteKinds
Pictures == ReleaseImages(1..2) \cup {NoImage}
Request  == [pc : RequestPlaces, kind : Kinds \cup {"", "list"}, image : Pictures, confirmed : Pictures,
             busy : BOOLEAN, found : SUBSET Jobs, known : SUBSET Jobs]
JobRow   == [status : {"none", "queued", "running", "cancel_requested"},
             kind : ModuleKinds \cup {""}, phase : {"", "claimed", "working"},
             image : Pictures, confirmed : Pictures, fresh : BOOLEAN]
RegistryRow   == [status : {"none", "registered", "enabled", "disabled"}, image : Pictures]
Typed ==
  /\ upstream \in [Versions -> 0..2]
  /\ req \in [Clients -> Request] /\ submitMu \in Clients \cup {NoClient}
  /\ job \in [Jobs -> JobRow]
  /\ record \in RegistryRow

(* From its first query to its end a change or a write holds the lock.     *)
Asking == {"running", "cancel_requested", "listed", "forwarding"}
HoldsLock(c) ==
  /\ (req[c].pc \in Asking /\ req[c].kind # "list") => submitMu = c
  /\ req[c].pc = "submit" => req[c].kind \in Kinds
  /\ req[c].pc \in Asking \cup {"queued"} => req[c].kind \in Kinds \cup {"list"}
  /\ req[c].pc = "queued" => req[c].kind = "list"
  /\ req[c].pc = "forwarding" => (req[c].kind \in WriteKinds /\ ~req[c].busy)

(* What its queries did not find is not there: a status that was empty     *)
(* when it was queried stays empty while the lock is held, because jobs    *)
(* only move on to later ones.                                             *)
SeenEmpty(c) ==
  (req[c].pc \in Asking /\ req[c].kind # "list" /\ ~req[c].busy) =>
    \A j \in Jobs :
      /\ job[j].status # "queued"
      /\ req[c].pc # "running" => job[j].status # "running"
      /\ req[c].pc \in {"listed", "forwarding"} => job[j].status # "cancel_requested"

(* What a listing has not found yet will be found by a later query.        *)
WillFind(c) ==
  /\ req[c].kind # "list" => req[c].known = {}
  /\ \A j \in req[c].known \ req[c].found :
       /\ job[j].status \in {"queued", "running", "cancel_requested"}
       /\ req[c].pc \in {"running", "cancel_requested"} => job[j].status # "queued"
       /\ req[c].pc = "cancel_requested" => job[j].status # "running"
       /\ req[c].pc # "listed"

(* What is asked for is what was confirmed.                                *)
AsksConfirmed(c) == req[c].kind \in {"install", "upgrade"} => req[c].image = req[c].confirmed

Active(j) == job[j].status \in {"queued", "running", "cancel_requested"}
AtMostOne == \A i, j \in Jobs : (Active(i) /\ Active(j)) => i = j

(* A job that installs something was confirmed, and what it has verified   *)
(* was official meanwhile.                                                 *)
Confirmed(j) ==
  /\ job[j].kind \in {"install", "upgrade"} => job[j].image = job[j].confirmed
  /\ (job[j].phase = "claimed" /\ job[j].confirmed \in Official) => job[j].fresh
  /\ (job[j].phase = "working" /\ job[j].kind \in {"install", "upgrade"}) => job[j].fresh
  /\ job[j].phase = "" <=> job[j].status \in {"none", "queued"}

OfClient(c) == HoldsLock(c) /\ SeenEmpty(c) /\ WillFind(c) /\ AsksConfirmed(c)
AInv ==
  /\ Typed
  /\ \A c \in Clients : OfClient(c)
  /\ AtMostOne
  /\ \A j \in Jobs : Confirmed(j)

-----------------------------------------------------------------------------
(* A request that moves and leaves rows and registry alone has to be right *)
(* itself; the others stay so, because only it could take or release the   *)
(* lock.                                                                   *)
LEMMA RequestMoves ==
  ASSUME AInv, NEW c \in Clients, RowsStay,
         req' \in [Clients -> Request], \A d \in Clients \ {c} : req'[d] = req[d],
         submitMu' \in Clients \cup {NoClient}, submitMu' # submitMu => submitMu \in {NoClient, c},
         OfClient(c)'
  PROVE  AInv'
<1>1. Typed'
  BY DEF AInv, Typed, RowsStay
<1>2. ASSUME NEW d \in Clients \ {c} PROVE OfClient(d)'
  <2>1. OfClient(d) /\ req'[d] = req[d] /\ job' = job
    BY <1>2 DEF AInv, RowsStay
  <2>2. submitMu = d => submitMu' = d
    BY <1>2, AdmissionAssumption
  <2>3. HoldsLock(d)'
    BY <2>1, <2>2 DEF OfClient, HoldsLock
  <2>4. SeenEmpty(d)'
    BY <2>1 DEF OfClient, SeenEmpty
  <2>5. WillFind(d)' /\ AsksConfirmed(d)'
    BY <2>1 DEF OfClient, WillFind, AsksConfirmed
  <2> QED BY <2>3, <2>4, <2>5 DEF OfClient
<1>3. \A d \in Clients : OfClient(d)'
  BY <1>2
<1>4. AtMostOne' /\ \A j \in Jobs : Confirmed(j)'
  BY DEF AInv, RowsStay, AtMostOne, Active, Confirmed, Official
<1> QED BY <1>1, <1>3, <1>4 DEF AInv

(* An idle request is right.                                               *)
LEMMA IdleIsRight ==
  ASSUME NEW c \in Clients, req'[c] = Idle
  PROVE  OfClient(c)'
<1>1. req'[c].pc = "idle" /\ req'[c].kind = "" /\ req'[c].known = {}
  <2>1. Idle.pc = "idle" /\ Idle.kind = "" /\ Idle.known = {}
    BY DEF Idle
  <2> QED BY <2>1
<1> QED BY <1>1 DEF OfClient, HoldsLock, SeenEmpty, WillFind, AsksConfirmed, Asking

(* An idle request is a request.                                           *)
LEMMA IdleTyped == Idle \in Request
BY DEF Idle, Request, RequestPlaces, Pictures

(* A request that ends.                                                    *)
LEMMA RequestEnds ==
  ASSUME AInv, NEW c \in Clients, RowsStay, Advance(c, Idle),
         submitMu' \in Clients \cup {NoClient}, submitMu' # submitMu => submitMu \in {NoClient, c}
  PROVE  AInv'
<1>1. /\ req' \in [Clients -> Request] /\ req'[c] = Idle
      /\ \A d \in Clients \ {c} : req'[d] = req[d]
  BY IdleTyped DEF AInv, Typed, Advance
<1> QED BY <1>1, IdleIsRight, RequestMoves

(* A request that is asked for.                                            *)
LEMMA AskKeeps ==
  ASSUME AInv, NEW c \in Clients,
         AskForRelease(c) \/ AskManifest(c) \/ AskModule(c) \/ AskWrite(c)
  PROVE  AInv'
<1>1. RowsStay /\ submitMu' = submitMu
  BY DEF AskForRelease, AskManifest, AskModule, AskWrite
<1>2. \E kind \in Kinds, image \in Pictures :
        req' = [req EXCEPT ![c] = [Idle EXCEPT !.pc = "submit", !.kind = kind, !.image = image,
                                               !.confirmed = image]]
  <2>1. CASE AskForRelease(c) \/ AskManifest(c)
    BY <2>1 DEF AskForRelease, AskManifest, Advance, Kinds, ModuleKinds, Pictures, Published,
      Candidate
  <2>2. CASE AskModule(c) \/ AskWrite(c)
    <3>1. PICK kind \in Kinds : Advance(c, [Idle EXCEPT !.pc = "submit", !.kind = kind])
      BY <2>2 DEF AskModule, AskWrite, Kinds, ModuleKinds, WriteKinds
    <3> DEFINE i == [Idle EXCEPT !.pc = "submit", !.kind = kind]
    <3>2. i \in Request /\ i.image = NoImage /\ i.confirmed = NoImage
      BY DEF Idle, Request, RequestPlaces, Pictures
    <3>3. i = [i EXCEPT !.image = NoImage, !.confirmed = NoImage]
      <4> HIDE DEF i
      <4> QED BY <3>2 DEF Request
    <3> QED BY <3>1, <3>3 DEF Advance, Pictures
  <2> QED BY <2>1, <2>2
<1>3. PICK kind \in Kinds, image \in Pictures :
        req' = [req EXCEPT ![c] = [Idle EXCEPT !.pc = "submit", !.kind = kind, !.image = image,
                                               !.confirmed = image]]
  BY <1>2
<1> DEFINE r == [Idle EXCEPT !.pc = "submit", !.kind = kind, !.image = image, !.confirmed = image]
<1>4. /\ r.pc = "submit" /\ r.kind = kind /\ r.image = image /\ r.confirmed = image
      /\ r.known = {} /\ r \in Request
  BY DEF Idle, Request, RequestPlaces
<1>5. req' = [req EXCEPT ![c] = r]
  BY <1>3
<1> HIDE DEF r
<1>6. req' \in [Clients -> Request] /\ req'[c] = r /\ \A d \in Clients \ {c} : req'[d] = req[d]
  BY <1>4, <1>5 DEF AInv, Typed
<1>7. HoldsLock(c)' /\ SeenEmpty(c)'
  BY <1>4, <1>6 DEF HoldsLock, SeenEmpty, Asking
<1>8. WillFind(c)' /\ AsksConfirmed(c)'
  BY <1>4, <1>6 DEF WillFind, AsksConfirmed
<1>9. submitMu' \in Clients \cup {NoClient} /\ submitMu' = submitMu
  BY <1>1 DEF AInv, Typed
<1> QED BY <1>1, <1>6, <1>7, <1>8, <1>9, RequestMoves DEF OfClient

(* moduleOperations begins.                                                *)
LEMMA AskListKeeps ==
  ASSUME AInv, NEW c \in Clients, AskList(c)
  PROVE  AInv'
<1> DEFINE r == [Idle EXCEPT !.pc = "queued", !.kind = "list", !.known = ActiveModuleJobs]
<1>1. /\ r.pc = "queued" /\ r.kind = "list" /\ r.found = {} /\ r.known = ActiveModuleJobs
      /\ r \in Request
  BY DEF Idle, Request, RequestPlaces, Pictures, ActiveModuleJobs, InStatus
<1>2. req' = [req EXCEPT ![c] = r] /\ RowsStay /\ submitMu' = submitMu
  BY DEF AskList, Advance
<1> HIDE DEF r
<1>3. req' \in [Clients -> Request] /\ req'[c] = r /\ \A d \in Clients \ {c} : req'[d] = req[d]
  BY <1>1, <1>2 DEF AInv, Typed
<1>4. HoldsLock(c)' /\ SeenEmpty(c)' /\ AsksConfirmed(c)'
  BY <1>1, <1>3 DEF HoldsLock, SeenEmpty, AsksConfirmed, Asking
<1>5. WillFind(c)'
  BY <1>1, <1>2, <1>3 DEF WillFind, ActiveModuleJobs, InStatus, RowsStay
<1>6. submitMu' \in Clients \cup {NoClient} /\ submitMu' = submitMu
  BY <1>2 DEF AInv, Typed
<1> QED BY <1>2, <1>3, <1>4, <1>5, <1>6, RequestMoves DEF OfClient

(* What a query of activeModuleJobs makes of the request.                  *)
LEMMA ListedIs ==
  ASSUME AInv, NEW c \in Clients, NEW query \in {"queued", "running", "cancel_requested"},
         Listed(c, query)
  PROVE  /\ req' \in [Clients -> Request] /\ \A d \in Clients \ {c} : req'[d] = req[d]
         /\ req'[c].pc = After(query) /\ req'[c].kind = req[c].kind /\ req'[c].known = req[c].known
         /\ req'[c].image = req[c].image /\ req'[c].confirmed = req[c].confirmed
         /\ req[c].kind # "list" => req'[c].busy = (req[c].busy \/ InStatus(query) # {})
         /\ req[c].kind = "list" => req'[c].found = req[c].found \cup InStatus(query)
<1> DEFINE r == [req[c] EXCEPT !.pc = After(query)]
           s == IF req[c].kind = "list" THEN [r EXCEPT !.found = @ \cup InStatus(query)]
                                        ELSE [r EXCEPT !.busy = @ \/ InStatus(query) # {}]
<1>1. req[c] \in Request /\ After(query) \in RequestPlaces
  BY DEF AInv, Typed, After, RequestPlaces
<1>2. req' = [req EXCEPT ![c] = s]
  BY DEF Listed, Advance
<1>3. InStatus(query) \subseteq Jobs
  BY DEF InStatus
<1>4. /\ r \in Request /\ r.pc = After(query) /\ r.kind = req[c].kind /\ r.known = req[c].known
      /\ r.image = req[c].image /\ r.confirmed = req[c].confirmed
      /\ r.busy = req[c].busy /\ r.found = req[c].found
  BY <1>1 DEF Request
<1> HIDE DEF r
<1>5. /\ s \in Request /\ s.pc = r.pc /\ s.kind = r.kind /\ s.known = r.known
      /\ s.image = r.image /\ s.confirmed = r.confirmed
      /\ req[c].kind # "list" => s.busy = (r.busy \/ InStatus(query) # {})
      /\ req[c].kind = "list" => s.found = r.found \cup InStatus(query)
  BY <1>3, <1>4 DEF Request
<1> HIDE DEF s
<1>6. req' \in [Clients -> Request] /\ req'[c] = s /\ \A d \in Clients \ {c} : req'[d] = req[d]
  BY <1>2, <1>5 DEF AInv, Typed
<1> QED BY <1>4, <1>5, <1>6

(* The query that was made found everything in its status; what it did not *)
(* find has moved on to a status still to be queried.                      *)
LEMMA ListedKeeps ==
  ASSUME AInv, NEW c \in Clients, NEW query \in {"queued", "running", "cancel_requested"},
         req[c].pc = query \/ (query = "queued" /\ req[c].pc = "submit" /\ submitMu = NoClient),
         Listed(c, query), RowsStay,
         submitMu' = IF req[c].pc = "submit" THEN c ELSE submitMu
  PROVE  AInv'
<1> DEFINE r == req'[c]
<1>1. /\ req' \in [Clients -> Request] /\ \A d \in Clients \ {c} : req'[d] = req[d]
      /\ r.pc = After(query) /\ r.kind = req[c].kind /\ r.known = req[c].known
      /\ r.image = req[c].image /\ r.confirmed = req[c].confirmed
      /\ req[c].kind # "list" => r.busy = (req[c].busy \/ InStatus(query) # {})
      /\ req[c].kind = "list" => r.found = req[c].found \cup InStatus(query)
  BY ListedIs
<1>2. OfClient(c) /\ req[c] \in Request /\ job' = job /\ job \in [Jobs -> JobRow]
  BY DEF AInv, Typed, RowsStay
<1> HIDE DEF r
<1>3. HoldsLock(c)'
  BY <1>1, <1>2 DEF HoldsLock, OfClient, After, Asking, r
<1>4. SeenEmpty(c)'
  <2> SUFFICES ASSUME req[c].kind # "list", ~req[c].busy, InStatus(query) = {}
               PROVE  SeenEmpty(c)'
    BY <1>1, <1>2 DEF SeenEmpty, Request, r
  <2>1. \A j \in Jobs : job[j].status # query
    BY DEF InStatus
  <2>2. CASE query = "queued"
    BY <1>1, <1>2, <2>1, <2>2 DEF SeenEmpty, After, r
  <2>3. CASE query \in {"running", "cancel_requested"}
    BY <1>1, <1>2, <2>1, <2>3 DEF SeenEmpty, OfClient, After, Asking, r
  <2> QED BY <2>2, <2>3
<1>5. WillFind(c)'
  <2>1. CASE req[c].kind # "list"
    BY <2>1, <1>1, <1>2 DEF WillFind, OfClient, r
  <2>2. CASE req[c].kind = "list"
    BY <2>2, <1>1, <1>2 DEF WillFind, OfClient, HoldsLock, After, InStatus, Kinds, ModuleKinds,
      WriteKinds, Request, r
  <2> QED BY <2>1, <2>2
<1>6. AsksConfirmed(c)'
  BY <1>1, <1>2 DEF AsksConfirmed, OfClient, r
<1>7. submitMu' \in Clients \cup {NoClient} /\ (submitMu' # submitMu => submitMu \in {NoClient, c})
  BY DEF AInv, Typed
<1> QED BY <1>1, <1>3, <1>4, <1>5, <1>6, <1>7, RequestMoves DEF OfClient

(* The second of two requests is refused; the first asks with the lock.    *)
LEMMA AdmitKeeps ==
  ASSUME AInv, NEW c \in Clients, Admit(c)
  PROVE  AInv'
<1>1. CASE submitMu # NoClient
  BY <1>1, RequestEnds DEF Admit, AInv, Typed
<1>2. CASE submitMu = NoClient
  BY <1>2, ListedKeeps DEF Admit
<1> QED BY <1>1, <1>2

(* The second and the third query.                                         *)
LEMMA ListActiveKeeps ==
  ASSUME AInv, NEW c \in Clients, ListActive(c)
  PROVE  AInv'
<1>1. PICK query \in {"queued", "running", "cancel_requested"} : req[c].pc = query
  BY DEF ListActive
<1> QED BY <1>1, ListedKeeps DEF ListActive

(* A listing that fails ends the request and releases its lock.            *)
LEMMA ListRefusedKeeps ==
  ASSUME AInv, NEW c \in Clients, ListRefused(c)
  PROVE  AInv'
BY RequestEnds DEF ListRefused, AInv, Typed

(* A listing that is answered.                                             *)
LEMMA AnswerKeeps ==
  ASSUME AInv, NEW c \in Clients, Answer(c)
  PROVE  AInv'
BY RequestEnds DEF Answer, AInv, Typed

(* A write of Frigate's own begins only after all three queries.           *)
LEMMA ForwardKeeps ==
  ASSUME AInv, NEW c \in Clients, Forward(c) \/ Forwarded(c)
  PROVE  AInv'
<1>1. OfClient(c) /\ req[c] \in Request /\ RowsStay
  BY DEF AInv, Typed, Forward, Forwarded
<1>2. submitMu = c
  BY <1>1 DEF OfClient, HoldsLock, Forward, Forwarded, Asking, WriteKinds
<1>3. CASE Advance(c, Idle) /\ submitMu' = NoClient
  BY <1>1, <1>2, <1>3, RequestEnds
<1>4. CASE /\ To(c, "forwarding") /\ submitMu' = submitMu
           /\ req[c].pc = "listed" /\ req[c].kind \in WriteKinds /\ ~req[c].busy
  <2> DEFINE r == [req[c] EXCEPT !.pc = "forwarding"]
  <2>1. /\ r \in Request /\ r.pc = "forwarding" /\ r.kind = req[c].kind /\ r.known = req[c].known
        /\ r.found = req[c].found /\ r.busy = req[c].busy
        /\ r.image = req[c].image /\ r.confirmed = req[c].confirmed
    BY <1>1 DEF Request, RequestPlaces
  <2>2. req' = [req EXCEPT ![c] = r]
    BY <1>4 DEF To, Advance
  <2> HIDE DEF r
  <2>3. req' \in [Clients -> Request] /\ req'[c] = r /\ \A d \in Clients \ {c} : req'[d] = req[d]
    BY <2>1, <2>2 DEF AInv, Typed
  <2>4. HoldsLock(c)' /\ WillFind(c)' /\ AsksConfirmed(c)'
    BY <1>1, <1>2, <1>4, <2>1, <2>3 DEF OfClient, HoldsLock, WillFind, AsksConfirmed, Kinds,
      WriteKinds
  <2>5. SeenEmpty(c)'
    BY <1>1, <1>4, <2>1, <2>3 DEF OfClient, SeenEmpty, Asking, WriteKinds, RowsStay
  <2>6. submitMu' \in Clients \cup {NoClient} /\ (submitMu' # submitMu => submitMu \in {NoClient, c})
    BY <1>4 DEF AInv, Typed
  <2> QED BY <1>1, <2>3, <2>4, <2>5, <2>6, RequestMoves DEF OfClient
<1> QED BY <1>3, <1>4 DEF Forward, Forwarded

-----------------------------------------------------------------------------
(* The request that submits holds the lock and has seen no active job: the *)
(* new one is alone, and no other request holds the lock beside it.        *)
LEMMA SubmitKeeps ==
  ASSUME AInv, NEW c \in Clients, Submit(c)
  PROVE  AInv'
<1>1. /\ OfClient(c) /\ req[c] \in Request
      /\ job \in [Jobs -> JobRow] /\ req \in [Clients -> Request]
      /\ upstream' = upstream /\ record' = record /\ Advance(c, Idle) /\ submitMu' = NoClient
      /\ req[c].pc = "listed" /\ req[c].kind \in ModuleKinds
  BY DEF AInv, Typed, Submit
<1>2. submitMu = c
  BY <1>1 DEF OfClient, HoldsLock, Asking, ModuleKinds
<1>3. /\ req' \in [Clients -> Request] /\ req'[c] = Idle
      /\ \A d \in Clients \ {c} : req'[d] = req[d]
  BY <1>1, IdleTyped DEF Advance
<1>4. CASE job' = job
  BY <1>1, <1>2, <1>3, <1>4, IdleIsRight, RequestMoves DEF RowsStay
<1>5. ASSUME NEW j \in Jobs, New(j), ~req[c].busy,
             job' = [job EXCEPT ![j] = [NoJob EXCEPT !.status = "queued", !.kind = req[c].kind,
                                                     !.image = req[c].image,
                                                     !.confirmed = req[c].confirmed]]
      PROVE  AInv'
  <2> DEFINE r == [NoJob EXCEPT !.status = "queued", !.kind = req[c].kind, !.image = req[c].image,
                                !.confirmed = req[c].confirmed]
  <2>1. /\ r \in JobRow /\ r.status = "queued" /\ r.kind = req[c].kind /\ r.image = req[c].image
        /\ r.confirmed = req[c].confirmed /\ r.phase = ""
    BY <1>1 DEF NoJob, JobRow, Request, Pictures
  <2>2. job' = [job EXCEPT ![j] = r]
    BY <1>5
  <2> HIDE DEF r
  <2>3. job' \in [Jobs -> JobRow] /\ job'[j] = r /\ \A i \in Jobs \ {j} : job'[i] = job[i]
    BY <1>1, <2>1, <2>2
  <2>4. Typed'
    BY <1>1, <1>3, <2>3 DEF AInv, Typed
  <2>5. \A i \in Jobs : ~Active(i)
    BY <1>1, <1>5 DEF OfClient, SeenEmpty, Asking, Active, ModuleKinds
  <2>6. AtMostOne'
    BY <2>3, <2>5 DEF AtMostOne, Active
  <2>7. ASSUME NEW i \in Jobs PROVE Confirmed(i)'
    <3>1. CASE i = j
      BY <3>1, <1>1, <2>1, <2>3 DEF Confirmed, OfClient, AsksConfirmed
    <3>2. CASE i # j
      <4>1. job'[i] = job[i] /\ Confirmed(i) /\ Official' = Official
        BY <3>2, <1>1, <2>3 DEF AInv, Official
      <4> QED BY <4>1 DEF Confirmed
    <3> QED BY <3>1, <3>2
  <2>8. ASSUME NEW d \in Clients PROVE OfClient(d)'
    <3>1. CASE d = c
      BY <3>1, <1>3, IdleIsRight
    <3>2. CASE d # c
      <4>1. req'[d] = req[d] /\ OfClient(d) /\ req[d] \in Request
        BY <3>2, <1>1, <1>3 DEF AInv
      <4>2. req[d].pc \in Asking => req[d].kind = "list"
        BY <4>1, <3>2, <1>2 DEF OfClient, HoldsLock
      <4>3. HoldsLock(d)' /\ AsksConfirmed(d)' /\ SeenEmpty(d)'
        BY <4>1, <4>2 DEF OfClient, HoldsLock, AsksConfirmed, SeenEmpty
      <4>4. req[d].known \ req[d].found = {}
        BY <4>1, <2>5 DEF OfClient, WillFind, Active, Request
      <4>5. WillFind(d)'
        BY <4>1, <4>4 DEF OfClient, WillFind
      <4> QED BY <4>3, <4>5 DEF OfClient
    <3> QED BY <3>1, <3>2
  <2> QED BY <2>4, <2>6, <2>7, <2>8 DEF AInv
<1> QED BY <1>4, <1>5 DEF Submit

-----------------------------------------------------------------------------
(* A job that moves on, to a later status or none, is right for every      *)
(* request when those that list it forget it when it has ended.            *)
LEMMA JobMoves ==
  ASSUME AInv, NEW j \in Jobs, Typed', Confirmed(j)', upstream' = upstream, submitMu' = submitMu,
         \A i \in Jobs \ {j} : job'[i] = job[i],
         job[j].status # "none",
         \/ job'[j].status = job[j].status
         \/ job[j].status = "queued" /\ job'[j].status = "running"
         \/ job[j].status = "running" /\ job'[j].status = "cancel_requested"
         \/ job'[j].status = "none",
         \A c \in Clients :
           /\ req'[c].pc = req[c].pc /\ req'[c].kind = req[c].kind /\ req'[c].busy = req[c].busy
           /\ req'[c].image = req[c].image /\ req'[c].confirmed = req[c].confirmed
           /\ req'[c].found = req[c].found /\ req'[c].known \subseteq req[c].known
           /\ job'[j].status = "none" => j \notin req'[c].known
  PROVE  AInv'
<1>1. AtMostOne'
  BY DEF AInv, AtMostOne, Active
<1>2. ASSUME NEW i \in Jobs PROVE Confirmed(i)'
  <2>1. CASE i # j
    <3>1. job'[i] = job[i] /\ Confirmed(i) /\ Official' = Official
      BY <2>1 DEF AInv, Official
    <3> QED BY <3>1 DEF Confirmed
  <2> QED BY <2>1
<1>3. ASSUME NEW c \in Clients PROVE OfClient(c)'
  <2>1. OfClient(c)
    BY DEF AInv
  <2>2. HoldsLock(c)'
    BY <2>1 DEF OfClient, HoldsLock
  <2>3. SeenEmpty(c)'
    <3> SUFFICES ASSUME req[c].pc \in Asking, req[c].kind # "list", ~req[c].busy, NEW i \in Jobs
                 PROVE  /\ job'[i].status # "queued"
                        /\ req[c].pc # "running" => job'[i].status # "running"
                        /\ req[c].pc \in {"listed", "forwarding"} => job'[i].status # "cancel_requested"
      BY DEF SeenEmpty
    <3>1. /\ job[i].status # "queued"
          /\ req[c].pc # "running" => job[i].status # "running"
          /\ req[c].pc \in {"listed", "forwarding"} => job[i].status # "cancel_requested"
      BY <2>1 DEF OfClient, SeenEmpty
    <3>2. CASE i = j
      BY <3>1, <3>2 DEF Asking
    <3>3. CASE i # j
      BY <3>1, <3>3
    <3> QED BY <3>2, <3>3
  <2>4. WillFind(c)'
    <3>1. req[c].kind # "list" => req'[c].known = {}
      BY <2>1 DEF OfClient, WillFind
    <3>2. ASSUME NEW i \in req'[c].known \ req'[c].found
          PROVE  /\ job'[i].status \in {"queued", "running", "cancel_requested"}
                 /\ req[c].pc \in {"running", "cancel_requested"} => job'[i].status # "queued"
                 /\ req[c].pc = "cancel_requested" => job'[i].status # "running"
                 /\ req[c].pc # "listed"
      <4>1. /\ job[i].status \in {"queued", "running", "cancel_requested"}
            /\ req[c].pc \in {"running", "cancel_requested"} => job[i].status # "queued"
            /\ req[c].pc = "cancel_requested" => job[i].status # "running"
            /\ req[c].pc # "listed"
        BY <2>1 DEF OfClient, WillFind
      <4>2. i \in Jobs
        BY DEF Typed, Request
      <4>3. CASE i = j
        BY <4>1, <4>3, <3>2
      <4>4. CASE i # j
        BY <4>1, <4>2, <4>4
      <4> QED BY <4>3, <4>4
    <3> QED BY <3>1, <3>2 DEF WillFind
  <2>5. AsksConfirmed(c)'
    BY <2>1 DEF OfClient, AsksConfirmed
  <2> QED BY <2>2, <2>3, <2>4, <2>5 DEF OfClient
<1> QED BY <1>1, <1>2, <1>3 DEF AInv


(* The end of a job.                                                       *)
LEMMA EndKeeps ==
  ASSUME AInv, NEW j \in Jobs, job[j].status # "none", End(j), record' \in RegistryRow
  PROVE  AInv'
<1>1. NoJob \in JobRow /\ NoJob.status = "none" /\ NoJob.phase = "" /\ NoJob.kind = ""
  BY DEF NoJob, JobRow, Pictures
<1>2. /\ job' \in [Jobs -> JobRow] /\ job'[j] = NoJob /\ \A i \in Jobs \ {j} : job'[i] = job[i]
      /\ upstream' = upstream /\ submitMu' = submitMu
  BY <1>1 DEF End, Becomes, AInv, Typed
<1>3. req' \in [Clients -> Request]
  <2>1. ASSUME NEW c \in Clients PROVE [req[c] EXCEPT !.known = @ \ {j}] \in Request
    BY DEF AInv, Typed, Request
  <2> QED BY <2>1 DEF End
<1>4. ASSUME NEW c \in Clients
      PROVE  /\ req'[c].pc = req[c].pc /\ req'[c].kind = req[c].kind /\ req'[c].busy = req[c].busy
             /\ req'[c].image = req[c].image /\ req'[c].confirmed = req[c].confirmed
             /\ req'[c].found = req[c].found /\ req'[c].known = req[c].known \ {j}
  <2>1. req'[c] = [req[c] EXCEPT !.known = @ \ {j}] /\ req[c] \in Request
    BY DEF End, AInv, Typed
  <2> QED BY <2>1 DEF Request
<1>5. Typed'
  BY <1>2, <1>3 DEF AInv, Typed
<1>6. Confirmed(j)'
  BY <1>1, <1>2 DEF Confirmed
<1>7. \A c \in Clients :
           /\ req'[c].pc = req[c].pc /\ req'[c].kind = req[c].kind /\ req'[c].busy = req[c].busy
           /\ req'[c].image = req[c].image /\ req'[c].confirmed = req[c].confirmed
           /\ req'[c].found = req[c].found /\ req'[c].known \subseteq req[c].known
           /\ job'[j].status = "none" => j \notin req'[c].known
  BY <1>4
<1> QED BY <1>1, <1>2, <1>5, <1>6, <1>7, JobMoves

(* A job that moves on without ending.                                     *)
LEMMA StaysKeeps ==
  ASSUME AInv, NEW j \in Jobs, Served, job' \in [Jobs -> JobRow], record' \in RegistryRow,
         \A i \in Jobs \ {j} : job'[i] = job[i],
         Confirmed(j)', job[j].status # "none",
         \/ job'[j].status = job[j].status
         \/ job[j].status = "queued" /\ job'[j].status = "running"
         \/ job[j].status = "running" /\ job'[j].status = "cancel_requested"
  PROVE  AInv'
<1>1. Typed'
  BY DEF AInv, Typed, Served
<1>2. job'[j].status # "none"
  OBVIOUS
<1> QED BY <1>1, <1>2, JobMoves DEF Served

(* A worker takes a queued job.                                            *)
LEMMA ClaimKeeps ==
  ASSUME AInv, NEW j \in Jobs, Claim(j)
  PROVE  AInv'
<1> DEFINE phase == IF job[j].kind = "other" THEN "working" ELSE "claimed"
           approved == job[j].confirmed \in Official
           r == [job[j] EXCEPT !.status = "running", !.phase = phase, !.fresh = approved]
<1>1. job[j] \in JobRow /\ job \in [Jobs -> JobRow] /\ Confirmed(j) /\ job[j].status = "queued"
  BY DEF AInv, Typed, Claim
<1>2. /\ r \in JobRow /\ r.status = "running" /\ r.kind = job[j].kind
      /\ r.image = job[j].image /\ r.confirmed = job[j].confirmed
      /\ r.phase = phase /\ r.fresh = approved
  <2>1. phase \in {"", "claimed", "working"} /\ approved \in BOOLEAN
    OBVIOUS
  <2> HIDE DEF phase, approved
  <2> QED BY <1>1, <2>1 DEF JobRow
<1>3. job' = [job EXCEPT ![j] = r] /\ Served /\ record' = record
  BY DEF Claim, Becomes
<1> HIDE DEF r
<1>4. job' \in [Jobs -> JobRow] /\ job'[j] = r /\ \A i \in Jobs \ {j} : job'[i] = job[i]
  BY <1>1, <1>2, <1>3
<1>5. Official' = Official
  BY <1>3 DEF Official, Served
<1>6. Confirmed(j)'
  BY <1>1, <1>2, <1>4, <1>5 DEF Confirmed
<1>7. record' \in RegistryRow
  BY <1>3 DEF AInv, Typed
<1> QED BY <1>1, <1>2, <1>3, <1>4, <1>6, <1>7, StaysKeeps

(* A queued job ends, a running one is asked to.                           *)
LEMMA CancelKeeps ==
  ASSUME AInv, NEW j \in Jobs, Cancel(j)
  PROVE  AInv'
<1>1. /\ record' = record /\ record' \in RegistryRow
      /\ job[j] \in JobRow /\ job \in [Jobs -> JobRow] /\ Confirmed(j)
  BY DEF AInv, Typed, Cancel
<1>2. CASE job[j].status = "queued" /\ End(j)
  BY <1>1, <1>2, EndKeeps
<1>3. CASE /\ job[j].status = "running" /\ Served
           /\ Becomes(j, [job[j] EXCEPT !.status = "cancel_requested"])
  <2> DEFINE r == [job[j] EXCEPT !.status = "cancel_requested"]
  <2>1. /\ r \in JobRow /\ r.status = "cancel_requested" /\ r.kind = job[j].kind
        /\ r.image = job[j].image /\ r.confirmed = job[j].confirmed
        /\ r.phase = job[j].phase /\ r.fresh = job[j].fresh
    BY <1>1 DEF JobRow
  <2>2. job' = [job EXCEPT ![j] = r]
    BY <1>3 DEF Becomes
  <2> HIDE DEF r
  <2>3. job' \in [Jobs -> JobRow] /\ job'[j] = r /\ \A i \in Jobs \ {j} : job'[i] = job[i]
    BY <1>1, <2>1, <2>2
  <2>4. Official' = Official
    BY <1>3 DEF Official, Served
  <2>5. Confirmed(j)'
    BY <1>1, <1>3, <2>1, <2>3, <2>4 DEF Confirmed
  <2> QED BY <1>1, <1>3, <2>1, <2>3, <2>5, StaysKeeps
<1> QED BY <1>2, <1>3 DEF Cancel

(* The check of the official release comes before the work.                *)
LEMMA VerifyKeeps ==
  ASSUME AInv, NEW j \in Jobs, VerifyJob(j)
  PROVE  AInv'
<1> DEFINE r == [job[j] EXCEPT !.phase = "working"]
<1>1. job[j] \in JobRow /\ job \in [Jobs -> JobRow] /\ Confirmed(j) /\ job[j].phase = "claimed"
  BY DEF AInv, Typed, VerifyJob
<1>2. /\ r \in JobRow /\ r.status = job[j].status /\ r.kind = job[j].kind
      /\ r.image = job[j].image /\ r.confirmed = job[j].confirmed
      /\ r.phase = "working" /\ r.fresh = job[j].fresh
  BY <1>1 DEF JobRow
<1>3. job' = [job EXCEPT ![j] = r] /\ Served
  BY DEF VerifyJob, Becomes
<1> HIDE DEF r
<1>4. job' \in [Jobs -> JobRow] /\ job'[j] = r /\ \A i \in Jobs \ {j} : job'[i] = job[i]
  BY <1>1, <1>2, <1>3
<1>5. job[j].kind \in {"install", "upgrade"} => job[j].fresh
  BY <1>1 DEF VerifyJob, Allowed, Confirmed
<1>6. Confirmed(j)'
  BY <1>1, <1>2, <1>4, <1>5 DEF Confirmed
<1>7. record' \in RegistryRow
  BY <1>1 DEF VerifyJob, RegistryRow, JobRow, AInv, Typed
<1>8. job[j].status # "none"
  BY <1>1 DEF Confirmed
<1> QED BY <1>1, <1>2, <1>3, <1>4, <1>6, <1>7, <1>8, StaysKeeps

(* A job that fails or is cancelled.                                       *)
LEMMA FailKeeps ==
  ASSUME AInv, NEW j \in Jobs, FailJob(j)
  PROVE  AInv'
<1>1. job[j].status # "none"
  BY DEF AInv, Confirmed, FailJob
<1> QED BY <1>1, EndKeeps DEF FailJob, AInv, Typed

(* A job that has had its effect.                                          *)
LEMMA CompleteKeeps ==
  ASSUME AInv, NEW j \in Jobs, Complete(j)
  PROVE  AInv'
<1>1. job[j].status # "none"
  BY DEF AInv, Confirmed, Complete
<1>2. Effect(j) \in RegistryRow
  BY DEF Effect, RegistryRow, AInv, Typed, JobRow, Pictures
<1> QED BY <1>1, <1>2, EndKeeps DEF Complete

-----------------------------------------------------------------------------
(* A release: a job that was confirmed with this picture becomes fresh.    *)
LEMMA PublishKeeps ==
  ASSUME AInv, Publish
  PROVE  AInv'
<1>1. PICK v \in Versions :
        /\ upstream[v] < 2
        /\ upstream' = [upstream EXCEPT ![v] = @ + 1]
        /\ job' = [j \in Jobs |->
                     IF job[j].phase = "claimed" /\ job[j].confirmed = <<v, upstream[v] + 1>>
                     THEN [job[j] EXCEPT !.fresh = TRUE] ELSE job[j]]
  BY DEF Publish
<1>2. upstream' \in [Versions -> 0..2] /\ UNCHANGED <<req, submitMu, record>>
  BY <1>1 DEF AInv, Typed, Publish
<1>3. ASSUME NEW j \in Jobs
      PROVE  /\ job'[j] \in JobRow
             /\ job'[j].status = job[j].status /\ job'[j].kind = job[j].kind
             /\ job'[j].phase = job[j].phase /\ job'[j].image = job[j].image
             /\ job'[j].confirmed = job[j].confirmed
             /\ job[j].fresh => job'[j].fresh
             /\ (job[j].phase = "claimed" /\ job[j].confirmed = <<v, upstream[v] + 1>>)
                  => job'[j].fresh
  BY <1>1 DEF AInv, Typed, JobRow
<1>4. Typed'
  <2>1. job' \in [Jobs -> JobRow]
    BY <1>1, <1>3
  <2> QED BY <1>2, <2>1 DEF AInv, Typed
<1>5. Official' \subseteq Official \cup {<<v, upstream[v] + 1>>}
  BY <1>1 DEF Official, AInv, Typed
<1>6. ASSUME NEW j \in Jobs PROVE Confirmed(j)'
  <2>1. Confirmed(j)
    BY DEF AInv
  <2>2. (job'[j].phase = "claimed" /\ job'[j].confirmed \in Official') => job'[j].fresh
    BY <1>3, <1>5, <2>1 DEF Confirmed
  <2>3. (job[j].phase = "working" /\ job[j].kind \in {"install", "upgrade"}) => job'[j].fresh
    BY <1>3, <2>1 DEF Confirmed
  <2> QED BY <1>3, <2>1, <2>2, <2>3 DEF Confirmed
<1>7. AtMostOne'
  BY <1>3 DEF AInv, AtMostOne, Active
<1>8. ASSUME NEW c \in Clients PROVE OfClient(c)'
  <2>1. OfClient(c) /\ req'[c] = req[c] /\ req[c].known \subseteq Jobs
    BY <1>2 DEF AInv, Typed, Request
  <2>2. HoldsLock(c)' /\ AsksConfirmed(c)'
    BY <1>2, <2>1 DEF OfClient, HoldsLock, AsksConfirmed
  <2>3. SeenEmpty(c)'
    BY <1>3, <2>1 DEF OfClient, SeenEmpty
  <2>4. WillFind(c)'
    BY <1>3, <2>1 DEF OfClient, WillFind
  <2> QED BY <2>2, <2>3, <2>4 DEF OfClient
<1> QED BY <1>4, <1>6, <1>7, <1>8 DEF AInv

(* After a restart nobody asks, and only what was active can be queued.    *)
LEMMA RestartKeeps ==
  ASSUME AInv, CoreRestarts
  PROVE  AInv'
<1>1. ASSUME NEW j \in Jobs
      PROVE  /\ job'[j] \in JobRow
             /\ job'[j].status \in {"queued", "running", "cancel_requested"} => Active(j)
             /\ Confirmed(j)'
  <2>1. job'[j] = Interrupted(j) /\ job[j] \in JobRow /\ Confirmed(j) /\ Official' = Official
    BY DEF CoreRestarts, AInv, Typed, Official
  <2>2. CASE job[j].status = "running" /\ job[j].kind = "install"
    <3>1. /\ job'[j] \in JobRow /\ job'[j].status = "queued" /\ job'[j].phase = ""
          /\ job'[j].kind = job[j].kind /\ job'[j].image = job[j].image
          /\ job'[j].confirmed = job[j].confirmed
      BY <2>1, <2>2 DEF Interrupted, JobRow
    <3> QED BY <2>1, <2>2, <3>1 DEF Active, Confirmed
  <2>3. CASE /\ ~(job[j].status = "running" /\ job[j].kind = "install")
             /\ job[j].status \in {"running", "cancel_requested"}
    <3>1. /\ job'[j] = NoJob /\ NoJob \in JobRow
          /\ NoJob.status = "none" /\ NoJob.phase = "" /\ NoJob.kind = ""
      BY <2>1, <2>3 DEF Interrupted, NoJob, JobRow, Pictures
    <3> QED BY <2>3, <3>1 DEF Active, Confirmed
  <2>4. CASE job[j].status \notin {"running", "cancel_requested"}
    <3>1. job'[j] = job[j]
      BY <2>1, <2>4 DEF Interrupted
    <3> QED BY <2>1, <3>1 DEF Active, Confirmed
  <2> QED BY <2>2, <2>3, <2>4
<1>2. job' \in [Jobs -> JobRow] /\ req' = [c \in Clients |-> Idle]
  <2>1. job' = [j \in Jobs |-> Interrupted(j)] /\ req' = [c \in Clients |-> Idle]
    BY DEF CoreRestarts
  <2>2. \A j \in Jobs : job'[j] \in JobRow
    BY <1>1
  <2>3. \A j \in Jobs : Interrupted(j) \in JobRow
    BY <2>1, <2>2
  <2> QED BY <2>1, <2>3
<1>3. Typed'
  BY <1>2, IdleTyped DEF AInv, Typed, CoreRestarts
<1>4. AtMostOne'
  BY <1>1 DEF AInv, AtMostOne, Active
<1>5. ASSUME NEW c \in Clients PROVE OfClient(c)'
  BY <1>2, IdleIsRight
<1> QED BY <1>1, <1>3, <1>4, <1>5 DEF AInv

-----------------------------------------------------------------------------
(* AInv is inductive.                                                      *)
LEMMA AInvInit == AdmissionInit => AInv
<1> SUFFICES ASSUME AdmissionInit PROVE AInv
  OBVIOUS
<1>1. NoJob \in JobRow /\ NoJob.status = "none" /\ NoJob.phase = "" /\ NoJob.kind = ""
  BY DEF NoJob, JobRow, Pictures
<1>2. Typed
  <2>1. job \in [Jobs -> JobRow] /\ req \in [Clients -> Request]
    BY <1>1, IdleTyped DEF AdmissionInit
  <2>2. upstream \in [Versions -> 0..2] /\ submitMu = NoClient /\ record \in RegistryRow
    BY DEF AdmissionInit, RegistryRow, Pictures
  <2> QED BY <2>1, <2>2 DEF Typed
<1>3. ASSUME NEW c \in Clients PROVE OfClient(c)
  <2>1. req[c].pc = "idle" /\ req[c].kind = "" /\ req[c].known = {}
    <3>1. Idle.pc = "idle" /\ Idle.kind = "" /\ Idle.known = {}
      BY DEF Idle
    <3> QED BY <3>1 DEF AdmissionInit
  <2> QED BY <2>1 DEF OfClient, HoldsLock, SeenEmpty, WillFind, AsksConfirmed, Asking
<1>4. AtMostOne /\ \A j \in Jobs : Confirmed(j)
  BY <1>1 DEF AdmissionInit, AtMostOne, Active, Confirmed
<1> QED BY <1>2, <1>3, <1>4 DEF AInv

(* Every step of the admission keeps AInv.                                 *)
LEMMA AInvNext == AInv /\ [AdmissionNext]_admissionVars => AInv'
<1> SUFFICES ASSUME AInv, [AdmissionNext]_admissionVars PROVE AInv'
  OBVIOUS
<1>1. CASE UNCHANGED admissionVars
  <2>1. /\ upstream' = upstream /\ req' = req /\ submitMu' = submitMu /\ job' = job
        /\ record' = record
    BY <1>1 DEF admissionVars
  <2>2. Typed' /\ AtMostOne'
    BY <2>1 DEF AInv, Typed, AtMostOne, Active
  <2>3. \A j \in Jobs : Confirmed(j)'
    BY <2>1 DEF AInv, Confirmed, Official
  <2>4. ASSUME NEW c \in Clients PROVE OfClient(c)'
    <3>1. OfClient(c)
      BY DEF AInv
    <3> QED BY <2>1, <3>1 DEF OfClient, HoldsLock, SeenEmpty, WillFind, AsksConfirmed
  <2> QED BY <2>2, <2>3, <2>4 DEF AInv
<1>2. CASE Publish \/ CoreRestarts
  BY <1>2, PublishKeeps, RestartKeeps
<1>3. ASSUME NEW c \in Clients,
             \/ AskForRelease(c) \/ AskManifest(c) \/ AskModule(c) \/ AskWrite(c) \/ AskList(c)
             \/ Admit(c) \/ ListActive(c) \/ ListRefused(c) \/ Submit(c) \/ Forward(c)
             \/ Forwarded(c) \/ Answer(c)
      PROVE  AInv'
  BY <1>3, AskKeeps, AskListKeeps, AdmitKeeps, ListActiveKeeps, ListRefusedKeeps, SubmitKeeps,
    ForwardKeeps, AnswerKeeps
<1>4. ASSUME NEW j \in Jobs,
             Claim(j) \/ Cancel(j) \/ VerifyJob(j) \/ FailJob(j) \/ Complete(j)
      PROVE  AInv'
  BY <1>4, ClaimKeeps, CancelKeeps, VerifyKeeps, FailKeeps, CompleteKeeps
<1> QED BY <1>1, <1>2, <1>3, <1>4 DEF AdmissionNext

(* The inductive invariant holds in every behaviour of the admission, for  *)
(* any set of requests, job rows and releases (module_runtime.go).         *)
THEOREM AdmissionKept == AdmissionSpec => []AInv
BY AInvInit, AInvNext, PTL DEF AdmissionSpec

(* There is never more than one module job, Frigate's own writes run       *)
(* beside none, and no listing of the running operations misses one        *)
(* (submitModuleJob, activeModuleJobs, serveFrigateUI).                    *)
THEOREM OneAtATime == AdmissionSpec => []AdmissionIsExclusive
<1>1. AInv => OneModuleJob
  <2> SUFFICES ASSUME AInv PROVE Cardinality(ActiveModuleJobs) <= 1
    BY DEF OneModuleJob
  <2>1. ActiveModuleJobs \subseteq Jobs /\ \A j \in ActiveModuleJobs : Active(j)
    BY DEF ActiveModuleJobs, InStatus, Active
  <2>2. CASE ActiveModuleJobs = {}
    BY <2>2, FS_EmptySet
  <2>3. ASSUME NEW j \in ActiveModuleJobs PROVE Cardinality(ActiveModuleJobs) <= 1
    <3>1. ActiveModuleJobs = {j}
      BY <2>1 DEF AInv, AtMostOne
    <3> QED BY <3>1, FS_Singleton
  <2> QED BY <2>2, <2>3
<1>2. AInv => NativeWriteAlone
  <2> SUFFICES ASSUME AInv, NEW c \in Clients, req[c].pc = "forwarding" PROVE ActiveModuleJobs = {}
    BY DEF NativeWriteAlone
  <2>1. \A j \in Jobs : job[j].status \notin {"queued", "running", "cancel_requested"}
    BY DEF AInv, OfClient, HoldsLock, SeenEmpty, Asking, WriteKinds
  <2> QED BY <2>1 DEF ActiveModuleJobs, InStatus
<1>3. AInv => ListingIsComplete
  BY DEF AInv, OfClient, WillFind, ListingIsComplete
<1> QED BY <1>1, <1>2, <1>3, AdmissionKept, PTL DEF AdmissionIsExclusive

(* The registry takes an image only from a job whose operator confirmed it *)
(* and that saw it official while it was at work (queueFrigateMutation,    *)
(* verifyOfficialFrigate).                                                 *)
THEOREM OnlyApproved == AdmissionSpec => InstalledWasApproved
<1>1. ASSUME AInv, [AdmissionNext]_admissionVars,
             record'.image # record.image, record'.image # NoImage
      PROVE  \E j \in Jobs : job[j].confirmed = record'.image /\ job[j].fresh
  <2>1. PICK j \in Jobs : VerifyJob(j) \/ Complete(j)
    BY <1>1 DEF AdmissionNext, admissionVars, Publish, CoreRestarts, AskForRelease,
      AskManifest, AskModule, AskWrite, AskList, Admit, ListActive, ListRefused, Submit,
      Forward, Forwarded, Answer, RowsStay, Claim, Cancel, FailJob
  <2>2. Confirmed(j) /\ record \in RegistryRow
    BY <1>1 DEF AInv, Typed
  <2>3. CASE VerifyJob(j)
    <3>1. job[j].kind = "install" /\ record'.image = job[j].image
      BY <1>1, <2>3 DEF VerifyJob
    <3>2. job[j].image \in Official /\ job[j].phase = "claimed"
      BY <2>3, <3>1 DEF VerifyJob, Allowed
    <3> QED BY <2>2, <3>1, <3>2 DEF Confirmed
  <2>4. CASE Complete(j)
    <3>1. record' = Effect(j) /\ job[j].phase = "working"
      BY <2>4 DEF Complete
    <3>2. job[j].kind \in {"install", "upgrade"} /\ record'.image = job[j].image
      BY <1>1, <2>2, <3>1 DEF Effect, RegistryRow
    <3> QED BY <2>2, <3>1, <3>2 DEF Confirmed
  <2> QED BY <2>1, <2>3, <2>4
<1> QED BY <1>1, AdmissionKept, PTL DEF AdmissionSpec, InstalledWasApproved

-----------------------------------------------------------------------------
(***************************************************************************)
(* Where Core's updates come from.                                         *)
(***************************************************************************)

(* Every answer, remembered or written down, is newer than the version of  *)
(* Core that wrote it.                                                     *)
AnswersAreNewer == offerFile.version # 0 => offerFile.version > offerFile.current

(* What Core does and what state.json says of it, unless that could not be *)
(* written.                                                                *)
FileIsState == ~unsaved => stateFile.phase = core.phase /\ stateFile.version = core.offered

(* Whatever is under way or ready is of a version, also when it is read    *)
(* back from the file, and the phase says that it is under way.            *)
Underway == {"downloading", "installing", "rolling_back"}
WorkHasVersion ==
  /\ core.step # "idle" => core.phase \in Underway /\ core.offered # 0
  /\ core.phase = "ready" => core.offered # 0
  /\ stateFile.phase = "ready" => stateFile.version # 0
  /\ core.step = "handed back" => kept.version # 0 /\ core.offered = kept.version

(* What runs and what the helper keeps was verified by the helper.         *)
BuildsFit == build \notin unfit /\ kept.build \notin unfit

(* What the steps of a download have established of the files.             *)
AfterArchive   == {"saving checksum", "saving signature", "clearing", "extracting", "verifying"}
AfterSignature == {"clearing", "extracting", "verifying"}
Transfers      == {"checksum", "signature", "archive"} \cup AfterArchive
FetchedBy(c, f) ==
  /\ c.step \in Transfers \ {"checksum"} => c.hash # 0
  /\ c.step \in AfterArchive => f.archive = c.hash
  /\ c.step \in AfterArchive \ {"saving checksum"} => f.sum = c.hash
  /\ c.step \in AfterSignature => f.sig = c.hash
Fetched == FetchedBy(core, Files)

SourceInv ==
  SourceTypeOK /\ OfferIsNewer /\ AnswersAreNewer /\ FileIsState /\ WorkHasVersion /\ Fetched
    /\ ReadyIsOneBuild /\ BuildsFit

-----------------------------------------------------------------------------
(* The highest of some versions is one of them.                            *)
LEMMA HighestIn ==
  ASSUME NEW S \in SUBSET CoreVersions
  PROVE  Highest(S) \in S \/ Highest(S) = 0
<1>1. CASE S = {}
  BY <1>1 DEF Highest
<1>2. CASE S # {}
  <2>1. \E v \in S : \A w \in S : w <= v
    BY <1>2, SourceAssumption
  <2>. QED
    BY <1>2, <2>1 DEF Highest
<1>. QED
  BY <1>1, <1>2

(* findCandidate finds nothing, or a later version, and the one wanted.    *)
LEMMA CandidateIsLater ==
  ASSUME SourceTypeOK, NEW wanted \in CoreVersions \cup {0}, NEW source \in Sources
  PROVE  LET v == FindCandidate(wanted, source) IN
           v # 0 => v \in CoreVersions /\ v > core.version /\ wanted \in {0, v}
<1>. DEFINE R == {v \in CoreVersions : Later(v) /\ wanted \in {0, v} /\ \A a \in Assets : shelf[v][a] # 0}
            V == {v \in {named} : Later(v) /\ wanted \in {0, v} /\ \A a \in {"sum", "sig"} : shelf[v][a] # 0}
<1>1. R \subseteq CoreVersions /\ V \subseteq CoreVersions
  BY DEF SourceTypeOK
<1>2. (Highest(R) \in R \/ Highest(R) = 0) /\ (Highest(V) \in V \/ Highest(V) = 0)
  BY <1>1, HighestIn
<1>. QED
  BY <1>1, <1>2 DEF FindCandidate, FromReleases, FromVersion, Later

(* setState writes what is now in memory, or is noted not to.              *)
LEMMA Setting ==
  ASSUME NEW c, FileIsState, unsaved \in BOOLEAN, SetCore(c)
  PROVE  /\ core' = c
         /\ unsaved' \in {unsaved, TRUE}
         /\ FileIsState'
         /\ stateFile' \in {stateFile, [phase |-> c.phase, version |-> c.offered]}
<1>1. core' = c
  BY DEF SetCore
<1>2. CASE stateFile' = [phase |-> c.phase, version |-> c.offered] /\ unsaved' = unsaved
  <2>1. stateFile'.phase = core'.phase /\ stateFile'.version = core'.offered
    BY <1>1, <1>2
  <2>. QED
    BY <1>1, <1>2, <2>1 DEF FileIsState
<1>3. CASE stateFile' = stateFile /\ unsaved' = TRUE
  BY <1>1, <1>3 DEF FileIsState
<1>. QED
  BY <1>2, <1>3 DEF SetCore

(* The helper's backup is nothing, as it was, or what has run.             *)
KeepsFit == UNCHANGED <<unfit, build>> /\ kept' \in Backups /\ kept'.build \notin unfit

LEMMA FrameKeeps ==
  ASSUME SourceInv, UNCHANGED <<unfit, build, kept>>
  PROVE  KeepsFit
BY DEF KeepsFit, SourceInv, SourceTypeOK, BuildsFit

(* What a state set by Core has to satisfy: the file is of that state, or  *)
(* it stays as it was.                                                     *)
LEMMA SettingKeeps ==
  ASSUME SourceInv, NEW c \in CoreStates, SetCore(c),
         c.version = core.version, KeepsFit,
         c.phase = "ready" \/ c.step # "idle" => c.offered # 0,
         c.step = "handed back" => c.offered = kept'.version,
         c.step # "idle" => c.phase \in Underway
  PROVE  /\ core' = c /\ core' \in CoreStates /\ stateFile' \in SavedStates /\ unsaved' \in BOOLEAN
         /\ unsaved' \in {unsaved, TRUE}
         /\ FileIsState' /\ WorkHasVersion' /\ BuildsFit'
<1>1. /\ core' = c /\ unsaved' \in {unsaved, TRUE} /\ FileIsState'
      /\ stateFile' \in {stateFile, [phase |-> c.phase, version |-> c.offered]}
  BY Setting DEF SourceInv, SourceTypeOK
<1>2. core' \in CoreStates /\ stateFile' \in SavedStates
  <2>1. core' \in CoreStates
    BY <1>1
  <2>2. c.phase \in UpdatePhases /\ c.offered \in CoreVersions \cup {0}
    BY DEF CoreStates
  <2>3. stateFile \in SavedStates
    BY DEF SourceInv, SourceTypeOK
  <2>4. [phase |-> c.phase, version |-> c.offered] \in SavedStates
    BY <2>2 DEF SavedStates
  <2>. QED
    BY <1>1, <2>1, <2>3, <2>4
<1>3. unsaved' \in BOOLEAN
  BY <1>1, Zenon DEF SourceInv, SourceTypeOK
<1>4. BuildsFit'
  BY DEF SourceInv, BuildsFit, KeepsFit
<1>5. WorkHasVersion'
  <2>1. core' = c
    BY <1>1
  <2>2. stateFile'.phase = "ready" => stateFile'.version # 0
    <3>1. CASE stateFile' = stateFile
      BY <3>1 DEF SourceInv, WorkHasVersion
    <3>2. CASE stateFile' = [phase |-> c.phase, version |-> c.offered]
      <4>1. stateFile'.phase = c.phase /\ stateFile'.version = c.offered
        BY <3>2
      <4>. QED
        BY <4>1
    <3>. QED
      BY <1>1, <3>1, <3>2
  <2>3. c.step = "handed back" => kept'.version # 0 /\ c.offered = kept'.version
    OBVIOUS
  <2>. QED
    BY <2>1, <2>2, <2>3 DEF WorkHasVersion
<1>. QED
  BY <1>1, <1>2, <1>3, <1>4, <1>5

(* A download goes on: what it has fetched is on the disk.                 *)
LEMMA AdvancedKeeps ==
  ASSUME SourceInv, DownloadFrame, UNCHANGED <<stateFile, unsaved>>,
         core.step \in Transfers, core' \in CoreStates, core'.step \in Transfers,
         core'.version = core.version,
         core'.phase = core.phase, core'.offered = core.offered,
         NEW files \in VersionFiles, store' = [store EXCEPT ![core.offered] = files],
         FetchedBy(core', files)
  PROVE  SourceInv'
<1>1. core.offered \in CoreVersions /\ core.phase \in Underway
  <2>1. core.offered # 0 /\ core.phase \in Underway
    BY DEF SourceInv, WorkHasVersion, Transfers, AfterArchive
  <2>2. core.offered \in CoreVersions \cup {0}
    BY DEF SourceInv, SourceTypeOK, CoreStates
  <2>. QED
    BY <2>1, <2>2
<1>2. store' \in [CoreVersions -> VersionFiles] /\ Files' = files
  BY <1>1 DEF SourceInv, SourceTypeOK, Files
<1>3. SourceTypeOK'
  BY <1>2 DEF SourceInv, SourceTypeOK, DownloadFrame
<1>4. Fetched' /\ ReadyIsOneBuild'
  <2>1. core'.phase # "ready"
    BY <1>1 DEF Underway
  <2>. QED
    BY <1>2, <2>1 DEF Fetched, ReadyIsOneBuild
<1>5. OfferIsNewer' /\ AnswersAreNewer' /\ BuildsFit'
  BY DEF SourceInv, DownloadFrame, OfferIsNewer, AnswersAreNewer, BuildsFit
<1>6. FileIsState' /\ WorkHasVersion'
  BY <1>1 DEF SourceInv, FileIsState, WorkHasVersion, Transfers, AfterArchive
<1>. QED
  BY <1>3, <1>4, <1>5, <1>6 DEF SourceInv

(* An operation that fails leaves a state that says so.                    *)
LEMMA FailedKeeps ==
  ASSUME SourceInv, SetCore(FailedUpdate), store' \in [CoreVersions -> VersionFiles],
         UNCHANGED <<shelf, named, offer, offerFile>>, KeepsFit
  PROVE  SourceInv'
<1>1. /\ FailedUpdate \in CoreStates /\ FailedUpdate.version = core.version
      /\ FailedUpdate.step = "idle" /\ FailedUpdate.phase = "failed"
  BY DEF FailedUpdate, SourceInv, SourceTypeOK, CoreStates, UpdatePhases, UpdateSteps
<1>2. /\ core' = FailedUpdate /\ core' \in CoreStates /\ stateFile' \in SavedStates /\ unsaved' \in BOOLEAN
      /\ FileIsState' /\ WorkHasVersion' /\ BuildsFit'
  BY <1>1, SettingKeeps
<1>3. SourceTypeOK'
  BY <1>2 DEF SourceInv, SourceTypeOK, KeepsFit
<1>4. OfferIsNewer' /\ AnswersAreNewer'
  BY <1>1, <1>2 DEF SourceInv, OfferIsNewer, AnswersAreNewer
<1>5. Fetched' /\ ReadyIsOneBuild'
  BY <1>1, <1>2 DEF Fetched, FetchedBy, ReadyIsOneBuild, Transfers, AfterArchive, AfterSignature
<1>. QED
  BY <1>2, <1>3, <1>4, <1>5 DEF SourceInv

-----------------------------------------------------------------------------
(* Nothing is fetched, offered or written down when a behaviour begins.    *)
LEMMA InitSource == SourceInit => SourceInv
<1>. SUFFICES ASSUME SourceInit PROVE SourceInv
  OBVIOUS
<1>1. SourceTypeOK
  <2>1. shelf \in [CoreVersions -> [Assets -> Builds \cup {0}]]
    <3>1. PICK newest \in CoreVersions : \E b \in Builds, odd \in Assets : \E c \in {0, b} :
            shelf = [v \in CoreVersions |-> IF v = newest THEN [Whole(b) EXCEPT ![odd] = c] ELSE Whole(1)]
      BY Zenon DEF SourceInit
    <3>2. PICK b \in Builds, odd \in Assets : \E c \in {0, b} :
            shelf = [v \in CoreVersions |-> IF v = newest THEN [Whole(b) EXCEPT ![odd] = c] ELSE Whole(1)]
      BY <3>1
    <3>3. PICK c \in {0, b} :
            shelf = [v \in CoreVersions |-> IF v = newest THEN [Whole(b) EXCEPT ![odd] = c] ELSE Whole(1)]
      BY <3>2
    <3>. QED
      BY <3>3, SourceAssumption DEF Whole
  <2>2. named \in CoreVersions /\ unfit \subseteq Builds
    BY DEF SourceInit
  <2>3. core \in CoreStates /\ stateFile \in SavedStates /\ unsaved \in BOOLEAN
    <3>1. PICK lowest \in CoreVersions :
            core = [version |-> lowest, phase |-> "idle", offered |-> 0, step |-> "idle", hash |-> 0]
      BY Zenon DEF SourceInit
    <3>2. core \in CoreStates
      BY <3>1 DEF CoreStates, UpdatePhases, UpdateSteps
    <3>3. stateFile \in SavedStates
      BY DEF SourceInit, SavedStates, UpdatePhases
    <3>4. unsaved \in BOOLEAN
      BY Zenon DEF SourceInit
    <3>. QED
      BY <3>2, <3>3, <3>4
  <2>4. offer \in Answers /\ offerFile \in Answers
    BY DEF SourceInit, Answers, NoOffer
  <2>5. store \in [CoreVersions -> VersionFiles] /\ build \in Builds \cup {0} /\ kept \in Backups
    BY DEF SourceInit, NoFiles, VersionFiles, NoBackup, Backups
  <2>. QED
    BY <2>1, <2>2, <2>3, <2>4, <2>5 DEF SourceTypeOK
<1>. QED
  BY <1>1, SourceAssumption
     DEF SourceInit, SourceInv, SourceTypeOK, OfferIsNewer, AnswersAreNewer, FileIsState, WorkHasVersion, Fetched,
         FetchedBy, Transfers, AfterArchive, AfterSignature, ReadyIsOneBuild, BuildsFit, NoOffer, NoBackup

(* A change of what is published does not touch what Core has.             *)
LEMMA PublishingKeeps == SourceInv /\ Publishing => SourceInv'
<1>. SUFFICES ASSUME SourceInv, Publishing PROVE SourceInv'
  OBVIOUS
<1>. USE DEF SourceInv
<1>1. UNCHANGED <<unfit, core, offer, offerFile, stateFile, store, build, kept, losses, unsaved>>
  BY DEF Publishing
<1>2. shelf' \in [CoreVersions -> [Assets -> Builds \cup {0}]] /\ named' \in CoreVersions
  <2>1. Highest(CoreVersions) \in CoreVersions \/ Highest(CoreVersions) = 0
    BY HighestIn
  <2>2. CoreVersions # {}
    BY DEF SourceTypeOK
  <2>3. Highest(CoreVersions) \in CoreVersions
    BY <2>2, SourceAssumption DEF Highest
  <2>4. shelf[Highest(CoreVersions)] \in [Assets -> Builds \cup {0}]
    BY <2>3 DEF SourceTypeOK
  <2>5. CASE named' = Highest(CoreVersions) /\ UNCHANGED shelf
    BY <2>3, <2>5 DEF SourceTypeOK
  <2>6. ASSUME NEW a \in Assets, NEW b \in Builds \cup {0}, UNCHANGED named,
               shelf' = [shelf EXCEPT ![Highest(CoreVersions)][a] = b]
        PROVE  shelf' \in [CoreVersions -> [Assets -> Builds \cup {0}]] /\ named' \in CoreVersions
    BY <2>3, <2>4, <2>6 DEF SourceTypeOK
  <2>. QED
    BY <2>5, <2>6 DEF Publishing
<1>3. SourceTypeOK'
  BY <1>1, <1>2 DEF SourceTypeOK
<1>. QED
  BY <1>1, <1>3 DEF OfferIsNewer, AnswersAreNewer, FileIsState, WorkHasVersion, Fetched, ReadyIsOneBuild,
                    BuildsFit, Staged, Files

(* A check leaves work alone, and what it finds is newer.                  *)
LEMMA CheckKeeps == SourceInv /\ CheckRelease => SourceInv'
<1>. SUFFICES ASSUME SourceInv, NEW source \in Sources,
                     IF source = "none"
                     THEN /\ UNCHANGED <<offer, offerFile>>
                          /\ IF core.phase \in Busy \/ offer # NoOffer
                             THEN UNCHANGED <<core, stateFile, losses, unsaved>>
                             ELSE SetCore([core EXCEPT !.phase = "idle", !.offered = 0])
                     ELSE LET v == FindCandidate(0, source) IN
                          /\ offer' = [current |-> core.version, version |-> v]
                          /\ IF core.phase \in Busy
                             THEN /\ UNCHANGED <<core, stateFile, unsaved>>
                                  /\ \/ offerFile' = offer' /\ UNCHANGED losses
                                     \/ UNCHANGED offerFile /\ Lose
                             ELSE /\ SetCore([core EXCEPT !.phase = IF v = 0 THEN "idle" ELSE "available",
                                                          !.offered = v])
                                  /\ offerFile' \in {offer'} \cup (IF unsaved' THEN {offerFile} ELSE {}),
                     UNCHANGED <<shelf, named, unfit, store, build, kept, uploads>>
              PROVE  SourceInv'
  BY DEF CheckRelease
<1>. DEFINE v == FindCandidate(0, source)
            found == [current |-> core.version, version |-> v]
            calm == [core EXCEPT !.phase = "idle", !.offered = 0]
            told == [core EXCEPT !.phase = IF v = 0 THEN "idle" ELSE "available", !.offered = v]
<1>1. v = 0 \/ (v \in CoreVersions /\ v > core.version)
  BY CandidateIsLater DEF SourceInv
<1>2. found \in Answers
  BY <1>1 DEF SourceInv, SourceTypeOK, CoreStates, Answers
<1>3. /\ offer' \in {offer, found} /\ offerFile' \in {offerFile, found}
      /\ \/ UNCHANGED <<core, stateFile, unsaved>>
         \/ core.phase \notin Busy /\ (SetCore(calm) \/ SetCore(told))
  BY Zenon
<1>4. /\ offer' \in Answers /\ offerFile' \in Answers /\ AnswersAreNewer'
      /\ core'.version = core.version => OfferIsNewer'
  BY <1>1, <1>2, <1>3 DEF SourceInv, SourceTypeOK, AnswersAreNewer, OfferIsNewer
<1>5. CASE UNCHANGED <<core, stateFile, unsaved>>
  BY <1>4, <1>5 DEF SourceInv, SourceTypeOK, FileIsState, WorkHasVersion, Fetched, Files, ReadyIsOneBuild, Staged,
                    BuildsFit
<1>6. ASSUME NEW c \in {calm, told}, core.phase \notin Busy, SetCore(c)
      PROVE  SourceInv'
  <2>1. c \in CoreStates
    BY <1>1 DEF SourceInv, SourceTypeOK, CoreStates, UpdatePhases
  <2>2. core.step = "idle"
    BY <1>6 DEF SourceInv, WorkHasVersion, Busy, Underway
  <2>3. c.version = core.version /\ c.step = "idle" /\ c.phase # "ready"
    BY <2>2 DEF SourceInv, SourceTypeOK, CoreStates
  <2>4. /\ core' = c /\ core' \in CoreStates /\ stateFile' \in SavedStates /\ unsaved' \in BOOLEAN
        /\ FileIsState' /\ WorkHasVersion' /\ BuildsFit'
    BY <1>6, <2>1, <2>3, FrameKeeps, SettingKeeps
  <2>5. SourceTypeOK'
    BY <1>4, <2>4 DEF SourceInv, SourceTypeOK
  <2>6. Fetched' /\ ReadyIsOneBuild'
    BY <2>3, <2>4 DEF Fetched, FetchedBy, ReadyIsOneBuild, Transfers, AfterArchive, AfterSignature
  <2>. QED
    BY <1>4, <2>3, <2>4, <2>5, <2>6 DEF SourceInv
<1>. QED
  BY <1>3, <1>5, <1>6

-----------------------------------------------------------------------------
(* The steps of a download.                                                *)
LEMMA StartKeeps == \A v \in CoreVersions : SourceInv /\ StartDownload(v) => SourceInv'
<1>. SUFFICES ASSUME NEW v \in CoreVersions, SourceInv, StartDownload(v) PROVE SourceInv'
  OBVIOUS
<1>. DEFINE begun == [core EXCEPT !.phase = "downloading", !.offered = v, !.step = "checksum"]
<1>1. DownloadFrame /\ KeepsFit /\ store' = store /\ store' \in [CoreVersions -> VersionFiles]
  BY FrameKeeps DEF StartDownload, SourceInv, SourceTypeOK, DownloadFrame
<1>2. CASE SetCore(FailedUpdate)
  BY <1>1, <1>2, FailedKeeps DEF DownloadFrame
<1>3. ASSUME NEW source \in Sources, FindCandidate(v, source) # 0, SetCore(begun)
      PROVE  SourceInv'
  <2>1. v # 0
    BY SourceAssumption
  <2>2. begun \in CoreStates
    BY DEF SourceInv, SourceTypeOK, CoreStates, UpdatePhases, Busy, UpdateSteps
  <2>3. /\ begun.version = core.version /\ begun.offered = v
        /\ begun.phase = "downloading" /\ begun.step = "checksum"
    BY DEF SourceInv, SourceTypeOK, CoreStates
  <2>4. /\ core' = begun /\ core' \in CoreStates /\ stateFile' \in SavedStates /\ unsaved' \in BOOLEAN
        /\ FileIsState' /\ WorkHasVersion' /\ BuildsFit'
    BY <1>1, <1>3, <2>1, <2>2, <2>3, SettingKeeps DEF Underway
  <2>5. SourceTypeOK'
    BY <1>1, <2>4 DEF SourceInv, SourceTypeOK, DownloadFrame
  <2>6. OfferIsNewer' /\ AnswersAreNewer'
    BY <1>1, <2>3, <2>4 DEF SourceInv, DownloadFrame, OfferIsNewer, AnswersAreNewer
  <2>7. Fetched' /\ ReadyIsOneBuild'
    BY <2>3, <2>4 DEF Fetched, FetchedBy, ReadyIsOneBuild, Transfers, AfterArchive, AfterSignature
  <2>. QED
    BY <2>4, <2>5, <2>6, <2>7 DEF SourceInv
<1>. QED
  BY <1>2, <1>3 DEF StartDownload

(* A transfer that succeeds advances, any other fails.                     *)
LEMMA TransferKeeps ==
  ASSUME SourceInv, NEW step \in Transfers, NEW holds, NEW files \in VersionFiles, NEW next \in CoreStates,
         Transfer(step, holds, files, next),
         next.version = core.version, next.phase = core.phase,
         next.offered = core.offered, next.step \in Transfers,
         holds => FetchedBy(next, files)
  PROVE  SourceInv'
<1>1. core.step = step /\ DownloadFrame
  BY DEF Transfer
<1>2. CASE /\ holds /\ store' = [store EXCEPT ![core.offered] = files]
           /\ core' = next /\ UNCHANGED <<stateFile, losses, unsaved>>
  BY <1>1, <1>2, AdvancedKeeps
<1>3. CASE SetCore(FailedUpdate) /\ UNCHANGED store
  BY <1>1, <1>3, FrameKeeps, FailedKeeps DEF SourceInv, SourceTypeOK, DownloadFrame
<1>. QED
  BY <1>2, <1>3, Zenon DEF Transfer

(* Each step of a download establishes what the next relies on, and the    *)
(* last has one build in every file (Download, extractAndVerifyBundle).     *)
LEMMA DownloadKeeps == SourceInv /\ Downloading => SourceInv'
<1>. SUFFICES ASSUME SourceInv, Downloading PROVE SourceInv'
  OBVIOUS
<1>1. ASSUME core.step \in Transfers
      PROVE  core.offered \in CoreVersions /\ Files \in VersionFiles
  <2>1. core.offered # 0
    BY <1>1 DEF SourceInv, WorkHasVersion, Transfers, AfterArchive
  <2>2. core.offered \in CoreVersions \cup {0}
    BY DEF SourceInv, SourceTypeOK, CoreStates
  <2>. QED
    BY <2>1, <2>2 DEF SourceInv, SourceTypeOK, Files
<1>2. ASSUME NEW step \in Transfers
      PROVE  /\ At(step) \in CoreStates
             /\ At(step).version = core.version
             /\ At(step).phase = core.phase /\ At(step).offered = core.offered
             /\ At(step).step = step /\ At(step).hash = core.hash
  BY DEF At, SourceInv, SourceTypeOK, CoreStates, UpdateSteps, Transfers, AfterArchive
<1>3. SourceTypeOK /\ Fetched
  BY DEF SourceInv
<1>4. CASE FetchChecksum
  <2>1. core.step = "checksum" /\ DownloadFrame
    BY <1>4 DEF FetchChecksum, Transfer
  <2>. DEFINE sum == shelf[core.offered].sum
              next == [At("signature") EXCEPT !.hash = sum]
  <2>2. sum \in Builds \cup {0} /\ Files \in VersionFiles
    BY <1>1, <1>3, <2>1 DEF Transfers, SourceTypeOK, Assets
  <2>3. /\ next \in CoreStates /\ next.hash = sum /\ next.step = "signature"
        /\ next.version = core.version /\ next.phase = core.phase
        /\ next.offered = core.offered
    BY <1>2, <2>2 DEF Transfers, CoreStates
  <2>4. sum # 0 => FetchedBy(next, Files)
    BY <2>3 DEF FetchedBy, Transfers, AfterArchive, AfterSignature
  <2>. QED
    BY <1>4, <2>2, <2>3, <2>4, TransferKeeps DEF FetchChecksum, Transfers
<1>5. CASE VerifySignature
  <2>1. core.step = "signature" /\ DownloadFrame
    BY <1>5 DEF VerifySignature, Transfer
  <2>2. Files \in VersionFiles
    BY <1>1, <2>1 DEF Transfers
  <2>3. FetchedBy(At("archive"), Files)
    BY <1>2, <1>3, <2>1 DEF Fetched, FetchedBy, Transfers, AfterArchive, AfterSignature
  <2>. QED
    BY <1>2, <1>5, <2>2, <2>3, TransferKeeps DEF VerifySignature, Transfers
<1>6. CASE FetchArchive
  <2>1. core.step = "archive" /\ DownloadFrame
    BY <1>6 DEF FetchArchive, Transfer
  <2>. DEFINE bundle == shelf[core.offered].bundle
              files  == [Files EXCEPT !.archive = bundle]
  <2>2. Files \in VersionFiles /\ core.offered \in CoreVersions
    BY <1>1, <2>1 DEF Transfers, AfterArchive
  <2>3. bundle \in Builds \cup {0}
    BY <1>3, <2>2 DEF SourceTypeOK, Assets
  <2>4. files \in VersionFiles
    BY <2>2, <2>3 DEF VersionFiles
  <2>5. bundle = core.hash => FetchedBy(At("saving checksum"), files)
    BY <1>2, <1>3, <2>1, <2>2 DEF Fetched, FetchedBy, Transfers, AfterArchive, AfterSignature, VersionFiles
  <2>6. Transfer("archive", bundle = core.hash, files, At("saving checksum"))
    BY <1>6 DEF FetchArchive
  <2>7. "archive" \in Transfers /\ "saving checksum" \in Transfers
    BY DEF Transfers, AfterArchive
  <2>. HIDE DEF bundle, files
  <2>. QED
    BY <1>2, <2>4, <2>5, <2>6, <2>7, TransferKeeps
<1>7. CASE SaveChecksum
  <2>1. core.step = "saving checksum" /\ DownloadFrame
    BY <1>7 DEF SaveChecksum, Transfer
  <2>. DEFINE files == [Files EXCEPT !.sum = core.hash]
  <2>2. Files \in VersionFiles /\ core.offered \in CoreVersions
    BY <1>1, <2>1 DEF Transfers, AfterArchive
  <2>3. files \in VersionFiles
    BY <1>3, <2>2 DEF SourceTypeOK, CoreStates, VersionFiles, Assets
  <2>4. FetchedBy(At("saving signature"), files)
    BY <1>2, <1>3, <2>1, <2>2 DEF Fetched, FetchedBy, Transfers, AfterArchive, AfterSignature, VersionFiles
  <2>. QED
    BY <1>2, <1>7, <2>3, <2>4, TransferKeeps DEF SaveChecksum, Transfers, AfterArchive
<1>8. CASE SaveSignature
  <2>1. core.step = "saving signature" /\ DownloadFrame
    BY <1>8 DEF SaveSignature, Transfer
  <2>. DEFINE files == [Files EXCEPT !.sig = core.hash]
  <2>2. Files \in VersionFiles /\ core.offered \in CoreVersions
    BY <1>1, <2>1 DEF Transfers, AfterArchive
  <2>3. files \in VersionFiles
    BY <1>3, <2>2 DEF SourceTypeOK, CoreStates, VersionFiles, Assets
  <2>4. FetchedBy(At("clearing"), files)
    BY <1>2, <1>3, <2>1, <2>2 DEF Fetched, FetchedBy, Transfers, AfterArchive, AfterSignature, VersionFiles
  <2>. QED
    BY <1>2, <1>8, <2>3, <2>4, TransferKeeps DEF SaveSignature, Transfers, AfterArchive
<1>9. CASE ClearPrepared
  <2>1. core.step = "clearing" /\ DownloadFrame
    BY <1>9 DEF ClearPrepared, Transfer
  <2>. DEFINE files == [Files EXCEPT !.prepared = 0]
  <2>2. Files \in VersionFiles /\ core.offered \in CoreVersions
    BY <1>1, <2>1 DEF Transfers, AfterArchive
  <2>3. files \in VersionFiles
    BY <1>3, <2>2 DEF SourceTypeOK, CoreStates, VersionFiles, Assets
  <2>4. FetchedBy(At("extracting"), files)
    BY <1>2, <1>3, <2>1, <2>2 DEF Fetched, FetchedBy, Transfers, AfterArchive, AfterSignature, VersionFiles
  <2>. QED
    BY <1>2, <1>9, <2>3, <2>4, TransferKeeps DEF ClearPrepared, Transfers, AfterArchive
<1>10. CASE Extract
  <2>1. core.step = "extracting" /\ DownloadFrame
    BY <1>10 DEF Extract, Transfer
  <2>. DEFINE files == [Files EXCEPT !.prepared = Torn]
  <2>2. Files \in VersionFiles /\ core.offered \in CoreVersions
    BY <1>1, <2>1 DEF Transfers, AfterArchive
  <2>3. files \in VersionFiles
    BY <1>3, <2>2 DEF SourceTypeOK, CoreStates, VersionFiles, Assets
  <2>4. FetchedBy(At("verifying"), files)
    BY <1>2, <1>3, <2>1, <2>2 DEF Fetched, FetchedBy, Transfers, AfterArchive, AfterSignature, VersionFiles
  <2>. QED
    BY <1>2, <1>10, <2>3, <2>4, TransferKeeps DEF Extract, Transfers, AfterArchive
<1>11. CASE VerifyBundle
  <2>1. core.step = "verifying" /\ DownloadFrame
    BY <1>11 DEF VerifyBundle
  <2>2. Files \in VersionFiles /\ core.offered \in CoreVersions
    BY <1>1, <2>1 DEF Transfers, AfterArchive
  <2>. DEFINE readied == [core EXCEPT !.phase = "ready", !.step = "idle", !.hash = 0]
  <2>3. ASSUME NEW p \in Builds \cup {0}, store' = [store EXCEPT ![core.offered].prepared = p]
        PROVE  /\ store' \in [CoreVersions -> VersionFiles]
               /\ store'[core.offered] = [Files EXCEPT !.prepared = p]
    BY <1>3, <2>2, <2>3 DEF SourceTypeOK, Files, VersionFiles
  <2>4. CASE SetCore(FailedUpdate) /\ store' = [store EXCEPT ![core.offered].prepared = 0]
    BY <2>1, <2>3, <2>4, FrameKeeps, FailedKeeps DEF DownloadFrame
  <2>5. CASE /\ Files.archive \notin unfit
             /\ store' = [store EXCEPT ![core.offered].prepared = Files.archive]
             /\ SetCore(readied)
    <3>1. /\ readied \in CoreStates /\ readied.phase = "ready" /\ readied.step = "idle"
          /\ readied.version = core.version /\ readied.offered = core.offered
      BY <1>3 DEF SourceTypeOK, CoreStates, UpdatePhases, Busy, UpdateSteps
    <3>2. core.offered # 0 /\ KeepsFit
      BY <2>1, FrameKeeps DEF SourceInv, WorkHasVersion, DownloadFrame
    <3>3. /\ core' = readied /\ core' \in CoreStates /\ stateFile' \in SavedStates /\ unsaved' \in BOOLEAN
          /\ FileIsState' /\ WorkHasVersion' /\ BuildsFit'
      BY <2>5, <3>1, <3>2, SettingKeeps
    <3>4. /\ store' \in [CoreVersions -> VersionFiles]
          /\ Files' = [Files EXCEPT !.prepared = Files.archive]
      BY <2>2, <2>3, <2>5, <3>1, <3>3 DEF Files, VersionFiles
    <3>5. SourceTypeOK'
      BY <2>1, <3>3, <3>4 DEF SourceInv, SourceTypeOK, DownloadFrame
    <3>6. OfferIsNewer' /\ AnswersAreNewer'
      BY <2>1, <3>1, <3>3 DEF SourceInv, DownloadFrame, OfferIsNewer, AnswersAreNewer
    <3>7. Fetched'
      BY <3>1, <3>3 DEF Fetched, FetchedBy, Transfers, AfterArchive, AfterSignature
    <3>8. Files.archive = core.hash /\ Files.sum = core.hash /\ Files.sig = core.hash /\ core.hash # 0
      BY <1>3, <2>1 DEF Fetched, FetchedBy, Transfers, AfterArchive, AfterSignature
    <3>9. ReadyIsOneBuild'
      BY <2>1, <2>2, <2>5, <3>4, <3>8 DEF ReadyIsOneBuild, Staged, VersionFiles, DownloadFrame
    <3>. QED
      BY <3>3, <3>5, <3>6, <3>7, <3>9 DEF SourceInv
  <2>. QED
    BY <1>11, <2>4, <2>5 DEF VerifyBundle
<1>. QED
  BY <1>4, <1>5, <1>6, <1>7, <1>8, <1>9, <1>10, <1>11 DEF Downloading

-----------------------------------------------------------------------------
(* Installation, rollback and the death of Core.                           *)
(* What is handed over was ready, so it is of a version (InstallPrepared). *)
LEMMA InstallKeeps == SourceInv /\ InstallPrepared => SourceInv'
<1>. SUFFICES ASSUME SourceInv, InstallPrepared PROVE SourceInv'
  OBVIOUS
<1>. DEFINE given == [core EXCEPT !.phase = "installing", !.step = "handed over"]
<1>1. /\ core.step = "idle" /\ core.phase = "ready" /\ DownloadFrame /\ KeepsFit
      /\ store' = store /\ store' \in [CoreVersions -> VersionFiles]
  BY FrameKeeps DEF InstallPrepared, SourceInv, SourceTypeOK, DownloadFrame
<1>2. CASE SetCore(FailedUpdate)
  BY <1>1, <1>2, FailedKeeps DEF DownloadFrame
<1>3. CASE SetCore(given)
  <2>1. /\ given \in CoreStates /\ given.phase = "installing" /\ given.step = "handed over"
        /\ given.version = core.version /\ given.offered = core.offered
    BY DEF SourceInv, SourceTypeOK, CoreStates, UpdatePhases, Busy, UpdateSteps
  <2>2. core.offered # 0
    BY <1>1 DEF SourceInv, WorkHasVersion
  <2>3. /\ core' = given /\ core' \in CoreStates /\ stateFile' \in SavedStates /\ unsaved' \in BOOLEAN
        /\ FileIsState' /\ WorkHasVersion' /\ BuildsFit'
    BY <1>1, <1>3, <2>1, <2>2, SettingKeeps DEF Underway
  <2>4. SourceTypeOK'
    BY <1>1, <2>3 DEF SourceInv, SourceTypeOK, DownloadFrame
  <2>5. OfferIsNewer' /\ AnswersAreNewer'
    BY <1>1, <2>1, <2>3 DEF SourceInv, DownloadFrame, OfferIsNewer, AnswersAreNewer
  <2>6. Fetched' /\ ReadyIsOneBuild'
    BY <2>1, <2>3 DEF Fetched, FetchedBy, ReadyIsOneBuild, Transfers, AfterArchive, AfterSignature
  <2>. QED
    BY <2>3, <2>4, <2>5, <2>6 DEF SourceInv
<1>. QED
  BY <1>2, <1>3 DEF InstallPrepared

(* loadReleaseStatusCache believes only what that version wrote.           *)
LEMMA LoadedIsNewer ==
  ASSUME SourceInv, NEW version \in CoreVersions
  PROVE  Loaded(version) \in Answers /\ (Loaded(version).version # 0 => Loaded(version).version > version)
BY DEF SourceInv, SourceTypeOK, AnswersAreNewer, Loaded, NoOffer, Answers

(* A Core that starts says ready only what state.json does, which can be   *)
(* only if that could not be written.                                      *)
LEMMA RestartedKeeps ==
  ASSUME SourceInv, NEW version \in CoreVersions, NEW state \in SavedStates, Restarted(version, state),
         state.phase = "ready" => unsaved /\ state.version # 0,
         build' \in Builds \cup {0}, build' \notin unfit, kept' \in Backups, kept'.build \notin unfit,
         UNCHANGED <<shelf, named, unfit, offerFile, store>>
  PROVE  SourceInv'
<1>1. /\ core' \in CoreStates /\ core'.version = version /\ core'.step = "idle"
      /\ core'.phase = state.phase /\ core'.offered = state.version
  <2>1. core' = [version |-> version, phase |-> state.phase, offered |-> state.version,
                 step |-> "idle", hash |-> 0]
    BY DEF Restarted
  <2>2. state.phase \in UpdatePhases /\ state.version \in CoreVersions \cup {0}
    BY DEF SavedStates
  <2>. QED
    BY <2>1, <2>2 DEF CoreStates, UpdateSteps
<1>2. offer' \in Answers /\ OfferIsNewer' /\ AnswersAreNewer'
  BY <1>1, LoadedIsNewer DEF Restarted, SourceInv, OfferIsNewer, AnswersAreNewer
<1>3. stateFile' \in {state, stateFile} /\ stateFile' \in SavedStates
  BY DEF Restarted, SourceInv, SourceTypeOK
<1>4. unsaved' \in BOOLEAN /\ (unsaved => unsaved')
  BY Zenon DEF Restarted, SourceInv, SourceTypeOK
<1>5. SourceTypeOK'
  BY <1>1, <1>2, <1>3, <1>4 DEF SourceInv, SourceTypeOK
<1>6. FileIsState'
  <2>1. CASE stateFile' = state
    BY <1>1, <2>1 DEF FileIsState
  <2>2. CASE unsaved' = TRUE
    BY <2>2, Zenon DEF FileIsState
  <2>. QED
    BY <2>1, <2>2 DEF Restarted
<1>7. WorkHasVersion' /\ BuildsFit'
  BY <1>1, <1>3 DEF SourceInv, WorkHasVersion, BuildsFit
<1>8. ReadyIsOneBuild'
  BY <1>1, <1>4 DEF ReadyIsOneBuild
<1>9. Fetched'
  BY <1>1 DEF Fetched, FetchedBy, Transfers, AfterArchive, AfterSignature
<1>. QED
  BY <1>2, <1>5, <1>6, <1>7, <1>8, <1>9 DEF SourceInv

(* reconcileInstallResult settles the phase, unless it reads of another    *)
(* version than the one the helper had.                                    *)
LEMMA ReportedState ==
  ASSUME SourceInv, core.step # "idle", NEW phase \in {"succeeded", "failed"},
         NEW version \in CoreVersions, NEW heeded, core.offered \in heeded
  PROVE  LET state == Reported(phase, version, heeded) IN
         state \in SavedStates /\ (state.phase = "ready" => unsaved /\ state.version # 0)
<1>1. [phase |-> phase, version |-> version] \in SavedStates /\ stateFile \in SavedStates
  BY DEF SavedStates, UpdatePhases, SourceInv, SourceTypeOK
<1>2. CASE stateFile.version \in heeded
  BY <1>1, <1>2 DEF Reported
<1>3. CASE stateFile.version \notin heeded
  <2>1. unsaved
    BY <1>3 DEF SourceInv, FileIsState
  <2>. QED
    BY <1>1, <1>3, <2>1 DEF Reported, SourceInv, WorkHasVersion
<1>. QED
  BY <1>2, <1>3

LEMMA GivesUpKeeps ==
  ASSUME SourceInv, core.step # "idle", GivesUp, kept' \in Backups, kept'.build \notin unfit,
         UNCHANGED <<shelf, named, unfit, offerFile, store>>
  PROVE  SourceInv'
<1>1. /\ core.offered \in CoreVersions /\ core.version \in CoreVersions
      /\ build' \in Builds \cup {0} /\ build' \notin unfit
      /\ store' \in [CoreVersions -> VersionFiles]
  BY DEF GivesUp, SourceInv, SourceTypeOK, CoreStates, WorkHasVersion, BuildsFit
<1>2. CASE SetCore(FailedUpdate) /\ UNCHANGED offer
  BY <1>1, <1>2, FailedKeeps DEF KeepsFit, GivesUp
<1>3. CASE Restarted(core.version, Reported("failed", core.offered, {core.offered}))
  BY <1>1, <1>3, ReportedState, RestartedKeeps
<1>. QED
  BY <1>2, <1>3 DEF GivesUp

LEMMA SucceedsKeeps ==
  ASSUME SourceInv, core.step # "idle", Succeeds(core.offered), kept' \in Backups, kept'.build \notin unfit,
         build' \in Builds \cup {0}, build' \notin unfit, UNCHANGED <<shelf, named, unfit, offerFile, store>>
  PROVE  SourceInv'
<1>1. core.offered \in CoreVersions
  BY DEF SourceInv, SourceTypeOK, CoreStates, WorkHasVersion
<1>. QED
  BY <1>1, ReportedState, RestartedKeeps DEF Succeeds

(* The helper runs what was handed over if it is one signed build, and     *)
(* keeps what ran before (stageSignedUpdate, performInstall).              *)
LEMMA HelperKeeps == SourceInv /\ HelperInstalls => SourceInv'
<1>. SUFFICES ASSUME SourceInv, HelperInstalls PROVE SourceInv'
  OBVIOUS
<1>1. /\ core.step # "idle" /\ core.offered \in CoreVersions /\ core.version \in CoreVersions
      /\ UNCHANGED <<shelf, named, unfit, offerFile, store>>
  BY DEF HelperInstalls, SourceInv, SourceTypeOK, CoreStates, WorkHasVersion
<1>2. \A k \in {kept, NoBackup, WhatRuns} : k \in Backups /\ k.build \notin unfit
  BY <1>1, SourceAssumption DEF SourceInv, SourceTypeOK, BuildsFit, Backups, NoBackup, WhatRuns
<1>3. CASE Staged(Files) /\ Succeeds(core.offered) /\ build' = Files.archive /\ kept' = WhatRuns
  <2>1. build' \in Builds \cup {0} /\ build' \notin unfit
    BY <1>1, <1>3 DEF Staged, Files, SourceInv, SourceTypeOK, VersionFiles
  <2>. QED
    BY <1>1, <1>2, <1>3, <2>1, SucceedsKeeps
<1>4. CASE GivesUp /\ kept' \in {kept} \cup IF Staged(Files) THEN {NoBackup, WhatRuns} ELSE {}
  <2>1. kept' \in {kept, NoBackup, WhatRuns}
    BY <1>4
  <2>. QED
    BY <1>1, <1>2, <1>4, <2>1, GivesUpKeeps
<1>. QED
  BY <1>3, <1>4 DEF HelperInstalls

(* A rollback is handed over with the version of the backup (Rollback).    *)
LEMMA RollBackKeeps == SourceInv /\ RollBack => SourceInv'
<1>. SUFFICES ASSUME SourceInv, RollBack PROVE SourceInv'
  OBVIOUS
<1>. DEFINE back == [core EXCEPT !.phase = "rolling_back", !.offered = kept.version, !.step = "handed back"]
<1>1. /\ DownloadFrame /\ KeepsFit /\ store' \in [CoreVersions -> VersionFiles] /\ SetCore(back)
      /\ kept.version # 0 /\ kept' = kept
  BY FrameKeeps DEF RollBack, SourceInv, SourceTypeOK, DownloadFrame
<1>2. /\ back \in CoreStates /\ back.phase = "rolling_back" /\ back.step = "handed back"
      /\ back.version = core.version /\ back.offered = kept.version
  BY DEF SourceInv, SourceTypeOK, CoreStates, Backups, UpdatePhases, Busy, UpdateSteps
<1>3. /\ core' = back /\ core' \in CoreStates /\ stateFile' \in SavedStates /\ unsaved' \in BOOLEAN
      /\ FileIsState' /\ WorkHasVersion' /\ BuildsFit'
  BY <1>1, <1>2, SettingKeeps DEF Underway
<1>4. SourceTypeOK'
  BY <1>1, <1>3 DEF SourceInv, SourceTypeOK, DownloadFrame
<1>5. OfferIsNewer' /\ AnswersAreNewer'
  BY <1>1, <1>2, <1>3 DEF SourceInv, DownloadFrame, OfferIsNewer, AnswersAreNewer
<1>6. Fetched' /\ ReadyIsOneBuild'
  BY <1>2, <1>3 DEF Fetched, FetchedBy, ReadyIsOneBuild, Transfers, AfterArchive, AfterSignature
<1>. QED
  BY <1>3, <1>4, <1>5, <1>6 DEF SourceInv

(* What the helper goes back to once ran (performManualRollback).          *)
LEMMA HelperBackKeeps == SourceInv /\ HelperRollsBack => SourceInv'
<1>. SUFFICES ASSUME SourceInv, HelperRollsBack PROVE SourceInv'
  OBVIOUS
<1>1. /\ core.step # "idle" /\ core.offered = kept.version
      /\ kept' \in Backups /\ kept'.build \notin unfit /\ kept.build \in Builds \cup {0} /\ kept.build \notin unfit
      /\ UNCHANGED <<shelf, named, unfit, offerFile, store>>
  BY DEF HelperRollsBack, SourceInv, SourceTypeOK, WorkHasVersion, BuildsFit, Backups
<1>2. CASE Succeeds(kept.version) /\ build' = kept.build
  BY <1>1, <1>2, SucceedsKeeps
<1>3. CASE GivesUp
  BY <1>1, <1>3, GivesUpKeeps
<1>. QED
  BY <1>2, <1>3 DEF HelperRollsBack

(* Core starts again from state.json and release-status.json (New).        *)
LEMMA DeathKeeps == SourceInv /\ UpdateCoreDies => SourceInv'
<1>. SUFFICES ASSUME SourceInv, UpdateCoreDies PROVE SourceInv'
  OBVIOUS
<1>1. /\ core' \in CoreStates /\ core'.version = core.version
      /\ core'.phase = stateFile.phase /\ core'.offered = stateFile.version /\ core'.step = "idle"
  BY DEF UpdateCoreDies, SourceInv, SourceTypeOK, CoreStates, SavedStates, UpdateSteps
<1>2. core.version \in CoreVersions
  BY DEF SourceInv, SourceTypeOK, CoreStates
<1>3. offer' \in Answers /\ OfferIsNewer' /\ AnswersAreNewer'
  BY <1>1, <1>2, LoadedIsNewer DEF UpdateCoreDies, SourceInv, OfferIsNewer, AnswersAreNewer
<1>4. SourceTypeOK'
  BY <1>1, <1>3 DEF UpdateCoreDies, SourceInv, SourceTypeOK
<1>5. FileIsState' /\ WorkHasVersion' /\ BuildsFit'
  BY <1>1 DEF UpdateCoreDies, SourceInv, FileIsState, WorkHasVersion, BuildsFit
<1>6. Fetched'
  BY <1>1 DEF Fetched, FetchedBy, Transfers, AfterArchive, AfterSignature
<1>7. ReadyIsOneBuild'
  <2>. SUFFICES ASSUME core'.phase = "ready", ~unsaved' PROVE Staged(Files)' /\ (Files.prepared = Files.archive)'
    BY DEF ReadyIsOneBuild
  <2>1. ~unsaved
    BY Zenon DEF UpdateCoreDies
  <2>2. core.phase = "ready" /\ core.offered = core'.offered
    BY <1>1, <2>1 DEF SourceInv, FileIsState
  <2>3. Files' = Files /\ unfit' = unfit
    BY <2>2 DEF UpdateCoreDies, Files
  <2>4. Staged(Files) /\ Files.prepared = Files.archive
    BY <2>1, <2>2 DEF SourceInv, ReadyIsOneBuild
  <2>. QED
    BY <2>3, <2>4 DEF Staged
<1>. QED
  BY <1>3, <1>4, <1>5, <1>6, <1>7 DEF SourceInv

-----------------------------------------------------------------------------
(* Each action of what publishes, of Core and of the helper keeps all of   *)
(* this.                                                                   *)
LEMMA SourceStep == SourceInv /\ [SourceNext]_sourceVars => SourceInv'
<1>. SUFFICES ASSUME SourceInv, [SourceNext]_sourceVars PROVE SourceInv'
  OBVIOUS
<1>1. CASE UNCHANGED sourceVars
  BY <1>1 DEF sourceVars, SourceInv, SourceTypeOK, OfferIsNewer, AnswersAreNewer, FileIsState, WorkHasVersion,
              Fetched, Files, ReadyIsOneBuild, Staged, BuildsFit
<1>. QED
  BY <1>1, PublishingKeeps, CheckKeeps, StartKeeps, DownloadKeeps, InstallKeeps, HelperKeeps, RollBackKeeps,
     HelperBackKeeps, DeathKeeps DEF SourceNext

(* The inductive invariant of updates holds in every behaviour.            *)
LEMMA SourceInvariant == SourceSpec => []SourceInv
  BY InitSource, SourceStep, PTL DEF SourceSpec

(* Core never offers what already runs or less, whichever version of Core  *)
(* wrote the answer down and whenever it died (check,                      *)
(* loadReleaseStatusCache).                                                *)
THEOREM OffersAreNewer == SourceSpec => []OfferIsNewer
<1>1. SourceInv => OfferIsNewer
  BY DEF SourceInv
<1>. QED
  BY <1>1, SourceInvariant, PTL

(* What Core calls ready is one signed build, whose parts it has, although *)
(* any asset may be replaced between any two steps of its download         *)
(* (Download, extractAndVerifyBundle, stageSignedUpdate).                  *)
THEOREM ReadyIsSound == SourceSpec => []ReadyIsOneBuild
<1>1. SourceInv => ReadyIsOneBuild
  BY DEF SourceInv
<1>. QED
  BY <1>1, SourceInvariant, PTL

(* What Core offers is newer and what it calls ready is one signed build,  *)
(* together: what it says of updates (check, Download).                    *)
THEOREM UpdatesSound == SourceSpec => []UpdatesAreSound
<1>1. SourceInv => UpdatesAreSound
  BY DEF SourceInv, UpdatesAreSound
<1>. QED
  BY <1>1, SourceInvariant, PTL

(* Only a build the helper has verified comes to run, by an installation   *)
(* or by a rollback to what it has kept, however often the same backup is  *)
(* gone back to and whatever runs when a failed installation replaces it   *)
(* (stageSignedUpdate, performInstall, performManualRollback).             *)
THEOREM RunningIsSound == SourceSpec => []RunningFits
<1>1. SourceInv => RunningFits
  BY DEF SourceInv, BuildsFit, RunningFits
<1>. QED
  BY <1>1, SourceInvariant, PTL

-----------------------------------------------------------------------------
(***************************************************************************)
(* The containers.                                                         *)
(***************************************************************************)

(* The containers under the three names.  One that exists has an image and *)
(* a directory.                                                            *)
Container == [image : Images \cup {0}, dir : Dirs \cup {0}, up : BOOLEAN]
BoxesFit == box \in [Names -> Container] /\ \A n \in Names : Exists(n) => box[n].image # 0 /\ box[n].dir # 0

(* What each Docker command does to each name.                             *)
LEMMA StartedBoxes ==
  ASSUME BoxesFit, NEW n \in Names
  PROVE  /\ Started(n) \in [Names -> Container]
         /\ Started(n)[n].image = box[n].image /\ Started(n)[n].dir = box[n].dir /\ Started(n)[n].up
         /\ \A m \in Names \ {n} : Started(n)[m] = box[m]
<1>1. box \in [Names -> Container] /\ box[n] \in Container
  BY DEF BoxesFit
<1>2. /\ [box[n] EXCEPT !.up = TRUE] \in Container
      /\ [box[n] EXCEPT !.up = TRUE].image = box[n].image
      /\ [box[n] EXCEPT !.up = TRUE].dir = box[n].dir
      /\ [box[n] EXCEPT !.up = TRUE].up = TRUE
  BY <1>1 DEF Container
<1>. QED  BY <1>1, <1>2 DEF Started

(* docker stop leaves the container what it is, but down.                  *)
LEMMA StoppedBoxes ==
  ASSUME BoxesFit, NEW n \in Names
  PROVE  /\ Stopped(n) \in [Names -> Container]
         /\ Stopped(n)[n].image = box[n].image /\ Stopped(n)[n].dir = box[n].dir /\ ~Stopped(n)[n].up
         /\ \A m \in Names \ {n} : Stopped(n)[m] = box[m]
<1>1. box \in [Names -> Container] /\ box[n] \in Container
  BY DEF BoxesFit
<1>2. /\ [box[n] EXCEPT !.up = FALSE] \in Container
      /\ [box[n] EXCEPT !.up = FALSE].image = box[n].image
      /\ [box[n] EXCEPT !.up = FALSE].dir = box[n].dir
      /\ [box[n] EXCEPT !.up = FALSE].up = FALSE
  BY <1>1 DEF Container
<1>. QED  BY <1>1, <1>2 DEF Stopped

(* docker rm takes the container from its name and touches no other.       *)
LEMMA RemovedBoxes ==
  ASSUME BoxesFit, NEW n \in Names
  PROVE  /\ Removed(n) \in [Names -> Container]
         /\ Removed(n)[n] = Absent /\ \A m \in Names \ {n} : Removed(n)[m] = box[m]
BY DEF Removed, BoxesFit, Container, Absent

(* docker rename moves the container as it is and frees its old name.      *)
LEMMA RenamedBoxes ==
  ASSUME BoxesFit, NEW k \in Names, NEW n \in Names, k # n
  PROVE  /\ Renamed(k, n) \in [Names -> Container]
         /\ Renamed(k, n)[n] = box[k] /\ Renamed(k, n)[k] = Absent
         /\ \A m \in Names \ {k, n} : Renamed(k, n)[m] = box[m]
BY DEF Renamed, BoxesFit, Container, Absent

(* docker create makes a container that does not run yet.                  *)
LEMMA CreatedBoxes ==
  ASSUME BoxesFit, NEW n \in Names, NEW i \in Images, NEW d \in Dirs
  PROVE  LET made == [box EXCEPT ![n] = Created(i, d)]
         IN  /\ made \in [Names -> Container]
             /\ made[n].image = i /\ made[n].dir = d /\ ~made[n].up
             /\ \A m \in Names \ {n} : made[m] = box[m]
<1>1. Created(i, d) \in Container /\ Created(i, d).image = i /\ Created(i, d).dir = d /\ ~Created(i, d).up
  BY DEF Created, Container
<1>. QED  BY <1>1 DEF BoxesFit

(* A container exists exactly when it has an image, and only then it can   *)
(* run.                                                                    *)
LEMMA ExistingBoxes ==
  ASSUME BoxesFit, NEW n \in Names
  PROVE  /\ Exists(n) <=> box[n].image # 0
         /\ Exists(n) => box[n].image \in Images /\ box[n].dir \in Dirs
         /\ Running(n) => Exists(n)
         /\ Running(n) \in BOOLEAN
<1>1. box[n] \in Container
  BY DEF BoxesFit
<1>2. box[n] = Absent => box[n].image = 0 /\ box[n].up = FALSE
  BY DEF Absent
<1>. QED  BY <1>1, <1>2 DEF BoxesFit, Exists, Running, Container

(* The same of the state after a command that may have failed.             *)
LEMMA StartStep ==
  ASSUME BoxesFit, NEW n \in Names, Exists(n), box' \in {box, Started(n)}
  PROVE  /\ BoxesFit' /\ \A m \in Names \ {n} : box'[m] = box[m]
         /\ Exists(n)' /\ box'[n].image = box[n].image /\ box'[n].dir = box[n].dir
         /\ Running(n) \/ box' = Started(n) => Running(n)'
<1>1. box' = box => box'[n] = box[n]
  OBVIOUS
<1>2. box'[n].image = box[n].image /\ box'[n].dir = box[n].dir /\ \A m \in Names \ {n} : box'[m] = box[m]
  BY <1>1, StartedBoxes
<1>3. Running(n) \/ box' = Started(n) => Running(n)'
  BY StartedBoxes DEF Running
<1>4. box[n].image # 0 /\ Absent.image = 0
  BY ExistingBoxes DEF Absent
<1>5. Exists(n)'
  BY <1>2, <1>4 DEF Exists
<1>6. BoxesFit'
  BY <1>2, <1>4, StartedBoxes DEF BoxesFit, Exists
<1>. QED  BY <1>2, <1>3, <1>5, <1>6

(* A stop that may have failed: at most the container is down now.         *)
LEMMA StopStep ==
  ASSUME BoxesFit, NEW n \in Names, Exists(n), box' \in {box, Stopped(n)}
  PROVE  /\ BoxesFit' /\ \A m \in Names \ {n} : box'[m] = box[m]
         /\ Exists(n)' /\ box'[n].image = box[n].image /\ box'[n].dir = box[n].dir
         /\ Running(n)' => Running(n)
         /\ box' = Stopped(n) => ~Running(n)'
<1>1. box' = box => box'[n] = box[n]
  OBVIOUS
<1>2. box'[n].image = box[n].image /\ box'[n].dir = box[n].dir /\ \A m \in Names \ {n} : box'[m] = box[m]
  BY <1>1, StoppedBoxes
<1>3. /\ Running(n)' => Running(n)
      /\ box' = Stopped(n) => ~Running(n)'
  BY StoppedBoxes DEF Running
<1>4. box[n].image # 0 /\ Absent.image = 0
  BY ExistingBoxes DEF Absent
<1>5. Exists(n)'
  BY <1>2, <1>4 DEF Exists
<1>6. BoxesFit'
  BY <1>2, <1>4, StoppedBoxes DEF BoxesFit, Exists
<1>. QED  BY <1>2, <1>3, <1>5, <1>6

(* A removal that may have failed: the container is as it was, or gone.    *)
LEMMA RemoveStep ==
  ASSUME BoxesFit, NEW n \in Names, box' \in {box, Removed(n)}
  PROVE  /\ BoxesFit' /\ \A m \in Names \ {n} : box'[m] = box[m]
         /\ box'[n] \in {box[n], Absent}
         /\ box' = Removed(n) => ~Exists(n)' /\ ~Running(n)'
<1>1. box' = box => box'[n] = box[n]
  OBVIOUS
<1>2. box'[n] \in {box[n], Absent} /\ \A m \in Names \ {n} : box'[m] = box[m]
  BY <1>1, RemovedBoxes
<1>3. box' = Removed(n) => ~Exists(n)' /\ ~Running(n)'
  BY RemovedBoxes DEF Exists, Running, Absent
<1>4. BoxesFit'
  BY <1>2, RemovedBoxes DEF BoxesFit, Exists
<1>. QED  BY <1>2, <1>3, <1>4

(* A name without a container runs nothing.                                *)
LEMMA GoneBoxes == ASSUME NEW n \in Names, box[n] = Absent PROVE ~Exists(n) /\ ~Running(n) /\ box[n].image = 0
BY DEF Exists, Running, Absent

(* A rename that may have failed: the container has its old name or the    *)
(* new one, never both.                                                    *)
LEMMA RenameStep ==
  ASSUME BoxesFit, NEW k \in Names, NEW n \in Names, CanRename(k, n), box' \in {box, Renamed(k, n)}
  PROVE  /\ BoxesFit' /\ \A m \in Names \ {k, n} : box'[m] = box[m]
         /\ \/ box'[k] = box[k] /\ box'[n] = Absent /\ box' # Renamed(k, n)
            \/ box'[n] = box[k] /\ box'[k] = Absent /\ ~Exists(k)' /\ ~Running(k)'
         /\ k # n
<1>1. k # n
  BY DEF CanRename
<1>2. CASE box' = box /\ box' # Renamed(k, n)
  BY <1>1, <1>2 DEF CanRename, Exists, BoxesFit
<1>3. CASE box' = Renamed(k, n)
  <2>1. box'[n] = box[k] /\ box'[k] = Absent /\ \A m \in Names \ {k, n} : box'[m] = box[m]
    BY <1>1, <1>3, RenamedBoxes
  <2>2. BoxesFit'
    BY <1>1, <1>3, <2>1, RenamedBoxes DEF BoxesFit, Exists
  <2>3. ~Exists(k)' /\ ~Running(k)'
    BY <2>1 DEF Exists, Running, Absent
  <2>. QED  BY <1>1, <2>1, <2>2, <2>3
<1>. QED  BY <1>2, <1>3

(* A creation that may have failed: nothing new, or the container asked    *)
(* for.                                                                    *)
LEMMA CreateStep ==
  ASSUME BoxesFit, NEW n \in Names, NEW i \in Images, NEW d \in Dirs,
         box' \in {box, [box EXCEPT ![n] = Created(i, d)]}
  PROVE  /\ BoxesFit' /\ \A m \in Names \ {n} : box'[m] = box[m]
         /\ \/ box'[n] = box[n] /\ box' # [box EXCEPT ![n] = Created(i, d)]
            \/ box'[n].image = i /\ box'[n].dir = d /\ ~Running(n)' /\ Exists(n)'
<1>1. CASE box' = box /\ box' # [box EXCEPT ![n] = Created(i, d)]
  BY <1>1 DEF BoxesFit, Exists
<1>2. CASE box' = [box EXCEPT ![n] = Created(i, d)]
  <2>1. /\ box' \in [Names -> Container]
        /\ box'[n].image = i /\ box'[n].dir = d /\ ~box'[n].up
        /\ \A m \in Names \ {n} : box'[m] = box[m]
    BY <1>2, CreatedBoxes
  <2>2. i # 0 /\ d # 0 /\ Absent.image = 0
    BY SagaAssumption DEF Absent
  <2>3. Exists(n)' /\ ~Running(n)'
    BY <2>1, <2>2 DEF Exists, Running
  <2>4. BoxesFit'
    BY <2>1, <2>2 DEF BoxesFit, Exists
  <2>. QED  BY <2>1, <2>3, <2>4
<1>. QED  BY <1>1, <1>2

(* Images are numbered from 1.                                             *)
LEMMA ImagesAre == \A i \in Images : i \in Nat /\ i >= 1
BY SagaAssumption

(* The rest of a command's step.                                           *)
LEMMA SagaTypes ==
  ASSUME SagaTypeOK, BoxesFit', UNCHANGED <<linked, row, removed, crashes, requests>>,
         data' \in [Dirs -> Images \cup {0}], faults' = faults \/ Fault
  PROVE  SagaTypeOK'
BY SagaAssumption DEF SagaTypeOK, BoxesFit, Container, Fault

(* A request for a removal is remembered until the container is there      *)
(* again or another installation is asked for.                             *)
Remembered == removed' = (ask'.op = "remove" \/ (removed /\ ask'.op # "install" /\ ~Exists("main")))
LEMMA RemovedIs == ASSUME SagaTypeOK, Remembered PROVE removed' \in BOOLEAN
BY DEF Remembered

(* What keeps a container of a registered module: it goes only when its    *)
(* removal was asked for.                                                  *)
Present == Exists("main") \/ Exists("previous")
StillThere ==
  /\ pc # "idle" /\ ask.op = "remove" => removed
  /\ row # 0 /\ ~removed => Present

(* A step that takes no container from the name it can be started from.    *)
Harmless ==
  \/ box' = box \/ box' = Removed("candidate")
  \/ \E n \in Names : Exists(n) /\ box' \in {Started(n), Stopped(n)}
  \/ \E n \in Names : \E i \in Images : \E d \in Dirs : box' = [box EXCEPT ![n] = Created(i, d)]
  \/ \E k \in Names : \E n \in {"main", "previous"} : CanRename(k, n) /\ box' = Renamed(k, n)
(* It leaves one there.                                                    *)
LEMMA HarmlessKeeps == ASSUME BoxesFit, Harmless, Present PROVE Present'
<1>1. CASE box' = box
  BY <1>1 DEF Present, Exists
<1>2. CASE box' = Removed("candidate")
  <2>1. box'["main"] = box["main"] /\ box'["previous"] = box["previous"]
    BY <1>2, RemovedBoxes DEF Names
  <2>. QED  BY <2>1 DEF Present, Exists
<1>3. ASSUME NEW n \in Names, Exists(n), box' \in {Started(n), Stopped(n)} PROVE Present'
  <2>1. Exists(n)' /\ \A m \in Names \ {n} : box'[m] = box[m]
    BY <1>3, StartStep, StopStep
  <2>2. n = "candidate" => box'["main"] = box["main"] /\ box'["previous"] = box["previous"]
    BY <2>1 DEF Names
  <2>3. n \in {"main", "candidate", "previous"}
    BY DEF Names
  <2>. QED  BY <2>1, <2>2, <2>3 DEF Present, Exists
<1>4. ASSUME NEW n \in Names, NEW i \in Images, NEW d \in Dirs, box' = [box EXCEPT ![n] = Created(i, d)] PROVE Present'
  <2>1. /\ \A m \in Names \ {n} : box'[m] = box[m]
        /\ box'[n] = box[n] \/ Exists(n)'
    BY <1>4, CreateStep
  <2>. QED  BY <2>1 DEF Present, Exists, Names
<1>5. ASSUME NEW k \in Names, NEW n \in {"main", "previous"}, CanRename(k, n), box' = Renamed(k, n) PROVE Present'
  <2>1. n \in Names /\ k # n /\ box[k] # Absent
    BY <1>5 DEF CanRename, Exists, Names
  <2>2. box'[n] = box[k]
    BY <1>5, <2>1, RenamedBoxes
  <2>. QED  BY <2>1, <2>2 DEF Present, Exists
<1>. QED  BY <1>1, <1>2, <1>3, <1>4, <1>5 DEF Harmless

(* A command of an operation under way.                                    *)
LEMMA CommandStill ==
  ASSUME StillThere, Frame, pc' # "idle" => pc # "idle", row # 0 /\ ~removed /\ Present => Present'
  PROVE  StillThere'
BY DEF StillThere, Frame
(* A request that finds the helper free.                                   *)
LEMMA AskStill ==
  ASSUME StillThere, Remembered, box' = box, row' = row, ask'.op = "install" => row = 0
  PROVE  StillThere'
<1>1. Exists("main")' <=> Exists("main")
  BY DEF Exists
<1>2. Present' <=> Present
  BY DEF Present, Exists
<1>3. Exists("main") => Present
  BY DEF Present
<1>. QED  BY <1>2, <1>3 DEF StillThere, Remembered
(* Core's second request.                                                  *)
LEMMA SecondStill ==
  ASSUME StillThere, box' = box, removed' = removed, row # 0, ask'.op # "remove"
  PROVE  StillThere'
<1>1. Present' <=> Present
  BY DEF Present, Exists
<1>. QED  BY <1>1 DEF StillThere
(* The end of an operation.                                                *)
LEMMA AnswerStill ==
  ASSUME StillThere, Answered \/ CoreDies \/ HelperDies, pc = "ok" /\ ask.op = "install" => Exists("main")
  PROVE  StillThere'
<1>1. Present' <=> Present
  BY DEF Present, Exists, Answered, CoreDies, HelperDies
<1>2. removed' = removed /\ ask' = ask /\ pc' \in {pc, "idle"}
  BY DEF Answered, CoreDies, HelperDies
<1>3. \/ row' = row \/ row' = 0 \/ (pc = "ok" /\ ask.op = "install")
  BY DEF Answered, CoreDies, HelperDies
<1>4. Exists("main") => Present
  BY DEF Present
<1>. QED  BY <1>1, <1>2, <1>3, <1>4 DEF StillThere

(* The first state.                                                        *)
LEMMA FirstBoxes ==
  ASSUME SagaInit
  PROVE  /\ SagaTypeOK /\ BoxesFit
         /\ ~Exists("candidate") /\ ~Exists("previous") /\ ~Running("candidate") /\ ~Running("previous")
         /\ IF row = 1 THEN Exists("main") /\ Running("main") /\ box["main"].image = 1 /\ box["main"].dir = 1
                       ELSE ~Exists("main") /\ ~Running("main")
<1>. USE DEF SagaInit, Names
<1>1. /\ box \in [Names -> Container] /\ box["candidate"] = Absent /\ box["previous"] = Absent
      /\ IF row = 1 THEN box["main"].image = 1 /\ box["main"].dir = 1 /\ box["main"].up = TRUE ELSE box["main"] = Absent
  BY SagaAssumption DEF Container, Absent
<1>2. BoxesFit
  BY <1>1 DEF BoxesFit, Exists
<1>3. SagaTypeOK
  <2>1. data \in [Dirs -> Images \cup {0}]
    BY SagaAssumption
  <2>2. faults \in 0..MaxFaults /\ crashes \in 0..MaxCrashes /\ requests \in 0..MaxRequests /\ row \in Images \cup {0}
    BY SagaAssumption
  <2>3. linked \in BOOLEAN /\ removed \in BOOLEAN
    OBVIOUS
  <2>. QED  BY <1>1, <2>1, <2>2, <2>3 DEF SagaTypeOK, Container
<1>4. row = 1 => Exists("main") /\ Running("main")
  BY <1>1, <1>2, ExistingBoxes DEF Running
<1>. QED  BY <1>1, <1>2, <1>3, <1>4, GoneBoxes

(***************************************************************************)
(* The AI Agent's devices.                                                 *)
(***************************************************************************)
AIPlaces == {"idle", "ok", "error", "ai_preparing", "ai_controlling", "ai_checking", "ai_creating",
  "ai_stopping", "ai_abandoning", "ai_trying", "ai_watching", "ai_retiring", "ai_promoting",
  "ai_clearing", "ai_undoing", "ai_renaming", "ai_relaunching"}
Applying == AIPlaces \ {"idle", "ok", "error", "ai_preparing", "ai_controlling"}
Proposed == {"ai_stopping", "ai_abandoning", "ai_trying", "ai_watching", "ai_retiring", "ai_promoting"}

(* Every container of the agent is of the CPU or the GPU image and on the  *)
(* agent's one directory, and one of them is there under a name from which *)
(* it can be started.                                                      *)
AgentStays == Exists("main") \/ Exists("previous")
AgentFits ==
  /\ data[Agent] = 1 /\ \A n \in Names : Exists(n) => box[n].dir = Agent /\ box[n].image \in {1, 2}
  /\ pc \in AIPlaces /\ ask.new \in {1, 2}
  /\ ask.op \in {"none", "apply", "prepare", "start", "stop"}
  /\ pc \in Applying => ask.op = "apply"
  /\ pc = "ai_preparing" => ask.op = "prepare"
  /\ pc = "ai_controlling" => ask.op \in {"start", "stop"}

(* What each step of applyAIGPUSelection has made of the containers.       *)
CandidateFits ==
  /\ pc = "ai_creating" => StageFree
  /\ pc \in {"ai_creating", "ai_stopping", "ai_abandoning", "ai_trying", "ai_watching", "ai_retiring"} =>
       Exists("main") /\ ~Exists("previous")
  /\ pc \in Proposed => Exists("candidate") /\ box["candidate"].image = ask.new
  /\ pc \in {"ai_stopping", "ai_abandoning", "ai_trying"} => ~Running("candidate")
  /\ pc \in {"ai_watching", "ai_retiring", "ai_promoting"} => Running("candidate")
  /\ pc \in {"ai_trying", "ai_watching", "ai_retiring"} => ~Running("main")
  /\ pc = "ai_promoting" => ~Exists("main") /\ Exists("previous") /\ ~Running("previous")
  /\ pc = "ai_clearing" => Running("main") /\ box["main"].image = ask.new

(* While nothing has died, the old container never runs under its second   *)
(* name, and a candidate outlives a rollback only by a second failure.     *)
FailuresFit ==
  crashes = 0 =>
    /\ ~Running("previous")
    /\ pc \in {"ai_undoing", "ai_renaming", "ai_relaunching"} => faults > 0
    /\ pc \in AIPlaces \ {"ai_watching", "ai_retiring", "ai_promoting", "ai_undoing"} =>
         faults > 1 \/ ~Running("candidate")
    /\ pc = "ai_undoing" => ~(Running("main") /\ Running("candidate"))

AIInv == AITypeOK /\ BoxesFit /\ AgentFits /\ AgentStays /\ CandidateFits /\ FailuresFit /\ AppliedIsServed

USE DEF AIPlaces, Applying, Proposed

(* Steps that only look: inspections, the preparation of the GPU, the      *)
(* journal.                                                                *)
LEMMA AIChecksKeep ==
  ASSUME AIInv,
         CheckAI \/ WatchAI \/ NotPrepared \/ PrepareGPU
  PROVE  AIInv'
<1>. USE DEF AIInv, Names, CheckAI, Check, AI, aiVars, Command, Frame, WatchAI, NotPrepared, PrepareGPU, Write
<1>1. BoxesFit' /\ box' = box
  BY DEF Check, BoxesFit, Exists, Write
<1>2. AITypeOK'
  BY <1>1, SagaTypes DEF AITypeOK, SagaTypeOK
<1>3. AgentFits'
  BY <1>1, ExistingBoxes DEF AgentFits, Exists
<1>4. AgentStays'
  BY <1>1, ExistingBoxes DEF AgentStays, CandidateFits, StageFree, Exists, CanRename
<1>5. CandidateFits'
  BY <1>1, ExistingBoxes DEF CandidateFits, AgentFits, StageFree, Exists, Running, CanRename
<1>6. FailuresFit'
  BY <1>1, ExistingBoxes DEF FailuresFit, CandidateFits, StageFree, Exists, Running, CanRename, Fault, AITypeOK,
    SagaTypeOK
<1>7. AppliedIsServed'
  BY <1>1 DEF AppliedIsServed, AgentFits, CandidateFits, Running
<1>. QED  BY <1>1, <1>2, <1>3, <1>4, <1>5, <1>6, <1>7

(* Starting or stopping the service on request.                            *)
LEMMA ControlAIKeeps == ASSUME AIInv, ControlAI PROVE AIInv'
<1>. USE DEF AIInv, Names, ControlAI, AI, aiVars, Command, Frame
<1>1. /\ BoxesFit' /\ \A m \in Names \ {"main"} : box'[m] = box[m]
      /\ box'["main"].image = box["main"].image /\ box'["main"].dir = box["main"].dir
      /\ Exists("main")' <=> Exists("main")
  BY StartStep, StopStep DEF BoxesFit, Exists
<1>2. AITypeOK'
  BY <1>1, SagaTypes DEF AITypeOK, SagaTypeOK
<1>3. AgentFits'
  BY <1>1, ExistingBoxes DEF AgentFits, Exists
<1>4. AgentStays'
  BY <1>1, ExistingBoxes DEF AgentStays, CandidateFits, StageFree, Exists, CanRename
<1>5. CandidateFits'
  BY <1>1, ExistingBoxes DEF CandidateFits, AgentFits, StageFree, Exists, Running, CanRename
<1>6. FailuresFit'
  BY <1>1, ExistingBoxes DEF FailuresFit, CandidateFits, StageFree, Exists, Running, CanRename, Fault, AITypeOK,
    SagaTypeOK
<1>7. AppliedIsServed'
  BY <1>1 DEF AppliedIsServed, AgentFits, CandidateFits, Running
<1>. QED  BY <1>1, <1>2, <1>3, <1>4, <1>5, <1>6, <1>7

(* The replacement is created beside the service, with the GPU asked for.  *)
LEMMA CreateAIKeeps == ASSUME AIInv, CreateAI PROVE AIInv'
<1>. USE DEF AIInv, Names, CreateAI, AI, aiVars, Command, Frame
<1>1. /\ BoxesFit' /\ \A m \in Names \ {"candidate"} : box'[m] = box[m]
      /\ \/ box'["candidate"] = box["candidate"] /\ box' # [box EXCEPT !["candidate"] = Created(ask.new, Agent)]
         \/ /\ box'["candidate"].image = ask.new /\ box'["candidate"].dir = Agent
            /\ ~Running("candidate")' /\ Exists("candidate")'
  BY CreateStep, AgentAssumption, SagaAssumption DEF AgentFits, Agent, BoxesFit, Exists
<1>2. AITypeOK'
  BY <1>1, SagaTypes DEF AITypeOK, SagaTypeOK
<1>3. AgentFits'
  BY <1>1, ExistingBoxes DEF AgentFits, Exists
<1>4. AgentStays'
  BY <1>1, ExistingBoxes DEF AgentStays, CandidateFits, StageFree, Exists, CanRename
<1>5. CandidateFits'
  BY <1>1, ExistingBoxes DEF CandidateFits, AgentFits, StageFree, Exists, Running, CanRename
<1>6. FailuresFit'
  BY <1>1, ExistingBoxes DEF FailuresFit, CandidateFits, StageFree, Exists, Running, CanRename, Fault, AITypeOK,
    SagaTypeOK
<1>7. AppliedIsServed'
  BY <1>1 DEF AppliedIsServed, AgentFits, CandidateFits, Running
<1>. QED  BY <1>1, <1>2, <1>3, <1>4, <1>5, <1>6, <1>7

(* The service is stopped for its replacement.                             *)
LEMMA StopAIKeeps == ASSUME AIInv, StopAI PROVE AIInv'
<1>. USE DEF AIInv, Names, StopAI, AI, aiVars, Command, Frame
<1>1. /\ BoxesFit' /\ \A m \in Names \ {"main"} : box'[m] = box[m]
      /\ box'["main"].image = box["main"].image /\ box'["main"].dir = box["main"].dir
      /\ Exists("main") => Exists("main")' /\ (Running("main")' => Running("main"))
      /\ ~Exists("main") => box' = box
      /\ Exists("main") /\ box' = Stopped("main") => ~Running("main")'
  BY StopStep DEF BoxesFit, Exists
<1>2. AITypeOK'
  BY <1>1, SagaTypes DEF AITypeOK, SagaTypeOK
<1>3. AgentFits'
  BY <1>1, ExistingBoxes DEF AgentFits, Exists
<1>4. AgentStays'
  BY <1>1, ExistingBoxes DEF AgentStays, CandidateFits, StageFree, Exists, CanRename
<1>5. CandidateFits'
  BY <1>1, ExistingBoxes DEF CandidateFits, AgentFits, StageFree, Exists, Running, CanRename
<1>6. FailuresFit'
  BY <1>1, ExistingBoxes DEF FailuresFit, CandidateFits, StageFree, Exists, Running, CanRename, Fault, AITypeOK,
    SagaTypeOK
<1>7. AppliedIsServed'
  BY <1>1 DEF AppliedIsServed, AgentFits, CandidateFits, Running
<1>. QED  BY <1>1, <1>2, <1>3, <1>4, <1>5, <1>6, <1>7

(* The replacement is given up: only its own name is concerned.            *)
LEMMA AIRemovalsKeep ==
  ASSUME AIInv,
         AbandonAI \/ UndoAI
  PROVE  AIInv'
<1>. USE DEF AIInv, Names, AbandonAI, AI, aiVars, Command, Frame, UndoAI
<1>1. /\ BoxesFit' /\ \A m \in Names \ {"candidate"} : box'[m] = box[m]
      /\ box'["candidate"] \in {box["candidate"], Absent}
      /\ box' = Removed("candidate") => ~Exists("candidate")' /\ ~Running("candidate")'
  BY RemoveStep DEF BoxesFit, Exists
<1>2. AITypeOK'
  BY <1>1, SagaTypes DEF AITypeOK, SagaTypeOK
<1>3. AgentFits'
  BY <1>1, ExistingBoxes DEF AgentFits, Exists
<1>4. AgentStays'
  BY <1>1, ExistingBoxes DEF AgentStays, CandidateFits, StageFree, Exists, CanRename
<1>5. CandidateFits'
  BY <1>1, ExistingBoxes DEF CandidateFits, AgentFits, StageFree, Exists, Running, CanRename
<1>6. FailuresFit'
  BY <1>1, ExistingBoxes DEF FailuresFit, CandidateFits, StageFree, Exists, Running, CanRename, Fault, AITypeOK,
    SagaTypeOK
<1>7. AppliedIsServed'
  BY <1>1 DEF AppliedIsServed, AgentFits, CandidateFits, Running
<1>. QED  BY <1>1, <1>2, <1>3, <1>4, <1>5, <1>6, <1>7

(* The replacement is started while the service is down.                   *)
LEMMA TryAIKeeps == ASSUME AIInv, TryAI PROVE AIInv'
<1>. USE DEF AIInv, Names, TryAI, AI, aiVars, Command, Frame
<1>1. /\ BoxesFit' /\ \A m \in Names \ {"candidate"} : box'[m] = box[m]
      /\ box'["candidate"].image = box["candidate"].image /\ box'["candidate"].dir = box["candidate"].dir
      /\ Exists("candidate") => Exists("candidate")' /\ (Running("candidate") => Running("candidate")')
      /\ ~Exists("candidate") => box' = box
      /\ Exists("candidate") /\ box' = Started("candidate") => Running("candidate")'
  BY StartStep DEF BoxesFit, Exists
<1>2. AITypeOK'
  BY <1>1, SagaTypes DEF AITypeOK, SagaTypeOK
<1>3. AgentFits'
  BY <1>1, ExistingBoxes DEF AgentFits, Exists
<1>4. AgentStays'
  BY <1>1, ExistingBoxes DEF AgentStays, CandidateFits, StageFree, Exists, CanRename
<1>5. CandidateFits'
  BY <1>1, ExistingBoxes DEF CandidateFits, AgentFits, StageFree, Exists, Running, CanRename
<1>6. FailuresFit'
  BY <1>1, ExistingBoxes DEF FailuresFit, CandidateFits, StageFree, Exists, Running, CanRename, Fault, AITypeOK,
    SagaTypeOK
<1>7. AppliedIsServed'
  BY <1>1 DEF AppliedIsServed, AgentFits, CandidateFits, Running
<1>. QED  BY <1>1, <1>2, <1>3, <1>4, <1>5, <1>6, <1>7

(* The old service steps aside once its replacement has answered.          *)
LEMMA RetireAIKeeps == ASSUME AIInv, RetireAI PROVE AIInv'
<1>. USE DEF AIInv, Names, RetireAI, AI, aiVars, Command, Frame
<1>1. /\ BoxesFit' /\ box'["candidate"] = box["candidate"]
      /\ \/ /\ box'["main"] = box["main"] /\ box'["previous"] = box["previous"]
            /\ CanRename("main", "previous") => box' # Renamed("main", "previous")
         \/ /\ CanRename("main", "previous") /\ box'["previous"] = box["main"] /\ box'["main"] = Absent
            /\ ~Exists("main")' /\ ~Running("main")'
  <2>1. CASE CanRename("main", "previous")
    BY <2>1, RenameStep
  <2>2. CASE ~CanRename("main", "previous")
    BY <2>2 DEF BoxesFit, Exists
  <2>. QED  BY <2>1, <2>2
<1>2. AITypeOK'
  BY <1>1, SagaTypes DEF AITypeOK, SagaTypeOK
<1>3. AgentFits'
  BY <1>1, ExistingBoxes DEF AgentFits, Exists
<1>4. AgentStays'
  BY <1>1, ExistingBoxes DEF AgentStays, CandidateFits, StageFree, Exists, CanRename
<1>5. CandidateFits'
  BY <1>1, ExistingBoxes DEF CandidateFits, AgentFits, StageFree, Exists, Running, CanRename
<1>6. FailuresFit'
  BY <1>1, ExistingBoxes DEF FailuresFit, CandidateFits, StageFree, Exists, Running, CanRename, Fault, AITypeOK,
    SagaTypeOK
<1>7. AppliedIsServed'
  BY <1>1 DEF AppliedIsServed, AgentFits, CandidateFits, Running
<1>. QED  BY <1>1, <1>2, <1>3, <1>4, <1>5, <1>6, <1>7

(* The replacement takes the service's name.                               *)
LEMMA PromoteAIKeeps == ASSUME AIInv, PromoteAI PROVE AIInv'
<1>. USE DEF AIInv, Names, PromoteAI, AI, aiVars, Command, Frame
<1>1. /\ BoxesFit' /\ box'["previous"] = box["previous"]
      /\ \/ /\ box'["candidate"] = box["candidate"] /\ box'["main"] = box["main"]
            /\ CanRename("candidate", "main") => box' # Renamed("candidate", "main")
         \/ /\ CanRename("candidate", "main") /\ box'["main"] = box["candidate"] /\ box'["candidate"] = Absent
            /\ ~Exists("candidate")' /\ ~Running("candidate")'
  <2>1. CASE CanRename("candidate", "main")
    BY <2>1, RenameStep
  <2>2. CASE ~CanRename("candidate", "main")
    BY <2>2 DEF BoxesFit, Exists
  <2>. QED  BY <2>1, <2>2
<1>2. AITypeOK'
  BY <1>1, SagaTypes DEF AITypeOK, SagaTypeOK
<1>3. AgentFits'
  BY <1>1, ExistingBoxes DEF AgentFits, Exists
<1>4. AgentStays'
  BY <1>1, ExistingBoxes DEF AgentStays, CandidateFits, StageFree, Exists, CanRename
<1>5. CandidateFits'
  BY <1>1, ExistingBoxes DEF CandidateFits, AgentFits, StageFree, Exists, Running, CanRename
<1>6. FailuresFit'
  BY <1>1, ExistingBoxes DEF FailuresFit, CandidateFits, StageFree, Exists, Running, CanRename, Fault, AITypeOK,
    SagaTypeOK
<1>7. AppliedIsServed'
  BY <1>1 DEF AppliedIsServed, AgentFits, CandidateFits, Running
<1>. QED  BY <1>1, <1>2, <1>3, <1>4, <1>5, <1>6, <1>7

(* The old service is removed once the replacement serves.                 *)
LEMMA ClearAIKeeps == ASSUME AIInv, ClearAI PROVE AIInv'
<1>. USE DEF AIInv, Names, ClearAI, AI, aiVars, Command, Frame
<1>1. /\ BoxesFit' /\ \A m \in Names \ {"previous"} : box'[m] = box[m]
      /\ box'["previous"] \in {box["previous"], Absent}
      /\ box' = Removed("previous") => ~Exists("previous")' /\ ~Running("previous")'
  BY RemoveStep DEF BoxesFit, Exists
<1>2. AITypeOK'
  BY <1>1, SagaTypes DEF AITypeOK, SagaTypeOK
<1>3. AgentFits'
  BY <1>1, ExistingBoxes DEF AgentFits, Exists
<1>4. AgentStays'
  BY <1>1, ExistingBoxes DEF AgentStays, CandidateFits, StageFree, Exists, CanRename
<1>5. CandidateFits'
  BY <1>1, ExistingBoxes DEF CandidateFits, AgentFits, StageFree, Exists, Running, CanRename
<1>6. FailuresFit'
  BY <1>1, ExistingBoxes DEF FailuresFit, CandidateFits, StageFree, Exists, Running, CanRename, Fault, AITypeOK,
    SagaTypeOK
<1>7. AppliedIsServed'
  BY <1>1 DEF AppliedIsServed, AgentFits, CandidateFits, Running
<1>. QED  BY <1>1, <1>2, <1>3, <1>4, <1>5, <1>6, <1>7

(* The way back: the old service gets its name again.                      *)
LEMMA RenameAIKeeps == ASSUME AIInv, RenameAI PROVE AIInv'
<1>. USE DEF AIInv, Names, RenameAI, AI, aiVars, Command, Frame
<1>1. /\ BoxesFit' /\ box'["candidate"] = box["candidate"]
      /\ \/ /\ box'["previous"] = box["previous"] /\ box'["main"] = box["main"]
            /\ CanRename("previous", "main") => box' # Renamed("previous", "main")
         \/ /\ CanRename("previous", "main") /\ box'["main"] = box["previous"] /\ box'["previous"] = Absent
            /\ ~Exists("previous")' /\ ~Running("previous")'
  <2>1. CASE CanRename("previous", "main")
    BY <2>1, RenameStep
  <2>2. CASE ~CanRename("previous", "main")
    BY <2>2 DEF BoxesFit, Exists
  <2>. QED  BY <2>1, <2>2
<1>2. AITypeOK'
  BY <1>1, SagaTypes DEF AITypeOK, SagaTypeOK
<1>3. AgentFits'
  BY <1>1, ExistingBoxes DEF AgentFits, Exists
<1>4. AgentStays'
  BY <1>1, ExistingBoxes DEF AgentStays, CandidateFits, StageFree, Exists, CanRename
<1>5. CandidateFits'
  BY <1>1, ExistingBoxes DEF CandidateFits, AgentFits, StageFree, Exists, Running, CanRename
<1>6. FailuresFit'
  BY <1>1, ExistingBoxes DEF FailuresFit, CandidateFits, StageFree, Exists, Running, CanRename, Fault, AITypeOK,
    SagaTypeOK
<1>7. AppliedIsServed'
  BY <1>1 DEF AppliedIsServed, AgentFits, CandidateFits, Running
<1>. QED  BY <1>1, <1>2, <1>3, <1>4, <1>5, <1>6, <1>7

(* The way back: the old service runs again.                               *)
LEMMA RelaunchAIKeeps == ASSUME AIInv, RelaunchAI PROVE AIInv'
<1>. USE DEF AIInv, Names, RelaunchAI, AI, aiVars, Command, Frame
<1>1. /\ BoxesFit' /\ \A m \in Names \ {"main"} : box'[m] = box[m]
      /\ box'["main"].image = box["main"].image /\ box'["main"].dir = box["main"].dir
      /\ Exists("main") => Exists("main")' /\ (Running("main") => Running("main")')
      /\ ~Exists("main") => box' = box
      /\ Exists("main") /\ box' = Started("main") => Running("main")'
  BY StartStep DEF BoxesFit, Exists
<1>2. AITypeOK'
  BY <1>1, SagaTypes DEF AITypeOK, SagaTypeOK
<1>3. AgentFits'
  BY <1>1, ExistingBoxes DEF AgentFits, Exists
<1>4. AgentStays'
  BY <1>1, ExistingBoxes DEF AgentStays, CandidateFits, StageFree, Exists, CanRename
<1>5. CandidateFits'
  BY <1>1, ExistingBoxes DEF CandidateFits, AgentFits, StageFree, Exists, Running, CanRename
<1>6. FailuresFit'
  BY <1>1, ExistingBoxes DEF FailuresFit, CandidateFits, StageFree, Exists, Running, CanRename, Fault, AITypeOK,
    SagaTypeOK
<1>7. AppliedIsServed'
  BY <1>1 DEF AppliedIsServed, AgentFits, CandidateFits, Running
<1>. QED  BY <1>1, <1>2, <1>3, <1>4, <1>5, <1>6, <1>7

(* A request finds the helper free, whatever an earlier one has left.      *)
LEMMA AskAIKeeps == ASSUME AIInv, AskAI PROVE AIInv'
<1>. USE DEF AIInv, Names, AskAI, Ask, Mode, aiVars
<1>1. BoxesFit' /\ box' = box
  BY DEF BoxesFit, Exists
<1>2. AITypeOK'
  <2>1. requests' = requests + 1 /\ requests < MaxRequests /\ linked' = TRUE
          /\ UNCHANGED <<box, data, row, faults, crashes, cached, moved, ready>>
    OBVIOUS
  <2>2. Remembered
    BY DEF Remembered
  <2>3. removed' \in BOOLEAN
    BY <2>2, RemovedIs DEF AITypeOK
  <2>. QED  BY <2>1, <2>3, SagaAssumption DEF AITypeOK, SagaTypeOK
<1>3. AgentFits'
  BY <1>1 DEF AgentFits, Exists
<1>4. AgentStays' /\ CandidateFits' /\ AppliedIsServed'
  BY <1>1 DEF AgentStays, CandidateFits, AppliedIsServed, Exists
<1>5. FailuresFit'
  BY <1>1 DEF FailuresFit, Running
<1>. QED  BY <1>1, <1>2, <1>3, <1>4, <1>5

(* A change of the driver, an answer, a death of Core or of the helper.    *)
LEMMA AroundAIKeeps ==
  ASSUME AIInv, DriverChanges \/ AI(Answered) \/ AI(CoreDies) \/ AIHelperDies
  PROVE  AIInv'
<1>. USE DEF AIInv, Names, DriverChanges, AI, Answered, CoreDies, Crash, AIHelperDies, HelperDies, aiVars
<1>1. BoxesFit' /\ box' = box /\ data' = data /\ ask' = ask
  BY DEF BoxesFit, Exists
<1>2. pc' \in {pc, "idle"}
  OBVIOUS
<1>3. AITypeOK'
  <2>1. row' = row
    BY DEF AgentFits
  <2>2. linked' \in BOOLEAN /\ faults' = faults /\ cached' \in BOOLEAN /\ moved' \in BOOLEAN /\ ready' \in BOOLEAN
    BY DEF AITypeOK, SagaTypeOK
  <2>3. \/ crashes' = crashes /\ requests' = requests
        \/ crashes' = crashes + 1 /\ crashes < MaxCrashes /\ requests' = requests
        \/ crashes' = crashes /\ requests < MaxRequests /\ requests' = requests + 1
    OBVIOUS
  <2>4. SagaTypeOK'
    BY <1>1, <2>1, <2>2, <2>3, SagaAssumption DEF AITypeOK, SagaTypeOK
  <2>. QED  BY <2>2, <2>4 DEF AITypeOK
<1>4. AgentFits'
  BY <1>1, <1>2 DEF AgentFits, Exists
<1>5. AgentStays' /\ CandidateFits' /\ AppliedIsServed'
  BY <1>1, <1>2 DEF AgentStays, CandidateFits, AppliedIsServed, Exists, Running, StageFree
<1>6. FailuresFit'
  BY <1>1, <1>2 DEF FailuresFit, Running, AITypeOK, SagaTypeOK
<1>. QED  BY <1>1, <1>3, <1>4, <1>5, <1>6

(* Every step of the assignment keeps its invariant.                       *)
LEMMA AIKeeps == ASSUME AIInv, AINext PROVE AIInv'
BY AskAIKeeps, AroundAIKeeps, AIChecksKeep, ControlAIKeeps, CreateAIKeeps, StopAIKeeps, AIRemovalsKeep,
  TryAIKeeps, RetireAIKeeps, PromoteAIKeeps, ClearAIKeeps, RenameAIKeeps, RelaunchAIKeeps
DEF AINext

(* An installed service, or none, satisfies it.                            *)
LEMMA AIStarts == ASSUME AIInit PROVE AIInv
<1>. USE DEF AIInit, SagaInit, Names
<1>1. box \in [Names -> Container] /\ box["main"].image = 1 /\ box["main"].dir = 1
        /\ box["candidate"] = Absent /\ box["previous"] = Absent
  BY SagaAssumption DEF Container, Absent
<1>2. BoxesFit
  BY <1>1 DEF BoxesFit, Exists
<1>3. AITypeOK
  <2>1. data \in [Dirs -> Images \cup {0}]
    BY SagaAssumption
  <2>2. faults \in 0..MaxFaults /\ crashes \in 0..MaxCrashes /\ requests \in 0..MaxRequests /\ row \in Images \cup {0}
    BY SagaAssumption
  <2>3. linked \in BOOLEAN /\ removed \in BOOLEAN /\ moved \in BOOLEAN
    OBVIOUS
  <2>. QED  BY <1>1, <2>1, <2>2, <2>3 DEF AITypeOK, SagaTypeOK, Container
<1>4. Exists("main")
  BY <1>1, <1>2, ExistingBoxes
<1>5. ~Exists("candidate") /\ ~Exists("previous") /\ ~Running("candidate") /\ ~Running("previous")
  BY <1>1, GoneBoxes
<1>6. AgentFits
  BY <1>1, <1>5, SagaAssumption DEF AgentFits, Agent
<1>. QED  BY <1>2, <1>3, <1>4, <1>5, <1>6 DEF AIInv, AgentStays, CandidateFits, FailuresFit, AppliedIsServed

(* What the run checks follows.                                            *)
LEMMA AIPromises == ASSUME AIInv PROVE AITypeOK /\ OneAgent /\ AgentSurvives /\ OldCodeOnItsData /\ AppliedIsServed
<1>. USE DEF AIInv, Names
<1>3. AgentSurvives
  BY DEF AgentSurvives, AgentStays, AgentFits
<1>1. OldCodeOnItsData
  <2>. SUFFICES ASSUME NEW n \in Names, Running(n) PROVE data[box[n].dir] <= box[n].image
    BY DEF OldCodeOnItsData
  <2>1. box[n].dir = Agent /\ box[n].image \in Images /\ data[Agent] = 1
    BY ExistingBoxes DEF AgentFits
  <2>2. \A i \in Images : 1 <= i
    BY SagaAssumption
  <2>. QED  BY <2>1, <2>2
<1>2. OneAgent
  <2>. SUFFICES ASSUME faults <= 1, crashes = 0, NEW m \in Names, NEW n \in Names, Running(m), Running(n), m # n
                PROVE  FALSE
    BY DEF OneAgent, OneWriter
  <2>1. Running("main") /\ Running("candidate") /\ faults \in Nat
    BY DEF FailuresFit, AITypeOK, SagaTypeOK
  <2>2. pc \in {"ai_watching", "ai_retiring"}
    BY <2>1, ExistingBoxes DEF FailuresFit, AgentFits, CandidateFits
  <2>. QED  BY <2>1, <2>2 DEF CandidateFits
<1>. QED  BY <1>1, <1>2, <1>3

HIDE DEF AIPlaces, Applying, Proposed

(***************************************************************************)
(* The recorder.                                                           *)
(***************************************************************************)
NVRPlaces == {"idle", "ok", "error", "inspecting", "waking", "preparing", "linking", "making", "launching",
  "verifying", "dropping", "validating", "pausing", "parking", "removing", "locating", "claiming", "halting",
  "copying", "filling", "comparing", "setting_aside", "switching", "checking", "trying", "awaiting",
  "halting_again", "unlinking", "putting_back", "reviving"}
Activating == {"locating", "claiming", "halting", "copying", "filling", "comparing", "setting_aside", "switching",
  "checking", "trying", "awaiting", "halting_again", "unlinking", "putting_back", "reviving"}
(* The old directory is to be copied or is being copied.                   *)
Copying == {"halting", "copying", "filling", "comparing", "setting_aside"}
(* The recorder has been stopped and not yet been started again.           *)
AtRest == {"copying", "filling", "comparing", "setting_aside", "switching", "checking", "trying"}
OnLink == {"waking", "pausing", "making", "launching", "checking", "trying", "awaiting", "halting_again", "unlinking"}

(* The one container and the numbers in the directories.                   *)
RecorderFits ==
  /\ ~Exists("candidate") /\ ~Exists("previous")
  /\ Exists("main") => box["main"].image = 1 /\ box["main"].dir = 1
  /\ row \in {0, 1} /\ data[1] \in {0, 1}
  /\ pc \in NVRPlaces /\ ask.op \in {"none", "install", "activate", "start", "restart", "stop", "remove"}
  /\ ask.new = 1 \/ ask.op # "install"
  /\ (pc \in Activating) => ask.op = "activate"
  /\ pc \in NVRPlaces \ (Activating \cup {"idle", "ok", "error"}) => ask.op # "activate"
  /\ path \in {"dir", "link", "none"} /\ bound \in Places
  /\ recording \in Nat /\ seen \in Empty..recording
  /\ place \in [Places -> {TornCopy} \cup 0..recording] /\ place[Own] # TornCopy
PathFits ==
  /\ pc \in OnLink => path = "link"
  /\ pc \in {"claiming"} \cup Copying => path = "dir"
  /\ pc \in {"switching", "putting_back"} => path = "none"
  /\ pc \in AtRest => ~Running("main")
  /\ Running("main") /\ bound = Own => path = "dir"
  /\ path = "dir" \/ pc \in Activating \ {"locating"} => place[Own] # Missing

(* A directory with every recording made outside of a trial.               *)
WholeAt(p) == place[p] \in seen..recording

(* The disk has all of the old directory once it can be reached.           *)
DiskFits ==
  /\ path # "dir" \/ pc = "setting_aside" => place[Disk] >= place[Own]
  /\ pc = "linking" => place[Disk] # Missing
  /\ pc = "ok" /\ ask.op = "activate" => Running("main") /\ bound = Disk /\ path = "link"

(* As long as nothing lies under the mount point.                          *)
SeenFits ==
  place[Under] = Missing =>
    /\ path = "link" => WholeAt(Disk)
    /\ path = "none" => WholeAt(Disk) \/ (place[Disk] = Missing /\ seen = Empty /\ ~Running("main"))
    /\ path = "dir" /\ (place[Disk] = Missing \/ pc \in Copying) => WholeAt(Own)
    /\ Running("main") => place[bound] > Missing /\ WholeAt(bound) /\ bound # Under /\ (path # "dir" => bound = Disk)
    /\ pc = "halting" => (Running("main") => bound = Own)
    /\ pc \in {"switching", "checking", "trying", "awaiting", "halting_again", "unlinking", "putting_back", "reviving"} =>
         /\ ~Running("main") \/ bound = Disk \/ pc = "reviving"
         /\ ~Running("main") \/ pc \in {"awaiting", "halting_again"} => WholeAt(Own)
NVRInv == SagaTypeOK /\ BoxesFit /\ RecorderFits /\ PathFits /\ DiskFits /\ SeenFits

USE DEF NVRPlaces, Activating, Copying, AtRest, OnLink

(* Steps that only look: at the container, the link, the disk and the      *)
(* copy.                                                                   *)
LEMMA NVRChecksKeep ==
  ASSUME NVRInv,
         InspectNVR \/ Validate \/ VerifyNVR \/ Locate \/ CompareNVR \/ CheckSwitch \/ AwaitNVR
  PROVE  NVRInv'
<1>. USE DEF NVRInv, Names, Places, Own, Disk, Under, Missing, Empty, TornCopy, InspectNVR, NVRCommand, Still,
  nvrVars, Command, Check, Frame, Validate, VerifyNVR, Locate, CompareNVR, CheckSwitch, AwaitNVR
<1>1. BoxesFit' /\ box' = box
  BY DEF BoxesFit, Exists
<1>2. SagaTypeOK'
  BY <1>1, SagaTypes DEF SagaTypeOK
<1>3. RecorderFits'
  BY <1>1, ExistingBoxes DEF RecorderFits, Exists
<1>4. PathFits'
  BY <1>1, ExistingBoxes DEF PathFits, RecorderFits, Exists, Running, Linked, Located
<1>5. DiskFits'
  BY <1>1, ExistingBoxes DEF DiskFits, PathFits, RecorderFits, Running, Linked, Located, TargetPlace
<1>6. SeenFits'
  BY <1>1, ExistingBoxes DEF SeenFits, WholeAt, PathFits, RecorderFits, DiskFits, Running, Linked, Located,
    TargetPlace
<1>. QED  BY <1>1, <1>2, <1>3, <1>4, <1>5, <1>6

(* A stop of the recorder, before the copy, on the way back or on request. *)
LEMMA NVRStopsKeep ==
  ASSUME NVRInv,
         Pause \/ Park \/ HaltNVR \/ HaltAgain
  PROVE  NVRInv'
<1>. USE DEF NVRInv, Names, Places, Own, Disk, Under, Missing, Empty, TornCopy, Pause, NVRCommand, Still, nvrVars,
  Command, Check, Frame, Park, HaltNVR, HaltAgain
<1>1. /\ BoxesFit' /\ \A m \in Names \ {"main"} : box'[m] = box[m]
      /\ box'["main"].image = box["main"].image /\ box'["main"].dir = box["main"].dir
      /\ Exists("main") => Exists("main")' /\ (Running("main")' => Running("main"))
      /\ ~Exists("main") => box' = box
      /\ Exists("main") /\ box' = Stopped("main") => ~Running("main")'
  BY StopStep DEF BoxesFit, Exists
<1>2. SagaTypeOK'
  BY <1>1, SagaTypes DEF SagaTypeOK
<1>3. RecorderFits'
  BY <1>1, ExistingBoxes DEF RecorderFits, Exists
<1>4. PathFits'
  BY <1>1, ExistingBoxes DEF PathFits, RecorderFits, Exists, Running, Linked, Located
<1>5. DiskFits'
  BY <1>1, ExistingBoxes DEF DiskFits, PathFits, RecorderFits, Running, Linked, Located, TargetPlace
<1>6. SeenFits'
  BY <1>1, ExistingBoxes DEF SeenFits, WholeAt, PathFits, RecorderFits, DiskFits, Running, Linked, Located,
    TargetPlace
<1>. QED  BY <1>1, <1>2, <1>3, <1>4, <1>5, <1>6

(* The recorder's container is removed; its data stays.                    *)
LEMMA NVRRemovalsKeep ==
  ASSUME NVRInv,
         Uninstall \/ DropNVR
  PROVE  NVRInv'
<1>. USE DEF NVRInv, Names, Places, Own, Disk, Under, Missing, Empty, TornCopy, Uninstall, NVRCommand, Still,
  nvrVars, Command, Check, Frame, DropNVR
<1>1. /\ BoxesFit' /\ \A m \in Names \ {"main"} : box'[m] = box[m]
      /\ box'["main"] \in {box["main"], Absent}
      /\ box' = Removed("main") => ~Exists("main")' /\ ~Running("main")'
  BY RemoveStep DEF BoxesFit, Exists
<1>2. SagaTypeOK'
  BY <1>1, SagaTypes DEF SagaTypeOK
<1>3. RecorderFits'
  BY <1>1, ExistingBoxes DEF RecorderFits, Exists
<1>4. PathFits'
  BY <1>1, ExistingBoxes DEF PathFits, RecorderFits, Exists, Running, Linked, Located
<1>5. DiskFits'
  BY <1>1, ExistingBoxes DEF DiskFits, PathFits, RecorderFits, Running, Linked, Located, TargetPlace
<1>6. SeenFits'
  BY <1>1, ExistingBoxes DEF SeenFits, WholeAt, PathFits, RecorderFits, DiskFits, Running, Linked, Located,
    TargetPlace
<1>. QED  BY <1>1, <1>2, <1>3, <1>4, <1>5, <1>6

(* A new container is created only where none is.                          *)
LEMMA MakeNVRKeeps == ASSUME NVRInv, MakeNVR PROVE NVRInv'
<1>. USE DEF NVRInv, Names, Places, Own, Disk, Under, Missing, Empty, TornCopy, MakeNVR, NVRCommand, Still,
  nvrVars, Command, Check, Frame
<1>1. /\ BoxesFit' /\ \A m \in Names \ {"main"} : box'[m] = box[m]
      /\ \/ box'["main"] = box["main"] /\ box' # [box EXCEPT !["main"] = Created(1, 1)]
         \/ box'["main"].image = 1 /\ box'["main"].dir = 1 /\ ~Running("main")' /\ Exists("main")'
  BY CreateStep, SagaAssumption DEF BoxesFit, Exists
<1>2. SagaTypeOK'
  BY <1>1, SagaTypes DEF SagaTypeOK
<1>3. RecorderFits'
  BY <1>1, ExistingBoxes DEF RecorderFits, Exists
<1>4. PathFits'
  BY <1>1, ExistingBoxes DEF PathFits, RecorderFits, Exists, Running, Linked, Located
<1>5. DiskFits'
  BY <1>1, ExistingBoxes DEF DiskFits, PathFits, RecorderFits, Running, Linked, Located, TargetPlace
<1>6. SeenFits'
  BY <1>1, ExistingBoxes DEF SeenFits, WholeAt, PathFits, RecorderFits, DiskFits, Running, Linked, Located,
    TargetPlace
<1>. QED  BY <1>1, <1>2, <1>3, <1>4, <1>5, <1>6

(* A start mounts what the path leads to at that moment.                   *)
LEMMA NVRStartsKeep ==
  ASSUME NVRInv,
         Wake \/ Launch \/ TryNVR \/ ReviveNVR
  PROVE  NVRInv'
<1>. USE DEF NVRInv, Names, Places, Own, Disk, Under, Missing, Empty, TornCopy, Wake, NVRStart, Command, Frame,
  Launch, TryNVR, ReviveNVR
<1>1. /\ BoxesFit' /\ \A m \in Names \ {"main"} : box'[m] = box[m]
      /\ box'["main"].image = box["main"].image /\ box'["main"].dir = box["main"].dir
      /\ Exists("main") => Exists("main")' /\ (Running("main") => Running("main")')
      /\ ~Exists("main") => box' = box
      /\ Exists("main") /\ box' = Started("main") => Running("main")'
  <2>1. Running("main") => Exists("main")
    BY ExistingBoxes
  <2>2. CASE Exists("main") /\ box' \in {box, Started("main")}
    BY <2>2, StartStep
  <2>3. CASE ~Exists("main") /\ box' = box
    BY <2>1, <2>3 DEF BoxesFit, Exists, Running
  <2>. QED  BY <2>1, <2>2, <2>3 DEF Startable
<1>2. SagaTypeOK'
  BY <1>1, SagaTypes DEF SagaTypeOK
<1>3. RecorderFits'
  BY <1>1, ExistingBoxes DEF RecorderFits, Exists, Source, Startable, TargetPlace, Running
<1>4. PathFits'
  BY <1>1, ExistingBoxes DEF PathFits, RecorderFits, Exists, Running, Linked, Located, Source, Startable,
    TargetPlace
<1>5. DiskFits'
  BY <1>1, ExistingBoxes DEF DiskFits, PathFits, RecorderFits, Running, Linked, Located, TargetPlace
<1>6. SeenFits'
  BY <1>1, ExistingBoxes DEF SeenFits, WholeAt, PathFits, RecorderFits, DiskFits, Running, Linked, Located,
    TargetPlace, Source, Startable
<1>. QED  BY <1>1, <1>2, <1>3, <1>4, <1>5, <1>6

(* A fresh installation finds the disk without data, or refuses.           *)
LEMMA PrepareDiskKeeps == ASSUME NVRInv, PrepareDisk PROVE NVRInv'
<1>. USE DEF NVRInv, Names, Places, Own, Disk, Under, Missing, Empty, TornCopy, PrepareDisk, NVRWrite, Filled,
  Frame, NVRCommand, Still, nvrVars, Command, Check, Frame
<1>1. BoxesFit' /\ box' = box
  BY DEF BoxesFit, Exists
<1>2. SagaTypeOK'
  BY <1>1, SagaTypes DEF SagaTypeOK
<1>3. RecorderFits'
  BY <1>1, ExistingBoxes DEF RecorderFits, Exists, TargetPlace, PathFits
<1>4. PathFits'
  BY <1>1, ExistingBoxes DEF PathFits, RecorderFits, Exists, Running, Linked, Located
<1>5. DiskFits'
  BY <1>1, ExistingBoxes DEF DiskFits, PathFits, RecorderFits, Running, Linked, Located, TargetPlace
<1>6. SeenFits'
  BY <1>1, ExistingBoxes DEF SeenFits, WholeAt, PathFits, RecorderFits, DiskFits, Running, Linked, Located,
    TargetPlace
<1>. QED  BY <1>1, <1>2, <1>3, <1>4, <1>5, <1>6

(* A fresh installation links the path where nothing was.                  *)
LEMMA LinkFreshKeeps == ASSUME NVRInv, LinkFresh PROVE NVRInv'
<1>. USE DEF NVRInv, Names, Places, Own, Disk, Under, Missing, Empty, TornCopy, LinkFresh, NVRWrite, Filled, Frame
<1>1. BoxesFit' /\ box' = box
  BY DEF BoxesFit, Exists
<1>2. SagaTypeOK'
  BY <1>1, SagaTypes DEF SagaTypeOK
<1>3. RecorderFits'
  BY <1>1, ExistingBoxes DEF RecorderFits, Exists, TargetPlace, PathFits
<1>4. PathFits'
  BY <1>1, ExistingBoxes DEF PathFits, RecorderFits, Exists, Running, Linked, Located
<1>5. DiskFits'
  BY <1>1, ExistingBoxes DEF DiskFits, PathFits, RecorderFits, Running, Linked, Located, TargetPlace
<1>6. SeenFits'
  BY <1>1, ExistingBoxes DEF SeenFits, WholeAt, PathFits, RecorderFits, DiskFits, Running, Linked, Located,
    TargetPlace
<1>. QED  BY <1>1, <1>2, <1>3, <1>4, <1>5, <1>6

(* The target is taken only when nothing is there yet.                     *)
LEMMA ClaimTargetKeeps == ASSUME NVRInv, ClaimTarget PROVE NVRInv'
<1>. USE DEF NVRInv, Names, Places, Own, Disk, Under, Missing, Empty, TornCopy, ClaimTarget, NVRWrite, Filled, Frame
<1>1. BoxesFit' /\ box' = box
  BY DEF BoxesFit, Exists
<1>2. SagaTypeOK'
  BY <1>1, SagaTypes DEF SagaTypeOK
<1>3. RecorderFits'
  BY <1>1, ExistingBoxes DEF RecorderFits, Exists, TargetPlace, PathFits
<1>4. PathFits'
  BY <1>1, ExistingBoxes DEF PathFits, RecorderFits, Exists, Running, Linked, Located
<1>5. DiskFits'
  BY <1>1, ExistingBoxes DEF DiskFits, PathFits, RecorderFits, Running, Linked, Located, TargetPlace
<1>6. SeenFits'
  BY <1>1, ExistingBoxes DEF SeenFits, WholeAt, PathFits, RecorderFits, DiskFits, Running, Linked, Located,
    TargetPlace
<1>. QED  BY <1>1, <1>2, <1>3, <1>4, <1>5, <1>6

(* The copy begins while the recorder is down: the target is torn, the     *)
(* data is not touched.                                                    *)
LEMMA BeginCopyNVRKeeps == ASSUME NVRInv, BeginCopyNVR PROVE NVRInv'
<1>. USE DEF NVRInv, Names, Places, Own, Disk, Under, Missing, Empty, TornCopy, BeginCopyNVR, NVRWrite, Filled,
  Frame
<1>1. BoxesFit' /\ box' = box
  BY DEF BoxesFit, Exists
<1>2. SagaTypeOK'
  BY <1>1, SagaTypes DEF SagaTypeOK
<1>3. RecorderFits'
  BY <1>1, ExistingBoxes DEF RecorderFits, Exists, TargetPlace, PathFits
<1>4. PathFits'
  BY <1>1, ExistingBoxes DEF PathFits, RecorderFits, Exists, Running, Linked, Located
<1>5. DiskFits'
  BY <1>1, ExistingBoxes DEF DiskFits, PathFits, RecorderFits, Running, Linked, Located, TargetPlace
<1>6. SeenFits'
  BY <1>1, ExistingBoxes DEF SeenFits, WholeAt, PathFits, RecorderFits, DiskFits, Running, Linked, Located,
    TargetPlace
<1>. QED  BY <1>1, <1>2, <1>3, <1>4, <1>5, <1>6

(* The copy ends: the target holds what the data directory holds.          *)
LEMMA EndCopyNVRKeeps == ASSUME NVRInv, EndCopyNVR PROVE NVRInv'
<1>. USE DEF NVRInv, Names, Places, Own, Disk, Under, Missing, Empty, TornCopy, EndCopyNVR, NVRWrite, Filled, Frame
<1>1. BoxesFit' /\ box' = box
  BY DEF BoxesFit, Exists
<1>2. SagaTypeOK'
  BY <1>1, SagaTypes DEF SagaTypeOK
<1>3. RecorderFits'
  BY <1>1, ExistingBoxes DEF RecorderFits, Exists, TargetPlace, PathFits
<1>4. PathFits'
  BY <1>1, ExistingBoxes DEF PathFits, RecorderFits, Exists, Running, Linked, Located
<1>5. DiskFits'
  BY <1>1, ExistingBoxes DEF DiskFits, PathFits, RecorderFits, Running, Linked, Located, TargetPlace
<1>6. SeenFits'
  BY <1>1, ExistingBoxes DEF SeenFits, WholeAt, PathFits, RecorderFits, DiskFits, Running, Linked, Located,
    TargetPlace
<1>. QED  BY <1>1, <1>2, <1>3, <1>4, <1>5, <1>6

(* The data directory steps aside only after copy and original were        *)
(* compared.                                                               *)
LEMMA SetOwnAsideKeeps == ASSUME NVRInv, SetOwnAside PROVE NVRInv'
<1>. USE DEF NVRInv, Names, Places, Own, Disk, Under, Missing, Empty, TornCopy, SetOwnAside, NVRWrite, Filled, Frame
<1>1. BoxesFit' /\ box' = box
  BY DEF BoxesFit, Exists
<1>2. SagaTypeOK'
  BY <1>1, SagaTypes DEF SagaTypeOK
<1>3. RecorderFits'
  BY <1>1, ExistingBoxes DEF RecorderFits, Exists, TargetPlace, PathFits
<1>4. PathFits'
  BY <1>1, ExistingBoxes DEF PathFits, RecorderFits, Exists, Running, Linked, Located
<1>5. DiskFits'
  BY <1>1, ExistingBoxes DEF DiskFits, PathFits, RecorderFits, Running, Linked, Located, TargetPlace
<1>6. SeenFits'
  BY <1>1, ExistingBoxes DEF SeenFits, WholeAt, PathFits, RecorderFits, DiskFits, Running, Linked, Located,
    TargetPlace
<1>. QED  BY <1>1, <1>2, <1>3, <1>4, <1>5, <1>6

(* The path becomes a link while the set-aside directory is still kept.    *)
LEMMA SwitchKeeps == ASSUME NVRInv, Switch PROVE NVRInv'
<1>. USE DEF NVRInv, Names, Places, Own, Disk, Under, Missing, Empty, TornCopy, Switch, NVRWrite, Filled, Frame
<1>1. BoxesFit' /\ box' = box
  BY DEF BoxesFit, Exists
<1>2. SagaTypeOK'
  BY <1>1, SagaTypes DEF SagaTypeOK
<1>3. RecorderFits'
  BY <1>1, ExistingBoxes DEF RecorderFits, Exists, TargetPlace, PathFits
<1>4. PathFits'
  BY <1>1, ExistingBoxes DEF PathFits, RecorderFits, Exists, Running, Linked, Located
<1>5. DiskFits'
  BY <1>1, ExistingBoxes DEF DiskFits, PathFits, RecorderFits, Running, Linked, Located, TargetPlace
<1>6. SeenFits'
  BY <1>1, ExistingBoxes DEF SeenFits, WholeAt, PathFits, RecorderFits, DiskFits, Running, Linked, Located,
    TargetPlace
<1>. QED  BY <1>1, <1>2, <1>3, <1>4, <1>5, <1>6

(* The way back: the link goes, the recorder being down.                   *)
LEMMA UnlinkKeeps == ASSUME NVRInv, Unlink PROVE NVRInv'
<1>. USE DEF NVRInv, Names, Places, Own, Disk, Under, Missing, Empty, TornCopy, Unlink, NVRWrite, Filled, Frame
<1>1. BoxesFit' /\ box' = box
  BY DEF BoxesFit, Exists
<1>2. SagaTypeOK'
  BY <1>1, SagaTypes DEF SagaTypeOK
<1>3. RecorderFits'
  BY <1>1, ExistingBoxes DEF RecorderFits, Exists, TargetPlace, PathFits
<1>4. PathFits'
  BY <1>1, ExistingBoxes DEF PathFits, RecorderFits, Exists, Running, Linked, Located
<1>5. DiskFits'
  BY <1>1, ExistingBoxes DEF DiskFits, PathFits, RecorderFits, Running, Linked, Located, TargetPlace
<1>6. SeenFits'
  BY <1>1, ExistingBoxes DEF SeenFits, WholeAt, PathFits, RecorderFits, DiskFits, Running, Linked, Located,
    TargetPlace
<1>. QED  BY <1>1, <1>2, <1>3, <1>4, <1>5, <1>6

(* The way back: the data directory gets its path again.                   *)
LEMMA PutOwnBackKeeps == ASSUME NVRInv, PutOwnBack PROVE NVRInv'
<1>. USE DEF NVRInv, Names, Places, Own, Disk, Under, Missing, Empty, TornCopy, PutOwnBack, NVRWrite, Filled, Frame
<1>1. BoxesFit' /\ box' = box
  BY DEF BoxesFit, Exists
<1>2. SagaTypeOK'
  BY <1>1, SagaTypes DEF SagaTypeOK
<1>3. RecorderFits'
  BY <1>1, ExistingBoxes DEF RecorderFits, Exists, TargetPlace, PathFits
<1>4. PathFits'
  BY <1>1, ExistingBoxes DEF PathFits, RecorderFits, Exists, Running, Linked, Located
<1>5. DiskFits'
  BY <1>1, ExistingBoxes DEF DiskFits, PathFits, RecorderFits, Running, Linked, Located, TargetPlace
<1>6. SeenFits'
  BY <1>1, ExistingBoxes DEF SeenFits, WholeAt, PathFits, RecorderFits, DiskFits, Running, Linked, Located,
    TargetPlace
<1>. QED  BY <1>1, <1>2, <1>3, <1>4, <1>5, <1>6

(* A recording goes where the container's mount leads, newer than all      *)
(* others.                                                                 *)
LEMMA MakeRecordingKeeps == ASSUME NVRInv, MakeRecording PROVE NVRInv'
<1>. USE DEF NVRInv, Names, Places, Own, Disk, Under, Missing, Empty, TornCopy, MakeRecording, Filled, Trial,
  sagaVars
<1>1. BoxesFit' /\ box' = box /\ UNCHANGED sagaVars
  BY DEF BoxesFit, Exists
<1>2. SagaTypeOK'
  BY DEF SagaTypeOK
<1>3. RecorderFits'
  BY <1>1, ExistingBoxes DEF RecorderFits, Exists
<1>4. PathFits'
  BY <1>1, ExistingBoxes DEF PathFits, RecorderFits, Exists, Running, Linked, Located
<1>5. DiskFits'
  BY <1>1, ExistingBoxes DEF DiskFits, PathFits, RecorderFits, Running, Linked, Located, TargetPlace
<1>6. SeenFits'
  BY <1>1, ExistingBoxes DEF SeenFits, WholeAt, PathFits, RecorderFits, DiskFits, Running, Linked, Located,
    TargetPlace
<1>. QED  BY <1>1, <1>2, <1>3, <1>4, <1>5, <1>6

(* The disk comes or goes, and so does its assignment.                     *)
LEMMA MoveKeeps == ASSUME NVRInv, Move PROVE NVRInv'
<1>. USE DEF NVRInv, Names, Places, Own, Disk, Under, Missing, Empty, TornCopy, Move, sagaVars
<1>1. BoxesFit' /\ box' = box /\ UNCHANGED sagaVars
  BY DEF BoxesFit, Exists
<1>2. SagaTypeOK'
  BY DEF SagaTypeOK
<1>3. RecorderFits'
  BY <1>1, ExistingBoxes DEF RecorderFits, Exists
<1>4. PathFits'
  BY <1>1, ExistingBoxes DEF PathFits, RecorderFits, Exists, Running, Linked, Located
<1>5. DiskFits'
  BY <1>1, ExistingBoxes DEF DiskFits, PathFits, RecorderFits, Running, Linked, Located, TargetPlace
<1>6. SeenFits'
  BY <1>1, ExistingBoxes DEF SeenFits, WholeAt, PathFits, RecorderFits, DiskFits, Running, Linked, Located,
    TargetPlace
<1>. QED  BY <1>1, <1>2, <1>3, <1>4, <1>5, <1>6

(* A request finds the helper free, whatever an earlier one has left.      *)
LEMMA AskNVRKeeps == ASSUME NVRInv, AskNVR PROVE NVRInv'
<1>. USE DEF NVRInv, Names, Places, Own, Disk, Under, Missing, Empty, TornCopy, AskNVR, Still, nvrVars, Ask
<1>1. BoxesFit' /\ box' = box
  BY DEF BoxesFit, Exists
<1>2. SagaTypeOK'
  <2>1. requests' = requests + 1 /\ requests < MaxRequests /\ linked' = TRUE
          /\ UNCHANGED <<box, data, row, faults, crashes>>
    OBVIOUS
  <2>2. Remembered
    BY DEF Remembered
  <2>3. removed' \in BOOLEAN
    BY <2>2, RemovedIs
  <2>. QED  BY <2>1, <2>3, SagaAssumption DEF SagaTypeOK
<1>3. RecorderFits'
  BY <1>1, ExistingBoxes DEF RecorderFits, Exists
<1>4. PathFits'
  BY <1>1, ExistingBoxes DEF PathFits, RecorderFits, Exists, Running, Linked, Located
<1>5. DiskFits'
  BY <1>1, ExistingBoxes DEF DiskFits, PathFits, RecorderFits, Running, Linked, Located, TargetPlace
<1>6. SeenFits'
  BY <1>1, ExistingBoxes DEF SeenFits, WholeAt, PathFits, RecorderFits, DiskFits, Running, Linked, Located,
    TargetPlace
<1>. QED  BY <1>1, <1>2, <1>3, <1>4, <1>5, <1>6

(* An answer, a death of Core or of the helper.                            *)
LEMMA AroundNVRKeeps ==
  ASSUME NVRInv, NVRCommand(Answered) \/ NVRCommand(CoreDies) \/ NVRCommand(HelperDies)
  PROVE  NVRInv'
<1>. USE DEF NVRInv, Names, Places, Own, Disk, Under, Missing, Empty, TornCopy, NVRCommand, Still, nvrVars,
  Answered, CoreDies, Crash, HelperDies
<1>1. BoxesFit' /\ box' = box /\ data' = data /\ ask' = ask /\ UNCHANGED nvrVars
  BY DEF BoxesFit, Exists
<1>0. pc' \in {pc, "idle"} /\ row' \in {0, 1}
  BY DEF RecorderFits
<1>2. SagaTypeOK'
  <2>1. linked' \in BOOLEAN /\ faults' = faults /\ requests' = requests
    BY DEF SagaTypeOK
  <2>2. crashes' = crashes \/ (crashes < MaxCrashes /\ crashes' = crashes + 1)
    OBVIOUS
  <2>. QED  BY <1>0, <1>1, <2>1, <2>2, SagaAssumption DEF SagaTypeOK
<1>3. RecorderFits'
  BY <1>1, <1>0, ExistingBoxes DEF RecorderFits, Exists
<1>4. PathFits'
  BY <1>1, <1>0, ExistingBoxes DEF PathFits, RecorderFits, Exists, Running, Linked, Located
<1>5. DiskFits'
  BY <1>1, <1>0, ExistingBoxes DEF DiskFits, PathFits, RecorderFits, Running, Linked, Located, TargetPlace
<1>6. SeenFits'
  BY <1>1, <1>0, ExistingBoxes DEF SeenFits, WholeAt, PathFits, RecorderFits, DiskFits, Running, Linked, Located,
    TargetPlace
<1>. QED  BY <1>1, <1>0, <1>2, <1>3, <1>4, <1>5, <1>6

(* Every step of the recorder keeps its invariant.                         *)
LEMMA NVRKeeps == ASSUME NVRInv, NVRNext PROVE NVRInv'
BY AskNVRKeeps, NVRChecksKeep, PrepareDiskKeeps, LinkFreshKeeps, MakeNVRKeeps, NVRStartsKeep, NVRRemovalsKeep,
  NVRStopsKeep, ClaimTargetKeeps, BeginCopyNVRKeeps, EndCopyNVRKeeps, SetOwnAsideKeeps, SwitchKeeps, UnlinkKeeps,
  PutOwnBackKeeps, MakeRecordingKeeps, MoveKeeps, AroundNVRKeeps
DEF NVRNext, InstallNVR, ControlNVR, ActivateStorage

(* What SagaInit says of the containers, whatever module it is of.         *)
LEMMA NVRStarts == ASSUME NVRInit PROVE NVRInv
<1>. USE DEF NVRInit, NVRInv, Names, Places, Own, Disk, Under, Missing, Empty, TornCopy
<1>1. SagaTypeOK /\ BoxesFit
  BY FirstBoxes
<1>2. RecorderFits
  <2>1. place \in [Places -> {TornCopy} \cup 0..recording] /\ place[Own] # TornCopy
    OBVIOUS
  <2>2. data[1] \in {0, 1} /\ row \in {0, 1} /\ pc = "idle" /\ ask.op = "none"
    BY SagaAssumption DEF SagaInit
  <2>. QED  BY <2>1, <2>2, FirstBoxes DEF RecorderFits
<1>0. /\ place[Own] = (IF row # 0 THEN 1 ELSE 0) /\ place[Disk] = 0
      /\ path = (IF row = 0 THEN "none" ELSE "dir") /\ bound = Own /\ pc = "idle" /\ row \in {0, 1}
      /\ seen = 1 /\ recording = 1
  BY DEF SagaInit
<1>3. PathFits
  BY <1>0, FirstBoxes DEF PathFits
<1>4. DiskFits
  BY DEF DiskFits, SagaInit
<1>5. SeenFits
  BY <1>0, FirstBoxes DEF SeenFits, WholeAt
<1>. QED  BY <1>1, <1>2, <1>3, <1>4, <1>5

(* A recorder's container is removed on request, or while it is not yet    *)
(* registered.                                                             *)
SettingUp == {"inspecting", "preparing", "linking", "making", "launching", "verifying", "dropping"}
RecorderStays ==
  /\ pc = "removing" => ask.op = "remove"
  /\ pc \in SettingUp => ask.op = "install"
  /\ pc \in {"waking", "launching", "verifying", "ok"} /\ ask.op = "install" => Present
  /\ pc # "idle" /\ ask.op = "install" => row = 0 /\ pc \in SettingUp \cup {"waking", "ok", "error"}
  /\ StillThere
USE DEF SettingUp
(* How the steps follow each other, and that all but two are harmless.     *)
LEMMA RecorderCommandsStay ==
  ASSUME NVRInv, RecorderStays,
         \/ InspectNVR \/ PrepareDisk \/ LinkFresh \/ MakeNVR \/ Launch \/ VerifyNVR
         \/ Validate \/ Pause \/ Wake \/ Park \/ ActivateStorage
  PROVE  RecorderStays'
<1>. USE DEF NVRCommand, NVRWrite, NVRStart, Check, Command, InspectNVR, PrepareDisk, LinkFresh, MakeNVR, Launch,
    VerifyNVR, Validate, Pause, Wake, Park, ActivateStorage, Locate,
    ClaimTarget, HaltNVR, BeginCopyNVR, EndCopyNVR, CompareNVR, SetOwnAside, Switch, CheckSwitch, TryNVR, AwaitNVR,
    HaltAgain, Unlink, PutOwnBack, ReviveNVR
<1>0. Exists("main") => Present
  BY DEF Present
<1>1. /\ Frame /\ pc # "idle"
      /\ \/ pc \in Activating /\ pc' \in Activating \cup {"ok", "error"}
         \/ pc' = "error"
         \/ pc = "inspecting" /\ pc' \in {"waking", "preparing"} /\ (pc' = "waking" => Present) /\ box' = box
         \/ pc = "preparing" /\ pc' \in {"linking", "making"}
         \/ pc = "linking" /\ pc' = "making"
         \/ pc = "making" /\ pc' = "launching" /\ box' = [box EXCEPT !["main"] = Created(1, 1)]
         \/ pc = "launching" /\ pc' \in {"verifying", "dropping"}
         \/ pc = "verifying" /\ pc' \in {"ok", "dropping"}
         \/ pc \in {"validating", "pausing"} /\ pc' \in {"pausing", "waking"}
         \/ pc \in {"waking", "parking"} /\ pc' = "ok"
  BY <1>0
<1>2. Harmless
  <2>1. \/ box' = box \/ box' = [box EXCEPT !["main"] = Created(1, 1)]
        \/ Exists("main") /\ box' \in {Started("main"), Stopped("main")}
    BY ExistingBoxes DEF NVRInv, Names, Startable
  <2>. QED  BY <2>1, SagaAssumption DEF Harmless, Names
<1>. HIDE DEF InspectNVR, PrepareDisk, LinkFresh, MakeNVR, Launch, VerifyNVR, Validate, Pause, Wake, Park, ActivateStorage
<1>3. Present => Present'
  BY <1>2, HarmlessKeeps DEF NVRInv
<1>4. box' = [box EXCEPT !["main"] = Created(1, 1)] => Present'
  <2>1. 1 \in Images /\ 1 \in Dirs /\ "main" \in Names
    BY SagaAssumption DEF Names
  <2>2. ASSUME box' = [box EXCEPT !["main"] = Created(1, 1)] PROVE box'["main"].image # 0
    BY <2>1, <2>2, CreatedBoxes, SagaAssumption DEF NVRInv
  <2>. QED  BY <2>2 DEF Present, Exists, Absent
<1>5. StillThere'
  BY <1>1, <1>3, CommandStill DEF RecorderStays
<1>6. ask' = ask /\ row' = row
  BY <1>1 DEF Frame
<1>7. pc \in Activating => ask.op = "activate"
  BY DEF NVRInv, RecorderFits
<1>. QED  BY <1>1, <1>3, <1>4, <1>5, <1>6, <1>7 DEF RecorderStays
(* The two removals.                                                       *)
LEMMA RecorderRemovalsStay == ASSUME NVRInv, RecorderStays, Uninstall \/ DropNVR PROVE RecorderStays'
<1>1. /\ Frame
      /\ \/ pc = "removing" /\ pc' \in {"ok", "error"}
         \/ pc = "dropping" /\ pc' = "error"
  BY DEF Uninstall, DropNVR, NVRCommand, Command
<1>2. row # 0 => removed
  BY <1>1 DEF RecorderStays, StillThere
<1>3. StillThere'
  BY <1>1, <1>2, CommandStill DEF RecorderStays
<1>. QED  BY <1>1, <1>3 DEF RecorderStays, Frame
(* Every step of the recorder.                                             *)
LEMMA RecorderStaysThere == ASSUME NVRInv, RecorderStays, NVRNext PROVE RecorderStays'
<1>1. CASE AskNVR
  <2>1. box' = box /\ row' = row /\ pc = "idle"
        /\ \/ ask'.op = "install" /\ row = 0 /\ pc' = "inspecting"
           \/ ask'.op = "remove" /\ pc' = "removing"
           \/ ask'.op \in {"activate", "start", "restart", "stop"} /\ pc' \in {"locating", "parking", "validating"}
    BY <1>1 DEF AskNVR, Ask
  <2>2. Remembered
    BY <1>1 DEF Remembered, AskNVR, Ask
  <2>3. StillThere'
    BY <2>1, <2>2, AskStill DEF RecorderStays
  <2>. QED  BY <2>1, <2>3 DEF RecorderStays
<1>2. CASE NVRCommand(Answered) \/ NVRCommand(CoreDies) \/ NVRCommand(HelperDies)
  <2>1. Answered \/ CoreDies \/ HelperDies
    BY <1>2 DEF NVRCommand
  <2>2. pc = "ok" /\ ask.op = "install" => Exists("main")
    BY DEF RecorderStays, Present, NVRInv, RecorderFits
  <2>3. StillThere'
    BY <2>1, <2>2, AnswerStill DEF RecorderStays
  <2>4. box' = box /\ ask' = ask /\ (pc' = "idle" \/ (pc' = pc /\ row' = row))
    BY <2>1 DEF Answered, CoreDies, HelperDies
  <2>5. Present' <=> Present
    BY <2>4 DEF Present, Exists
  <2>. QED  BY <2>3, <2>4, <2>5 DEF RecorderStays
<1>3. CASE MakeRecording \/ Move
  <2>1. UNCHANGED sagaVars
    BY <1>3 DEF MakeRecording, Move
  <2>. QED  BY <2>1 DEF sagaVars, RecorderStays, StillThere, Present, Exists
<1>. QED  BY <1>1, <1>2, <1>3, RecorderCommandsStay, RecorderRemovalsStay DEF NVRNext, InstallNVR, ControlNVR

(* What the run checks follows.                                            *)
LEMMA NVRPromises ==
  ASSUME NVRInv, StillThere
  PROVE  /\ SagaTypeOK /\ OneWriter /\ RegisteredImageKept(TRUE) /\ OldCodeOnItsData
         /\ RecordingsAreSeen /\ ActivatedIsOnDisk /\ ask.op # "apply"
<1>. USE DEF NVRInv, RecorderFits, Names
<1>1. \A n \in Names : Running(n) => n = "main"
  BY ExistingBoxes
<1>2. OneWriter
  BY <1>1 DEF OneWriter
<1>3. RegisteredImageKept(TRUE)
  BY DEF RegisteredImageKept, StillThere, Present
<1>4. OldCodeOnItsData
  <2>1. Running("main") => Exists("main")
    BY ExistingBoxes
  <2>. QED  BY <1>1, <2>1 DEF OldCodeOnItsData
<1>5. RecordingsAreSeen
  BY DEF RecordingsAreSeen, SeenFits, WholeAt, Trial
<1>6. ActivatedIsOnDisk
  BY DEF ActivatedIsOnDisk, DiskFits
<1>. QED  BY <1>2, <1>3, <1>4, <1>5, <1>6

HIDE DEF NVRPlaces, Activating, Copying, AtRest, OnLink

(***************************************************************************)
(* Home Assistant.                                                         *)
(***************************************************************************)
InstallPlaces == {"ha_adopting", "ha_port", "ha_directory", "ha_recording", "ha_creating", "ha_launching",
  "ha_watching", "ha_giving_up", "ha_clearing"}
UpgradePlaces == {"ha_checking", "ha_quieting", "ha_copying", "ha_staging", "ha_identifying", "ha_trying", "ha_proving",
  "ha_retiring", "ha_promoting", "ha_confirming"}
CommitPlaces == {"ha_settling", "ha_committing", "ha_dropping_old"}
RestorePlaces == {"ha_restoring", "ha_dropping", "ha_renaming", "ha_relaunching", "ha_reproving", "ha_rerecording"}
HAPlaces == {"idle", "ok", "error", "ha_controlling", "ha_stopping", "ha_halting", "ha_removing", "ha_resuming",
  "ha_starting", "ha_verifying", "ha_pairing"} \cup InstallPlaces \cup UpgradePlaces \cup CommitPlaces \cup RestorePlaces

(* Which operation gets where.                                             *)
HAAsked ==
  /\ pc \in HAPlaces
  /\ ask \in [op : {"none", "upgrade", "commit", "rollback", "start", "stop", "restart", "remove", "install"},
              new : Images, old : Images]
  /\ pc \in InstallPlaces => ask.op = "install"
  /\ pc \in UpgradePlaces => ask.op = "upgrade"
  /\ pc \in CommitPlaces => ask.op = "commit"
  /\ pc \in RestorePlaces => ask.op \in {"upgrade", "rollback"}
  /\ pc = "ha_pairing" => ask.op \in {"commit", "rollback"}
  /\ pc \in {"ha_resuming", "ha_starting", "ha_verifying"} => ask.op \in {"install", "start", "restart"}
  /\ pc = "ha_controlling" => ask.op \in {"start", "stop", "restart", "remove"}
  /\ pc = "ha_stopping" => ask.op = "stop"
  /\ pc \in {"ha_halting", "ha_removing"} => ask.op = "remove"

(* Every container has a directory of its own, with data it can read, and  *)
(* so has the record.  Directories are used in their order.                *)
DirectoriesFit ==
  /\ \A m, n \in Names : Exists(m) /\ Exists(n) /\ m # n => box[m].dir # box[n].dir
  /\ \A n \in Names : Exists(n) => data[box[n].dir] \in 1..box[n].image
  /\ active # NoRecord =>
       /\ active.image # 0 /\ active.dir # 0 /\ data[active.dir] \in 1..active.image
       /\ \A n \in Names : Exists(n) /\ box[n].dir = active.dir => box[n].image = active.image
  /\ \A c, d \in Dirs : c < d /\ data[d] # 0 => data[c] # 0

(* The container that active.json and Core's registry both name.           *)
IsOld(n) == Exists(n) /\ active = Of(n) /\ row = box[n].image
Goes(n)  == IsOld(n) /\ old = Of(n)

(* Which containers there can be: one alone; the old one with a candidate, *)
(* under either name; or the old one beside the new one under its name.    *)
CastFits ==
  /\ StageFree /\ Exists("main") => active = Of("main") /\ row \in {0, box["main"].image}
  /\ Exists("candidate") => ~Exists("main") \/ ~Exists("previous")
  /\ ~StageFree => Exists("main") \/ Exists("previous")
  /\ ~StageFree /\ ~Exists("previous") => IsOld("main")
  /\ Exists("previous") /\ ~Exists("main") => active = Of("previous") /\ row \in {0, box["previous"].image}
  /\ Exists("previous") /\ Exists("main") =>
       IsOld("previous") \/ (row = box["main"].image /\ active \in {Of("main"), Of("previous")})

(* Where the new container is, seen from the old one.                      *)
Beside ==
  \/ Goes("main") /\ ~Exists("previous") /\ Exists("candidate") /\ fresh = box["candidate"].dir
  \/ Goes("previous") /\ ~Exists("main") /\ Exists("candidate") /\ fresh = box["candidate"].dir
  \/ Goes("previous") /\ Exists("main") /\ ~Exists("candidate") /\ fresh = box["main"].dir
Both == Exists("main") /\ Exists("previous") /\ ~Exists("candidate")

UpgradeFits ==
  /\ ask.op = "upgrade" /\ pc \notin {"ok", "error", "idle"} => row # 0 /\ ask.old = row /\ ask.new > row
  /\ pc \in {"ha_quieting", "ha_copying", "ha_staging"} => StageFree /\ Goes("main") /\ fresh = 0
  /\ pc \in {"ha_copying", "ha_staging", "ha_identifying"} => ~Running("main") /\ ~Running("candidate")
  /\ pc = "ha_staging" =>
       /\ Newest \in Dirs /\ Newest # old.dir /\ data[Newest] \in 1..row
  /\ pc = "ha_identifying" =>
       /\ Goes("main") /\ ~Exists("previous") /\ Exists("candidate") /\ fresh = 0
       /\ Of("candidate") = [image |-> ask.new, dir |-> Newest]
  /\ pc \in {"ha_trying", "ha_proving", "ha_retiring", "ha_promoting", "ha_confirming"} => Beside
  /\ pc \in {"ha_trying", "ha_proving", "ha_retiring"} => Goes("main") /\ box["candidate"].image = ask.new
  /\ pc = "ha_promoting" => Goes("previous") /\ Exists("candidate") /\ box["candidate"].image = ask.new
  /\ pc = "ha_confirming" \/ (pc = "ok" /\ ask.op = "upgrade") =>
       Both /\ IsOld("previous") /\ box["main"].image = ask.new /\ row # 0
FinishFits ==
  /\ pc = "ha_pairing" => Both /\ row = box[IF ask.op = "commit" THEN "main" ELSE "previous"].image
  /\ pc = "ha_pairing" /\ ask.op = "rollback" => IsOld("previous")
  /\ pc \in CommitPlaces => Both /\ row = box["main"].image
  /\ pc = "ha_dropping_old" => active = Of("main")
  /\ pc = "ha_restoring" => (fresh = 0 /\ Goes("main") /\ ~Exists("previous")) \/ Beside
  /\ pc = "ha_dropping" => Beside
  /\ pc = "ha_renaming" =>
       (Goes("main") /\ ~Exists("previous")) \/ (Goes("previous") /\ ~Exists("main") /\ ~Exists("candidate"))
  /\ pc \in {"ha_relaunching", "ha_reproving", "ha_rerecording"} => Goes("main") /\ ~Exists("previous")
InstallFits ==
  /\ ask.op = "install" /\ pc # "idle" => row = 0
  /\ pc \in {"ha_port", "ha_directory", "ha_recording", "ha_creating"} => StageFree /\ ~Exists("main")
  /\ pc = "ha_recording" => active = NoRecord /\ data[1] = 1
  /\ pc = "ha_creating" => active # NoRecord /\ active.image = ask.new
  /\ ask.op = "install" /\ pc \in {"ha_resuming", "ha_starting", "ha_verifying", "ha_launching", "ha_watching", "ok"} =>
       Exists("main") /\ box["main"].image = ask.new
  /\ pc \in {"ha_halting", "ha_removing", "ha_launching", "ha_watching", "ha_giving_up", "ha_clearing"} => StageFree
  /\ pc = "ok" /\ ask.op = "remove" => ~Exists("main")
HAInv == HATypeOK /\ BoxesFit /\ HAAsked /\ DirectoriesFit /\ CastFits /\ UpgradeFits /\ FinishFits /\ InstallFits

(* What is written down about a container is a record of an image and a    *)
(* directory.                                                              *)
LEMMA OfRecords == ASSUME BoxesFit, NEW n \in Names PROVE Of(n) \in Records /\ box[n].dir \in Dirs \cup {0}
BY DEF BoxesFit, Container, Of, Records

(* Steps of an installation, or of control, that only look.                *)
LEMMA InstallChecksKeep ==
  ASSUME HAInv,
         AdoptHA \/ Verified \/ WatchHA \/ ResumePort \/ InstallPort \/ ControlHA
  PROVE  HAInv'
<1>. USE DEF HAInv, Names, AdoptHA, HA, haVars, Command, Frame, Check, Verified, WatchHA, ResumePort, PortFree,
  InstallPort, ControlHA
<1>1. BoxesFit' /\ box' = box
  BY DEF BoxesFit, Exists
<1>2. HATypeOK'
  BY <1>1, SagaTypes, SagaAssumption DEF HATypeOK, SagaTypeOK, Records
<1>3. HAAsked'
  BY <1>1 DEF HAAsked, HAPlaces, InstallPlaces, UpgradePlaces, CommitPlaces, RestorePlaces
<1>4. DirectoriesFit'
  BY <1>1, ExistingBoxes DEF DirectoriesFit, Beside, Both, Goes, IsOld, Of, NoRecord, StageFree, Exists,
    CanRename, IdOf
<1>. USE DEF Beside, Both, Goes, IsOld, Of, NoRecord, StageFree, Exists, CanRename, IdOf, HAPlaces, InstallPlaces,
  UpgradePlaces, CommitPlaces, RestorePlaces
<1>5. CastFits'
  BY <1>1, ExistingBoxes DEF CastFits, UpgradeFits, FinishFits, InstallFits, HAAsked
<1>6. UpgradeFits'
  BY <1>1, ExistingBoxes DEF UpgradeFits, CastFits, HAAsked, Newest, Running
<1>7. FinishFits'
  BY <1>1, ExistingBoxes DEF FinishFits, UpgradeFits, CastFits, HAAsked, Running
<1>8. InstallFits'
  BY <1>1, ExistingBoxes DEF InstallFits, CastFits, HAAsked, UpgradeFits
<1>. QED  BY <1>1, <1>2, <1>3, <1>4, <1>5, <1>6, <1>7, <1>8

(* Steps of an upgrade, a commit or a rollback that only look.             *)
LEMMA UpgradeChecksKeep ==
  ASSUME HAInv,
         CheckHA \/ Identify \/ ProveHA \/ ConfirmHA \/ Pair \/ Settle \/ Reprove
  PROVE  HAInv'
<1>. USE DEF HAInv, Names, CheckHA, HA, haVars, Command, Frame, Check, Identify, ProveHA, ConfirmHA, Pair, Settle,
  Reprove
<1>1. BoxesFit' /\ box' = box
  BY DEF BoxesFit, Exists
<1>2. HATypeOK'
  BY <1>1, SagaTypes, SagaAssumption, OfRecords DEF HATypeOK, SagaTypeOK, Records, Of
<1>3. HAAsked'
  BY <1>1 DEF HAAsked, HAPlaces, InstallPlaces, UpgradePlaces, CommitPlaces, RestorePlaces
<1>4. DirectoriesFit'
  BY <1>1, ExistingBoxes DEF DirectoriesFit, Beside, Both, Goes, IsOld, Of, NoRecord, StageFree, Exists,
    CanRename, IdOf
<1>. USE DEF Beside, Both, Goes, IsOld, Of, NoRecord, StageFree, Exists, CanRename, IdOf, HAPlaces, InstallPlaces,
  UpgradePlaces, CommitPlaces, RestorePlaces
<1>5. CastFits'
  BY <1>1, ExistingBoxes DEF CastFits, UpgradeFits, FinishFits, InstallFits, HAAsked
<1>6. UpgradeFits'
  BY <1>1, ExistingBoxes DEF UpgradeFits, CastFits, HAAsked, Newest, Running
<1>7. FinishFits'
  BY <1>1, ExistingBoxes DEF FinishFits, UpgradeFits, CastFits, HAAsked, Running
<1>8. InstallFits'
  BY <1>1, ExistingBoxes DEF InstallFits, CastFits, HAAsked, UpgradeFits
<1>. QED  BY <1>1, <1>2, <1>3, <1>4, <1>5, <1>6, <1>7, <1>8

(* A start of the container that has the main name.                        *)
LEMMA HAStartsKeep ==
  ASSUME HAInv,
         Resume \/ LaunchHA \/ Relaunch
  PROVE  HAInv'
<1>. USE DEF HAInv, Names, Resume, HA, haVars, Command, Frame, LaunchHA, Relaunch
<1>1. /\ BoxesFit' /\ \A m \in Names : (Exists(m)' <=> Exists(m)) /\ box'[m].image = box[m].image /\ box'[m].dir = box[m].dir
      /\ \A m \in Names \ {"main"} : box'[m] = box[m]
      /\ Running("main")' => Exists("main")
  <2>1. CASE Exists("main") /\ box' \in {box, Started("main")}
    BY <2>1, StartStep DEF Exists, Running
  <2>2. CASE ~Exists("main") /\ box' = box
    BY <2>2, ExistingBoxes DEF BoxesFit, Exists, Running
  <2>. QED  BY <2>1, <2>2
<1>2. HATypeOK'
  BY <1>1, SagaTypes, SagaAssumption DEF HATypeOK, SagaTypeOK, Records
<1>3. HAAsked'
  BY <1>1 DEF HAAsked, HAPlaces, InstallPlaces, UpgradePlaces, CommitPlaces, RestorePlaces
<1>4. DirectoriesFit'
  BY <1>1, ExistingBoxes DEF DirectoriesFit, Beside, Both, Goes, IsOld, Of, NoRecord, StageFree, Exists,
    CanRename, IdOf
<1>. USE DEF Beside, Both, Goes, IsOld, Of, NoRecord, StageFree, Exists, CanRename, IdOf, HAPlaces, InstallPlaces,
  UpgradePlaces, CommitPlaces, RestorePlaces
<1>5. CastFits'
  BY <1>1, ExistingBoxes DEF CastFits, UpgradeFits, FinishFits, InstallFits, HAAsked
<1>6. UpgradeFits'
  BY <1>1, ExistingBoxes DEF UpgradeFits, CastFits, HAAsked, Newest, Running
<1>7. FinishFits'
  BY <1>1, ExistingBoxes DEF FinishFits, UpgradeFits, CastFits, HAAsked, Running
<1>8. InstallFits'
  BY <1>1, ExistingBoxes DEF InstallFits, CastFits, HAAsked, UpgradeFits
<1>. QED  BY <1>1, <1>2, <1>3, <1>4, <1>5, <1>6, <1>7, <1>8

(* The candidate starts on the copy while the old container is down.       *)
LEMMA TryHAKeeps == ASSUME HAInv, TryHA PROVE HAInv'
<1>. USE DEF HAInv, Names, TryHA, HA, haVars, Command, Frame
<1>1. /\ BoxesFit' /\ \A m \in Names : (Exists(m)' <=> Exists(m)) /\ box'[m].image = box[m].image /\ box'[m].dir = box[m].dir
      /\ \A m \in Names \ {"candidate"} : box'[m] = box[m]
      /\ Running("candidate")' => Exists("candidate")
  <2>1. CASE Exists("candidate") /\ box' \in {box, Started("candidate")}
    BY <2>1, StartStep DEF Exists, Running
  <2>2. CASE ~Exists("candidate") /\ box' = box
    BY <2>2, ExistingBoxes DEF BoxesFit, Exists, Running
  <2>. QED  BY <2>1, <2>2
<1>2. HATypeOK'
  BY <1>1, SagaTypes, SagaAssumption DEF HATypeOK, SagaTypeOK, Records
<1>3. HAAsked'
  BY <1>1 DEF HAAsked, HAPlaces, InstallPlaces, UpgradePlaces, CommitPlaces, RestorePlaces
<1>4. DirectoriesFit'
  BY <1>1, ExistingBoxes DEF DirectoriesFit, Beside, Both, Goes, IsOld, Of, NoRecord, StageFree, Exists,
    CanRename, IdOf
<1>. USE DEF Beside, Both, Goes, IsOld, Of, NoRecord, StageFree, Exists, CanRename, IdOf, HAPlaces, InstallPlaces,
  UpgradePlaces, CommitPlaces, RestorePlaces
<1>5. CastFits'
  BY <1>1, ExistingBoxes DEF CastFits, UpgradeFits, FinishFits, InstallFits, HAAsked
<1>6. UpgradeFits'
  BY <1>1, ExistingBoxes DEF UpgradeFits, CastFits, HAAsked, Newest, Running
<1>7. FinishFits'
  BY <1>1, ExistingBoxes DEF FinishFits, UpgradeFits, CastFits, HAAsked, Running
<1>8. InstallFits'
  BY <1>1, ExistingBoxes DEF InstallFits, CastFits, HAAsked, UpgradeFits
<1>. QED  BY <1>1, <1>2, <1>3, <1>4, <1>5, <1>6, <1>7, <1>8

(* A stop of the main container or of the candidate.                       *)
LEMMA HAStopsKeep ==
  ASSUME HAInv,
         StopHA \/ HaltHA \/ GiveUp \/ Quiet
  PROVE  HAInv'
<1>. USE DEF HAInv, Names, StopHA, HA, haVars, Command, Frame, HaltHA, GiveUp, Quiet
<1>1. /\ BoxesFit' /\ \A m \in Names : (Exists(m)' <=> Exists(m)) /\ box'[m].image = box[m].image /\ box'[m].dir = box[m].dir
      /\ \A m \in Names \ {"main"} : box'[m] = box[m]
      /\ Running("main")' => Running("main")
      /\ Exists("main") /\ box' = Stopped("main") => ~Running("main")'
  <2>1. CASE Exists("main") /\ box' \in {box, Stopped("main")}
    BY <2>1, StopStep DEF Exists, Running
  <2>2. CASE ~Exists("main") /\ box' = box
    BY <2>2, ExistingBoxes DEF BoxesFit, Exists, Running
  <2>. QED  BY <2>1, <2>2
<1>2. HATypeOK'
  BY <1>1, SagaTypes, SagaAssumption DEF HATypeOK, SagaTypeOK, Records
<1>3. HAAsked'
  BY <1>1 DEF HAAsked, HAPlaces, InstallPlaces, UpgradePlaces, CommitPlaces, RestorePlaces
<1>4. DirectoriesFit'
  BY <1>1, ExistingBoxes DEF DirectoriesFit, Beside, Both, Goes, IsOld, Of, NoRecord, StageFree, Exists,
    CanRename, IdOf
<1>. USE DEF Beside, Both, Goes, IsOld, Of, NoRecord, StageFree, Exists, CanRename, IdOf, HAPlaces, InstallPlaces,
  UpgradePlaces, CommitPlaces, RestorePlaces
<1>5. CastFits'
  BY <1>1, ExistingBoxes DEF CastFits, UpgradeFits, FinishFits, InstallFits, HAAsked
<1>6. UpgradeFits'
  BY <1>1, ExistingBoxes DEF UpgradeFits, CastFits, HAAsked, Newest, Running
<1>7. FinishFits'
  BY <1>1, ExistingBoxes DEF FinishFits, UpgradeFits, CastFits, HAAsked, Running
<1>8. InstallFits'
  BY <1>1, ExistingBoxes DEF InstallFits, CastFits, HAAsked, UpgradeFits
<1>. QED  BY <1>1, <1>2, <1>3, <1>4, <1>5, <1>6, <1>7, <1>8

(* The container under the main name is removed.                           *)
LEMMA HARemovalsKeep ==
  ASSUME HAInv,
         ClearHA \/ RemoveHA
  PROVE  HAInv'
<1>. USE DEF HAInv, Names, ClearHA, HA, haVars, Command, Frame, RemoveHA
<1>1. /\ BoxesFit' /\ \A m \in Names \ {"main"} : box'[m] = box[m]
      /\ box'["main"] \in {box["main"], Absent}
      /\ box' = Removed("main") => ~Exists("main")' /\ ~Running("main")'
  BY RemoveStep DEF BoxesFit, Exists
<1>2. HATypeOK'
  BY <1>1, SagaTypes, SagaAssumption DEF HATypeOK, SagaTypeOK, Records
<1>3. HAAsked'
  BY <1>1 DEF HAAsked, HAPlaces, InstallPlaces, UpgradePlaces, CommitPlaces, RestorePlaces
<1>4. DirectoriesFit'
  BY <1>1, ExistingBoxes DEF DirectoriesFit, Beside, Both, Goes, IsOld, Of, NoRecord, StageFree, Exists,
    CanRename, IdOf
<1>. USE DEF Beside, Both, Goes, IsOld, Of, NoRecord, StageFree, Exists, CanRename, IdOf, HAPlaces, InstallPlaces,
  UpgradePlaces, CommitPlaces, RestorePlaces
<1>5. CastFits'
  BY <1>1, ExistingBoxes DEF CastFits, UpgradeFits, FinishFits, InstallFits, HAAsked
<1>6. UpgradeFits'
  BY <1>1, ExistingBoxes DEF UpgradeFits, CastFits, HAAsked, Newest, Running
<1>7. FinishFits'
  BY <1>1, ExistingBoxes DEF FinishFits, UpgradeFits, CastFits, HAAsked, Running
<1>8. InstallFits'
  BY <1>1, ExistingBoxes DEF InstallFits, CastFits, HAAsked, UpgradeFits
<1>. QED  BY <1>1, <1>2, <1>3, <1>4, <1>5, <1>6, <1>7, <1>8

(* The old container is removed once the new one has been registered.      *)
LEMMA DropOldKeeps == ASSUME HAInv, DropOld PROVE HAInv'
<1>. USE DEF HAInv, Names, DropOld, HA, haVars, Command, Frame
<1>1. /\ BoxesFit' /\ \A m \in Names \ {"previous"} : box'[m] = box[m]
      /\ box'["previous"] \in {box["previous"], Absent}
      /\ box' = Removed("previous") => ~Exists("previous")' /\ ~Running("previous")'
  BY RemoveStep DEF BoxesFit, Exists
<1>2. HATypeOK'
  BY <1>1, SagaTypes, SagaAssumption DEF HATypeOK, SagaTypeOK, Records
<1>3. HAAsked'
  BY <1>1 DEF HAAsked, HAPlaces, InstallPlaces, UpgradePlaces, CommitPlaces, RestorePlaces
<1>4. DirectoriesFit'
  BY <1>1, ExistingBoxes DEF DirectoriesFit, Beside, Both, Goes, IsOld, Of, NoRecord, StageFree, Exists,
    CanRename, IdOf
<1>. USE DEF Beside, Both, Goes, IsOld, Of, NoRecord, StageFree, Exists, CanRename, IdOf, HAPlaces, InstallPlaces,
  UpgradePlaces, CommitPlaces, RestorePlaces
<1>5. CastFits'
  BY <1>1, ExistingBoxes DEF CastFits, UpgradeFits, FinishFits, InstallFits, HAAsked
<1>6. UpgradeFits'
  BY <1>1, ExistingBoxes DEF UpgradeFits, CastFits, HAAsked, Newest, Running
<1>7. FinishFits'
  BY <1>1, ExistingBoxes DEF FinishFits, UpgradeFits, CastFits, HAAsked, Running
<1>8. InstallFits'
  BY <1>1, ExistingBoxes DEF InstallFits, CastFits, HAAsked, UpgradeFits
<1>. QED  BY <1>1, <1>2, <1>3, <1>4, <1>5, <1>6, <1>7, <1>8

(* The old container steps aside for the candidate.                        *)
LEMMA RetireHAKeeps == ASSUME HAInv, RetireHA PROVE HAInv'
<1>. USE DEF HAInv, Names, RetireHA, HA, haVars, Command, Frame
<1>1. /\ BoxesFit' /\ box'["candidate"] = box["candidate"]
      /\ \/ /\ box'["main"] = box["main"] /\ box'["previous"] = box["previous"]
            /\ CanRename("main", "previous") => box' # Renamed("main", "previous")
         \/ /\ CanRename("main", "previous") /\ box'["previous"] = box["main"] /\ box'["main"] = Absent
            /\ ~Exists("main")' /\ ~Running("main")'
  <2>1. CASE CanRename("main", "previous")
    BY <2>1, RenameStep
  <2>2. CASE ~CanRename("main", "previous")
    BY <2>2 DEF BoxesFit, Exists
  <2>. QED  BY <2>1, <2>2
<1>2. HATypeOK'
  BY <1>1, SagaTypes, SagaAssumption DEF HATypeOK, SagaTypeOK, Records
<1>3. HAAsked'
  BY <1>1 DEF HAAsked, HAPlaces, InstallPlaces, UpgradePlaces, CommitPlaces, RestorePlaces
<1>4. DirectoriesFit'
  BY <1>1, ExistingBoxes DEF DirectoriesFit, Beside, Both, Goes, IsOld, Of, NoRecord, StageFree, Exists,
    CanRename, IdOf
<1>. USE DEF Beside, Both, Goes, IsOld, Of, NoRecord, StageFree, Exists, CanRename, IdOf, HAPlaces, InstallPlaces,
  UpgradePlaces, CommitPlaces, RestorePlaces
<1>5. CastFits'
  BY <1>1, ExistingBoxes DEF CastFits, UpgradeFits, FinishFits, InstallFits, HAAsked
<1>6. UpgradeFits'
  BY <1>1, ExistingBoxes DEF UpgradeFits, CastFits, HAAsked, Newest, Running
<1>7. FinishFits'
  BY <1>1, ExistingBoxes DEF FinishFits, UpgradeFits, CastFits, HAAsked, Running
<1>8. InstallFits'
  BY <1>1, ExistingBoxes DEF InstallFits, CastFits, HAAsked, UpgradeFits
<1>. QED  BY <1>1, <1>2, <1>3, <1>4, <1>5, <1>6, <1>7, <1>8

(* The candidate takes the main name.                                      *)
LEMMA PromoteHAKeeps == ASSUME HAInv, PromoteHA PROVE HAInv'
<1>. USE DEF HAInv, Names, PromoteHA, HA, haVars, Command, Frame
<1>1. /\ BoxesFit' /\ box'["previous"] = box["previous"]
      /\ \/ /\ box'["candidate"] = box["candidate"] /\ box'["main"] = box["main"]
            /\ CanRename("candidate", "main") => box' # Renamed("candidate", "main")
         \/ /\ CanRename("candidate", "main") /\ box'["main"] = box["candidate"] /\ box'["candidate"] = Absent
            /\ ~Exists("candidate")' /\ ~Running("candidate")'
  <2>1. CASE CanRename("candidate", "main")
    BY <2>1, RenameStep
  <2>2. CASE ~CanRename("candidate", "main")
    BY <2>2 DEF BoxesFit, Exists
  <2>. QED  BY <2>1, <2>2
<1>2. HATypeOK'
  BY <1>1, SagaTypes, SagaAssumption DEF HATypeOK, SagaTypeOK, Records
<1>3. HAAsked'
  BY <1>1 DEF HAAsked, HAPlaces, InstallPlaces, UpgradePlaces, CommitPlaces, RestorePlaces
<1>4. DirectoriesFit'
  BY <1>1, ExistingBoxes DEF DirectoriesFit, Beside, Both, Goes, IsOld, Of, NoRecord, StageFree, Exists,
    CanRename, IdOf
<1>. USE DEF Beside, Both, Goes, IsOld, Of, NoRecord, StageFree, Exists, CanRename, IdOf, HAPlaces, InstallPlaces,
  UpgradePlaces, CommitPlaces, RestorePlaces
<1>5. CastFits'
  BY <1>1, ExistingBoxes DEF CastFits, UpgradeFits, FinishFits, InstallFits, HAAsked
<1>6. UpgradeFits'
  BY <1>1, ExistingBoxes DEF UpgradeFits, CastFits, HAAsked, Newest, Running
<1>7. FinishFits'
  BY <1>1, ExistingBoxes DEF FinishFits, UpgradeFits, CastFits, HAAsked, Running
<1>8. InstallFits'
  BY <1>1, ExistingBoxes DEF InstallFits, CastFits, HAAsked, UpgradeFits
<1>. QED  BY <1>1, <1>2, <1>3, <1>4, <1>5, <1>6, <1>7, <1>8

(* An installation writes down what it is about to create.                 *)
LEMMA RecordFreshKeeps == ASSUME HAInv, RecordFresh PROVE HAInv'
<1>. USE DEF HAInv, Names, RecordFresh, Record, Write, Frame
<1>1. BoxesFit' /\ box' = box
  BY DEF BoxesFit, Exists
<1>2. HATypeOK'
  BY <1>1, SagaTypes, SagaAssumption DEF HATypeOK, SagaTypeOK, Records, HAAsked, HAPlaces, InstallPlaces,
    UpgradePlaces, CommitPlaces, RestorePlaces
<1>3. HAAsked'
  BY <1>1 DEF HAAsked, HAPlaces, InstallPlaces, UpgradePlaces, CommitPlaces, RestorePlaces
<1>4. DirectoriesFit'
  <2>1. CASE active' = active
    BY <1>1, <2>1 DEF DirectoriesFit, Exists
  <2>2. CASE active' = [image |-> ask.new, dir |-> 1]
    <3>1. \A n \in Names : ~Exists(n)
      BY DEF InstallFits, StageFree
    <3>2. active'.image = ask.new /\ active'.dir = 1 /\ ask.new \in Images /\ data[1] = 1
      BY <2>2 DEF InstallFits, HAAsked, InstallPlaces
    <3>5. data' = data
      OBVIOUS
    <3>6. ask.new >= 1 /\ ask.new \in Nat
      BY <3>2, ImagesAre
    <3>4. data'[1] = 1 /\ ask.new >= 1 /\ ask.new \in Nat
      BY ONLY <3>2, <3>5, <3>6
    <3>3. active'.image # 0 /\ active'.dir # 0 /\ data'[active'.dir] \in 1..active'.image
      BY ONLY <3>2, <3>4
    <3>. QED  BY <1>1, <3>1, <3>2, <3>3 DEF DirectoriesFit, Exists
  <2>. QED  BY <2>1, <2>2
<1>. USE DEF Beside, Both, Goes, IsOld, Of, NoRecord, StageFree, Exists, CanRename, IdOf, HAPlaces, InstallPlaces,
  UpgradePlaces, CommitPlaces, RestorePlaces
<1>5. CastFits'
  BY <1>1, ExistingBoxes DEF CastFits, UpgradeFits, FinishFits, InstallFits, HAAsked
<1>6. UpgradeFits'
  BY <1>1, ExistingBoxes DEF UpgradeFits, CastFits, HAAsked, Newest, Running
<1>7. FinishFits'
  BY <1>1, ExistingBoxes DEF FinishFits, UpgradeFits, CastFits, HAAsked, Running
<1>8. InstallFits'
  BY <1>1, ExistingBoxes DEF InstallFits, CastFits, HAAsked, UpgradeFits
<1>. QED  BY <1>1, <1>2, <1>3, <1>4, <1>5, <1>6, <1>7, <1>8

(* The commit writes the new image and directory down as the active ones.  *)
LEMMA CommitHAKeeps == ASSUME HAInv, CommitHA PROVE HAInv'
<1>. USE DEF HAInv, Names, CommitHA, Record, Write, Frame
<1>1. BoxesFit' /\ box' = box
  BY DEF BoxesFit, Exists
<1>2. HATypeOK'
  BY <1>1, SagaTypes, SagaAssumption, OfRecords DEF HATypeOK, SagaTypeOK, Records
<1>3. HAAsked'
  BY <1>1 DEF HAAsked, HAPlaces, InstallPlaces, UpgradePlaces, CommitPlaces, RestorePlaces
<1>4. DirectoriesFit'
  <2>1. CASE active' = active
    BY <1>1, <2>1 DEF DirectoriesFit, Exists
  <2>2. CASE active' = Of("main")
    <3>1. Exists("main") /\ active'.image = box["main"].image /\ active'.dir = box["main"].dir
      BY <2>2 DEF FinishFits, Both, CommitPlaces, Of
    <3>2. data' = data /\ data[box["main"].dir] \in 1..box["main"].image
            /\ \A n \in Names : Exists(n) /\ box[n].dir = box["main"].dir => n = "main"
      BY <3>1 DEF DirectoriesFit
    <3>3. \A n \in Names : Exists(n)' /\ box'[n].dir = active'.dir => box'[n].image = active'.image
      BY <1>1, <3>1, <3>2 DEF Exists
    <3>4. active'.image # 0 /\ active'.dir # 0 /\ data'[active'.dir] \in 1..active'.image
      BY <3>1, <3>2, ExistingBoxes DEF BoxesFit
    <3>. QED  BY <1>1, <3>2, <3>3, <3>4 DEF DirectoriesFit, Exists
  <2>. QED  BY <2>1, <2>2
<1>. USE DEF Beside, Both, Goes, IsOld, Of, NoRecord, StageFree, Exists, CanRename, IdOf, HAPlaces, InstallPlaces,
  UpgradePlaces, CommitPlaces, RestorePlaces
<1>5. CastFits'
  BY <1>1, ExistingBoxes DEF CastFits, UpgradeFits, FinishFits, InstallFits, HAAsked
<1>6. UpgradeFits'
  BY <1>1, ExistingBoxes DEF UpgradeFits, CastFits, HAAsked, Newest, Running
<1>7. FinishFits'
  BY <1>1, ExistingBoxes DEF FinishFits, UpgradeFits, CastFits, HAAsked, Running
<1>8. InstallFits'
  BY <1>1, ExistingBoxes DEF InstallFits, CastFits, HAAsked, UpgradeFits
<1>. QED  BY <1>1, <1>2, <1>3, <1>4, <1>5, <1>6, <1>7, <1>8

(* The rollback writes the old image and directory down again.             *)
LEMMA RerecordKeeps == ASSUME HAInv, Rerecord PROVE HAInv'
<1>. USE DEF HAInv, Names, Rerecord, Record, Write, Frame
<1>1. BoxesFit' /\ box' = box
  BY DEF BoxesFit, Exists
<1>2. HATypeOK'
  BY <1>1, SagaTypes, SagaAssumption DEF HATypeOK, SagaTypeOK, Records
<1>3. HAAsked'
  BY <1>1 DEF HAAsked, HAPlaces, InstallPlaces, UpgradePlaces, CommitPlaces, RestorePlaces
<1>4. DirectoriesFit'
  BY <1>1, ExistingBoxes DEF DirectoriesFit, Beside, Both, Goes, IsOld, Of, NoRecord, StageFree, Exists,
    CanRename, IdOf, FinishFits, HAAsked, HAPlaces, InstallPlaces, UpgradePlaces, CommitPlaces, RestorePlaces
<1>. USE DEF Beside, Both, Goes, IsOld, Of, NoRecord, StageFree, Exists, CanRename, IdOf, HAPlaces, InstallPlaces,
  UpgradePlaces, CommitPlaces, RestorePlaces
<1>5. CastFits'
  BY <1>1, ExistingBoxes DEF CastFits, UpgradeFits, FinishFits, InstallFits, HAAsked
<1>6. UpgradeFits'
  BY <1>1, ExistingBoxes DEF UpgradeFits, CastFits, HAAsked, Newest, Running
<1>7. FinishFits'
  BY <1>1, ExistingBoxes DEF FinishFits, UpgradeFits, CastFits, HAAsked, Running
<1>8. InstallFits'
  BY <1>1, ExistingBoxes DEF InstallFits, CastFits, HAAsked, UpgradeFits
<1>. QED  BY <1>1, <1>2, <1>3, <1>4, <1>5, <1>6, <1>7, <1>8

(* An installation makes its directory where none was, or uses the         *)
(* recorded one.                                                           *)
LEMMA MakeDirectoryKeeps == ASSUME HAInv, MakeDirectory PROVE HAInv'
<1>. USE DEF HAInv, Names, MakeDirectory, HA, haVars, Command, Frame, Check
<1>1. BoxesFit' /\ box' = box
  BY DEF BoxesFit, Exists
<1>2. HATypeOK'
  BY <1>1, SagaTypes, SagaAssumption DEF HATypeOK, SagaTypeOK, Records
<1>3. HAAsked'
  BY <1>1 DEF HAAsked, HAPlaces, InstallPlaces, UpgradePlaces, CommitPlaces, RestorePlaces
<1>4. DirectoriesFit'
  BY <1>1, ExistingBoxes, SagaAssumption DEF DirectoriesFit, Beside, Both, Goes, IsOld, Of, NoRecord, StageFree,
    Exists, CanRename, IdOf, InstallFits, HAAsked, HATypeOK, SagaTypeOK, HAPlaces, InstallPlaces, UpgradePlaces,
    CommitPlaces, RestorePlaces
<1>. USE DEF Beside, Both, Goes, IsOld, Of, NoRecord, StageFree, Exists, CanRename, IdOf, HAPlaces, InstallPlaces,
  UpgradePlaces, CommitPlaces, RestorePlaces
<1>5. CastFits'
  BY <1>1, ExistingBoxes DEF CastFits, UpgradeFits, FinishFits, InstallFits, HAAsked
<1>6. UpgradeFits'
  BY <1>1, ExistingBoxes DEF UpgradeFits, CastFits, HAAsked, Newest, Running
<1>7. FinishFits'
  BY <1>1, ExistingBoxes DEF FinishFits, UpgradeFits, CastFits, HAAsked, Running
<1>8. InstallFits'
  BY <1>1, ExistingBoxes, SagaAssumption DEF InstallFits, CastFits, HAAsked, UpgradeFits, HATypeOK, SagaTypeOK
<1>. QED  BY <1>1, <1>2, <1>3, <1>4, <1>5, <1>6, <1>7, <1>8

(* An installation creates the container on the recorded directory.        *)
LEMMA CreateHAKeeps == ASSUME HAInv, CreateHA PROVE HAInv'
<1>. USE DEF HAInv, Names, CreateHA, HA, haVars, Command, Frame
<1>0. active.image \in Images /\ active.dir \in Dirs /\ ~Exists("main")
  BY DEF InstallFits, DirectoriesFit, HATypeOK, Records
<1>1. /\ BoxesFit' /\ \A m \in Names \ {"main"} : box'[m] = box[m]
      /\ \/ box'["main"] = box["main"] /\ box' # [box EXCEPT !["main"] = Created(active.image, active.dir)]
         \/ box'["main"].image = active.image /\ box'["main"].dir = active.dir /\ ~Running("main")' /\ Exists("main")'
  BY <1>0, CreateStep
<1>2. HATypeOK'
  BY <1>0, <1>1, SagaTypes, SagaAssumption DEF HATypeOK, SagaTypeOK, Records
<1>3. HAAsked'
  BY <1>0, <1>1 DEF HAAsked, HAPlaces, InstallPlaces, UpgradePlaces, CommitPlaces, RestorePlaces
<1>4. DirectoriesFit'
  <2>1. \A n \in Names : Exists(n)' => n = "main"
    BY <1>1 DEF InstallFits, StageFree, Exists
  <2>2. Exists("main")' => box'["main"].image = active.image /\ box'["main"].dir = active.dir
    BY <1>0, <1>1 DEF Exists
  <2>3. data' = data /\ active' = active /\ active # NoRecord
    BY DEF InstallFits
  <2>. QED  BY <2>1, <2>2, <2>3 DEF DirectoriesFit
<1>. USE DEF Beside, Both, Goes, IsOld, Of, NoRecord, StageFree, Exists, CanRename, IdOf, HAPlaces, InstallPlaces,
  UpgradePlaces, CommitPlaces, RestorePlaces
<1>5. CastFits'
  <2>1. StageFree' /\ row' = 0 /\ active' = active
    BY <1>1 DEF InstallFits, HAAsked
  <2>2. Exists("main")' => active' = Of("main")'
    <3>1. active = [image |-> active.image, dir |-> active.dir]
      BY DEF HATypeOK, Records
    <3>. QED  BY <1>0, <1>1, <2>1, <3>1
  <2>. QED  BY <2>1, <2>2 DEF CastFits
<1>6. UpgradeFits'
  BY <1>0, <1>1, ExistingBoxes DEF UpgradeFits, CastFits, HAAsked, Newest, Running
<1>7. FinishFits'
  BY <1>0, <1>1, ExistingBoxes DEF FinishFits, UpgradeFits, CastFits, HAAsked, Running
<1>8. InstallFits'
  BY <1>0, <1>1, ExistingBoxes DEF InstallFits, CastFits, HAAsked, UpgradeFits
<1>. QED  BY <1>0, <1>1, <1>2, <1>3, <1>4, <1>5, <1>6, <1>7, <1>8

(* The candidate is created on the copy, never on the directory in use.    *)
LEMMA StageKeeps == ASSUME HAInv, Stage PROVE HAInv'
<1>. USE DEF HAInv, Names, Stage, HA, haVars, Command, Frame
<1>0. ask.new \in Images /\ Newest \in Dirs /\ ~Exists("candidate")
  BY DEF UpgradeFits, HAAsked, UpgradePlaces, StageFree
<1>1. /\ BoxesFit' /\ \A m \in Names \ {"candidate"} : box'[m] = box[m]
      /\ \/ box'["candidate"] = box["candidate"] /\ box' # [box EXCEPT !["candidate"] = Created(ask.new, Newest)]
         \/ box'["candidate"].image = ask.new /\ box'["candidate"].dir = Newest /\ ~Running("candidate")' /\ Exists("candidate")'
  BY <1>0, CreateStep
<1>2. HATypeOK'
  BY <1>0, <1>1, SagaTypes, SagaAssumption DEF HATypeOK, SagaTypeOK, Records
<1>3. HAAsked'
  BY <1>0, <1>1 DEF HAAsked, HAPlaces, InstallPlaces, UpgradePlaces, CommitPlaces, RestorePlaces
<1>4. DirectoriesFit'
  <2>1. \A n \in Names : Exists(n)' => n \in {"main", "candidate"}
    BY <1>1 DEF UpgradeFits, StageFree, Exists
  <2>2. box'["main"] = box["main"] /\ Exists("main") /\ Exists("main")'
    BY <1>1 DEF UpgradeFits, Goes, IsOld, Exists
  <2>3. Exists("candidate")' => box'["candidate"].image = ask.new /\ box'["candidate"].dir = Newest
    BY <1>0, <1>1 DEF Exists
  <2>0. Goes("main") /\ Newest # old.dir /\ data[Newest] \in 1..row /\ ask.new > row
    BY DEF UpgradeFits, HAAsked, UpgradePlaces
  <2>4. /\ active.dir = box["main"].dir /\ Newest # active.dir /\ row \in Nat /\ ask.new > row /\ row = box["main"].image
        /\ data[Newest] \in 1..row
    BY <2>0, ImagesAre DEF Goes, IsOld, Of, HATypeOK, SagaTypeOK
  <2>5. data[Newest] \in 1..ask.new
    BY <1>0, <2>4, ImagesAre
  <2>6. data' = data /\ active' = active
    OBVIOUS
  <2>7. \A m, n \in Names : Exists(m)' /\ Exists(n)' /\ m # n => box'[m].dir # box'[n].dir
    BY <2>1, <2>2, <2>3, <2>4
  <2>8. \A n \in Names : Exists(n)' => data'[box'[n].dir] \in 1..box'[n].image
    BY <2>1, <2>2, <2>3, <2>5, <2>6 DEF DirectoriesFit
  <2>9. \A n \in Names : Exists(n)' /\ box'[n].dir = active.dir => box'[n].image = active.image
    BY <2>1, <2>2, <2>3, <2>4 DEF UpgradeFits, Goes, IsOld, Of
  <2>. QED  BY <2>6, <2>7, <2>8, <2>9 DEF DirectoriesFit
<1>. USE DEF Beside, Both, Goes, IsOld, Of, NoRecord, StageFree, Exists, CanRename, IdOf, HAPlaces, InstallPlaces,
  UpgradePlaces, CommitPlaces, RestorePlaces
<1>5. CastFits'
  BY <1>0, <1>1, ExistingBoxes DEF CastFits, UpgradeFits, FinishFits, InstallFits, HAAsked
<1>6. UpgradeFits'
  <2>1. pc' # "ha_identifying" => UpgradeFits'
    BY <1>1 DEF UpgradeFits
  <2>2. ASSUME pc' = "ha_identifying"
        PROVE  /\ Goes("main")' /\ ~Exists("previous")' /\ Exists("candidate")' /\ fresh' = 0 /\ Newest' = Newest
               /\ Of("candidate")' = [image |-> ask.new, dir |-> Newest] /\ ~Running("main")' /\ ~Running("candidate")'
    BY <1>0, <1>1, <2>2 DEF UpgradeFits, Newest, Running
  <2>. QED  BY <1>1, <2>1, <2>2 DEF UpgradeFits
<1>7. FinishFits'
  BY <1>0, <1>1, ExistingBoxes DEF FinishFits, UpgradeFits, CastFits, HAAsked, Running
<1>8. InstallFits'
  BY <1>0, <1>1, ExistingBoxes DEF InstallFits, CastFits, HAAsked, UpgradeFits
<1>. QED  BY <1>0, <1>1, <1>2, <1>3, <1>4, <1>5, <1>6, <1>7, <1>8

(* The way back begins with the new container, if there is one: it is      *)
(* stopped.                                                                *)
LEMMA RestoreKeeps == ASSUME HAInv, Restore PROVE HAInv'
<1>. USE DEF HAInv, Names, Restore, HA, haVars, Command, Frame, Check
<1>0. UNCHANGED <<data, ask, linked, row, removed, crashes, requests, haVars>> /\ (faults' = faults \/ Fault) /\ pc = "ha_restoring"
  OBVIOUS
<1> DEFINE View ==
      /\ BoxesFit' /\ \A m \in Names : (Exists(m)' <=> Exists(m)) /\ box'[m].image = box[m].image /\ box'[m].dir = box[m].dir
      /\ pc' \in {"error", "ha_renaming", "ha_dropping"}
      /\ (pc' = "ha_renaming" => fresh = 0) /\ (pc' = "ha_dropping" => fresh # 0)
<1>1. View
  <2>1. CASE fresh = 0 /\ HA(Check("ha_restoring", TRUE, "ha_renaming", "error"))
    BY <2>1 DEF BoxesFit, Exists
  <2>2. ASSUME NEW n \in IdOf(fresh), HA(Command("ha_restoring", TRUE, Stopped(n), "ha_dropping", "error"))
        PROVE  View
    <3>1. n \in Names /\ Exists(n) /\ fresh # 0
      BY <2>2 DEF IdOf, BoxesFit
    <3>2. box' \in {box, Stopped(n)} /\ pc' \in {"error", "ha_dropping"}
      BY <2>2
    <3>3. /\ BoxesFit' /\ (\A m \in Names \ {n} : box'[m] = box[m])
          /\ Exists(n)' /\ box'[n].image = box[n].image /\ box'[n].dir = box[n].dir
      BY <3>1, <3>2, StopStep
    <3>4. \A m \in Names : (Exists(m)' <=> Exists(m)) /\ box'[m].image = box[m].image /\ box'[m].dir = box[m].dir
      BY <3>1, <3>3 DEF Exists
    <3>. QED  BY <3>1, <3>2, <3>3, <3>4
  <2>. QED  BY <2>1, <2>2
<1>. HIDE DEF Restore, HA, Command
<1>2. HATypeOK'
  BY <1>0, <1>1, SagaTypes, SagaAssumption DEF HATypeOK, SagaTypeOK, Records
<1>3. HAAsked'
  BY <1>0, <1>1 DEF HAAsked, HAPlaces, InstallPlaces, UpgradePlaces, CommitPlaces, RestorePlaces
<1>4. DirectoriesFit'
  BY <1>0, <1>1, ExistingBoxes DEF DirectoriesFit, Beside, Both, Goes, IsOld, Of, NoRecord, StageFree, Exists,
    CanRename, IdOf
<1>. USE DEF Beside, Both, Goes, IsOld, Of, NoRecord, StageFree, Exists, CanRename, IdOf, HAPlaces, InstallPlaces,
  UpgradePlaces, CommitPlaces, RestorePlaces
<1>5. CastFits'
  BY <1>0, <1>1, ExistingBoxes DEF CastFits, UpgradeFits, FinishFits, InstallFits, HAAsked
<1>6. UpgradeFits'
  BY <1>0, <1>1, ExistingBoxes DEF UpgradeFits, CastFits, HAAsked, Newest, Running
<1>7. FinishFits'
  <2>1. \A n \in Names : (Exists(n)' <=> Exists(n)) /\ Of(n)' = Of(n)
    BY <1>1
  <2>2. (Beside' <=> Beside) /\ (Goes("main")' <=> Goes("main"))
    BY <1>0, <1>1, <2>1
  <2>3. fresh = 0 => ~Beside
    BY DEF BoxesFit
  <2>. QED  BY <1>0, <1>1, <2>1, <2>2, <2>3 DEF FinishFits
<1>8. InstallFits'
  BY <1>0, <1>1, ExistingBoxes DEF InstallFits, CastFits, HAAsked, UpgradeFits
<1>. QED  BY <1>0, <1>1, <1>2, <1>3, <1>4, <1>5, <1>6, <1>7, <1>8

(* The way back: the new container is removed, its directory is kept.      *)
LEMMA DropNewKeeps == ASSUME HAInv, DropNew PROVE HAInv'
<1>. USE DEF HAInv, Names, DropNew, HA, haVars, Command, Frame
<1>0. UNCHANGED <<data, ask, linked, row, removed, crashes, requests, haVars>> /\ (faults' = faults \/ Fault) /\ pc = "ha_dropping" /\ pc' \in {"error", "ha_renaming"}
  OBVIOUS
<1>1. PICK n \in IdOf(fresh) :
        /\ BoxesFit' /\ (\A m \in Names \ {n} : box'[m] = box[m]) /\ box'[n] \in {box[n], Absent}
        /\ pc' = "ha_renaming" => ~Exists(n)'
  BY RemoveStep DEF IdOf
<1>9. n \in Names /\ Exists(n) /\ box[n].dir = fresh /\ Beside
  BY <1>0 DEF IdOf, FinishFits
<1>10. \/ n = "candidate" /\ Goes("main") /\ ~Exists("previous")
       \/ n = "candidate" /\ Goes("previous") /\ ~Exists("main")
       \/ n = "main" /\ Goes("previous") /\ ~Exists("candidate")
  <2>1. \A m \in Names : Exists(m) /\ box[m].dir = fresh => n = m
    BY <1>9 DEF DirectoriesFit
  <2>. QED  BY <1>9, <2>1 DEF Beside
<1>. HIDE DEF DropNew, HA, Command
<1>2. HATypeOK'
  BY <1>0, <1>1, <1>9, <1>10, SagaTypes, SagaAssumption DEF HATypeOK, SagaTypeOK, Records
<1>3. HAAsked'
  BY <1>0, <1>1, <1>9, <1>10 DEF HAAsked, HAPlaces, InstallPlaces, UpgradePlaces, CommitPlaces, RestorePlaces
<1>4. DirectoriesFit'
  BY <1>0, <1>1, <1>9, <1>10, ExistingBoxes DEF DirectoriesFit, Beside, Both, Goes, IsOld, Of, NoRecord,
    StageFree, Exists, CanRename, IdOf
<1>. USE DEF Beside, Both, Goes, IsOld, Of, NoRecord, StageFree, Exists, CanRename, IdOf, HAPlaces, InstallPlaces,
  UpgradePlaces, CommitPlaces, RestorePlaces
<1>5. CastFits'
  BY <1>0, <1>1, <1>9, <1>10, ExistingBoxes DEF CastFits, UpgradeFits, FinishFits, InstallFits, HAAsked
<1>6. UpgradeFits'
  BY <1>0, <1>1, <1>9, <1>10, ExistingBoxes DEF UpgradeFits, CastFits, HAAsked, Newest, Running
<1>7. FinishFits'
  BY <1>0, <1>1, <1>9, <1>10, ExistingBoxes DEF FinishFits, UpgradeFits, CastFits, HAAsked, Running
<1>8. InstallFits'
  BY <1>0, <1>1, <1>9, <1>10, ExistingBoxes DEF InstallFits, CastFits, HAAsked, UpgradeFits
<1>. QED  BY <1>0, <1>1, <1>9, <1>10, <1>2, <1>3, <1>4, <1>5, <1>6, <1>7, <1>8

(* The way back: the old container gets the main name again.               *)
LEMMA RenameOldKeeps == ASSUME HAInv, RenameOld PROVE HAInv'
<1>. USE DEF HAInv, Names, RenameOld, HA, haVars, Command, Frame, Check
<1>0. UNCHANGED <<data, ask, linked, row, removed, crashes, requests, haVars>> /\ (faults' = faults \/ Fault) /\ pc = "ha_renaming" /\ pc' \in {"error", "ha_relaunching"}
  OBVIOUS
<1>1. \/ box' = box /\ BoxesFit' /\ (pc' = "ha_relaunching" => Goes("main") /\ ~Exists("previous"))
      \/ /\ Goes("previous") /\ ~Exists("main") /\ ~Exists("candidate") /\ BoxesFit'
         /\ box'["candidate"] = box["candidate"] /\ box'["main"] = box["previous"] /\ box'["previous"] = Absent /\ ~Exists("previous")'
  <2>1. PICK n \in IdOf(old.dir) :
          \/ n = "main" /\ HA(Check("ha_renaming", TRUE, "ha_relaunching", "error"))
          \/ n # "main" /\ HA(Command("ha_renaming", CanRename(n, "main"), Renamed(n, "main"), "ha_relaunching", "error"))
    OBVIOUS
  <2>2. n \in Names /\ Exists(n) /\ box[n].dir = old.dir
    BY DEF IdOf
  <2>3. \/ n = "main" /\ Goes("main") /\ ~Exists("previous")
        \/ n = "previous" /\ Goes("previous") /\ ~Exists("main") /\ ~Exists("candidate")
    BY <1>0, <2>2 DEF FinishFits, Goes, IsOld, Of, DirectoriesFit
  <2>4. CASE n = "main"
    BY <2>1, <2>3, <2>4 DEF BoxesFit, Exists
  <2>5. CASE n = "previous"
    <3>1. CanRename("previous", "main") /\ box' \in {box, Renamed("previous", "main")}
            /\ (pc' = "ha_relaunching" => box' = Renamed("previous", "main"))
      BY <2>1, <2>3, <2>5 DEF CanRename, Goes, IsOld
    <3>2. CASE box' = Renamed("previous", "main")
      BY <2>3, <2>5, <3>1, <3>2, RenameStep
    <3>3. CASE pc' # "ha_relaunching" /\ box' = box
      BY <3>3 DEF BoxesFit, Exists
    <3>. QED  BY <3>1, <3>2, <3>3
  <2>. QED  BY <2>3, <2>4, <2>5
<1>. HIDE DEF RenameOld, HA, Command, Check
<1>2. HATypeOK'
  BY <1>0, <1>1, SagaTypes, SagaAssumption DEF HATypeOK, SagaTypeOK, Records
<1>3. HAAsked'
  BY <1>0, <1>1 DEF HAAsked, HAPlaces, InstallPlaces, UpgradePlaces, CommitPlaces, RestorePlaces
<1>4. DirectoriesFit'
  BY <1>0, <1>1, ExistingBoxes DEF DirectoriesFit, Beside, Both, Goes, IsOld, Of, NoRecord, StageFree, Exists,
    CanRename, IdOf
<1>. USE DEF Beside, Both, Goes, IsOld, Of, NoRecord, StageFree, Exists, CanRename, IdOf, HAPlaces, InstallPlaces,
  UpgradePlaces, CommitPlaces, RestorePlaces
<1>5. CastFits'
  BY <1>0, <1>1, ExistingBoxes DEF CastFits, UpgradeFits, FinishFits, InstallFits, HAAsked
<1>6. UpgradeFits'
  BY <1>0, <1>1, ExistingBoxes DEF UpgradeFits, CastFits, HAAsked, Newest, Running
<1>7. FinishFits'
  BY <1>0, <1>1, ExistingBoxes DEF FinishFits, UpgradeFits, CastFits, HAAsked, Running
<1>8. InstallFits'
  BY <1>0, <1>1, ExistingBoxes DEF InstallFits, CastFits, HAAsked, UpgradeFits
<1>. QED  BY <1>0, <1>1, <1>2, <1>3, <1>4, <1>5, <1>6, <1>7, <1>8

(* The data is copied into a new directory while nothing writes the old    *)
(* one.                                                                    *)
LEMMA CopyKeeps == ASSUME HAInv, Copy PROVE HAInv'
<1>. USE DEF HAInv, Names, Copy, Write, Frame, haVars
<1>1. PICK d \in Dirs :
        /\ data[d] = 0 /\ \A c \in Dirs : c < d => data[c] # 0
        /\ Write("ha_copying", data' = [data EXCEPT ![d] = data[old.dir]], UNCHANGED data, "ha_staging", "ha_restoring")
        /\ UNCHANGED haVars
  OBVIOUS
<1>0. /\ UNCHANGED <<box, ask, linked, row, removed, crashes, requests, haVars>> /\ pc = "ha_copying"
      /\ faults' = faults \/ Fault
      /\ data' \in {data, [data EXCEPT ![d] = data[old.dir]]}
      /\ \/ pc' = "ha_staging" /\ data' = [data EXCEPT ![d] = data[old.dir]]
         \/ pc' = "ha_restoring"
  BY <1>1
<1>. HIDE DEF Copy, Write
<1>9. /\ BoxesFit' /\ StageFree /\ Goes("main") /\ fresh = 0 /\ ~Running("main") /\ data \in [Dirs -> Images \cup {0}]
      /\ row \in Images /\ row \in Nat /\ ask.new \in Nat /\ ask.op = "upgrade"
  <2>1. BoxesFit'
    BY <1>0 DEF BoxesFit, Exists
  <2>2. StageFree /\ Goes("main") /\ fresh = 0 /\ ~Running("main") /\ ask.op = "upgrade" /\ row # 0 /\ ask.new \in Images
    BY <1>0 DEF UpgradeFits, HAAsked, UpgradePlaces
  <2>. QED  BY <2>1, <2>2, ImagesAre DEF HATypeOK, SagaTypeOK
<1>10. old.dir = box["main"].dir /\ old.dir \in Dirs /\ data[old.dir] \in 1..row /\ data[old.dir] \in Images /\ d # old.dir
  <2>1. old.dir = box["main"].dir /\ Exists("main") /\ row = box["main"].image
    BY <1>9 DEF Goes, IsOld, Of
  <2>2. old.dir \in Dirs /\ data[old.dir] \in 1..row
    BY <2>1, ExistingBoxes DEF DirectoriesFit
  <2>. QED  BY <1>1, <1>9, <2>1, <2>2
<1>11. \A c \in Dirs : c \in Nat
  BY SagaAssumption
<1>12. \A c \in Dirs : c > d => data[c] = 0
  BY <1>1, <1>11 DEF DirectoriesFit
<1>13. data' = [data EXCEPT ![d] = data[old.dir]] => Newest' = d
  <2>. SUFFICES ASSUME data' = [data EXCEPT ![d] = data[old.dir]] PROVE Newest' = d
    OBVIOUS
  <2>1. /\ data'[d] # 0 /\ \A c \in Dirs : c # d => data'[c] = data[c]
    BY <1>9, <1>10
  <2>2. d \in Dirs /\ data'[d] # 0 /\ \A c \in Dirs : c > d => data'[c] = 0
    BY <1>11, <1>12, <2>1
  <2> DEFINE Top(e) == data'[e] # 0 /\ \A c \in Dirs : c > e => data'[c] = 0
  <2>3. Newest' = CHOOSE e \in Dirs : Top(e)
    BY DEF Newest
  <2>4. Top(d)
    BY <2>2
  <2>5. \A e \in Dirs : Top(e) => e = d
    BY <1>11, <2>2
  <2>. HIDE DEF Top
  <2>6. (CHOOSE e \in Dirs : Top(e)) \in Dirs /\ Top(CHOOSE e \in Dirs : Top(e))
    BY <2>4, Zenon
  <2>. QED  BY <2>3, <2>5, <2>6
<1>2. HATypeOK'
  <2>1. data' \in [Dirs -> Images \cup {0}]
    BY <1>0, <1>9, <1>10
  <2>. QED  BY <1>0, <1>9, <2>1, SagaTypes DEF HATypeOK
<1>3. HAAsked'
  BY <1>0, <1>9 DEF HAAsked, HAPlaces, InstallPlaces, UpgradePlaces, CommitPlaces, RestorePlaces
<1>4. DirectoriesFit'
  <2>1. \A c \in Dirs : data'[c] = data[c] \/ (c = d /\ data'[c] # 0)
    BY <1>0, <1>9, <1>10
  <2>2. \A n \in Names : Exists(n) => box[n].dir \in Dirs /\ box[n].dir # d
    BY <1>1, ExistingBoxes DEF DirectoriesFit
  <2>3. \A c, e \in Dirs : c < e /\ data'[e] # 0 => data'[c] # 0
    BY <1>1, <1>11, <1>12, <2>1 DEF DirectoriesFit
  <2>4. active' = active /\ active.dir = old.dir
    BY <1>0, <1>9 DEF Goes, IsOld, haVars
  <2>5. \A n \in Names : (Exists(n)' <=> Exists(n)) /\ box'[n] = box[n]
    BY <1>0 DEF Exists
  <2>6. \A n \in Names : Exists(n) => data'[box[n].dir] = data[box[n].dir]
    BY <2>1, <2>2
  <2>7. data'[active.dir] = data[active.dir]
    BY <1>10, <2>1, <2>4
  <2>. QED  BY <2>3, <2>4, <2>5, <2>6, <2>7 DEF DirectoriesFit, NoRecord
<1>. USE DEF Beside, Both, Goes, IsOld, Of, NoRecord, StageFree, Exists, CanRename, IdOf, HAPlaces, InstallPlaces,
  UpgradePlaces, CommitPlaces, RestorePlaces
<1>5. CastFits'
  BY <1>0, <1>9, ExistingBoxes DEF CastFits, UpgradeFits, FinishFits, InstallFits, HAAsked
<1>6. UpgradeFits'
  <2>1. CASE pc' = "ha_restoring"
    BY <1>0, <2>1 DEF UpgradeFits, HAAsked
  <2>2. CASE pc' = "ha_staging" /\ data' = [data EXCEPT ![d] = data[old.dir]]
    <3>1. Newest' = d /\ data'[d] = data[old.dir]
      BY <1>9, <1>13, <2>2
    <3>2. Newest' \in Dirs /\ Newest' # old.dir /\ data'[Newest'] \in 1..row
      BY <1>10, <3>1
    <3>3. StageFree' /\ Goes("main")' /\ ~Running("main")' /\ ~Running("candidate")'
      BY <1>0, <1>9, ExistingBoxes DEF Running
    <3>. QED  BY <1>0, <1>9, <2>2, <3>2, <3>3 DEF UpgradeFits, HAAsked
  <2>. QED  BY <1>0, <2>1, <2>2
<1>7. FinishFits'
  BY <1>0, <1>9, ExistingBoxes DEF FinishFits, UpgradeFits, CastFits, HAAsked, Running
<1>8. InstallFits'
  BY <1>0, <1>9, ExistingBoxes DEF InstallFits, CastFits, HAAsked, UpgradeFits
<1>. QED  BY <1>0, <1>9, <1>2, <1>3, <1>4, <1>5, <1>6, <1>7, <1>8

(* Core's second request, commit or rollback, names the upgrade it belongs *)
(* to.                                                                     *)
LEMMA SecondHAKeeps == ASSUME HAInv, SecondHA PROVE HAInv'
<1>. USE DEF HAInv, Names, SecondHA, HA, haVars, Registered
<1>1. BoxesFit' /\ box' = box
  BY DEF BoxesFit, Exists
<1>0. /\ pc = "ok" /\ ask.op = "upgrade" /\ pc' = "ha_pairing" /\ UNCHANGED <<data, linked, removed, crashes, requests, active, old, fresh>>
      /\ \/ row' = ask.new /\ ask' = [ask EXCEPT !.op = "commit"] /\ faults' = faults
         \/ row' = row /\ ask' = [ask EXCEPT !.op = "rollback"] /\ Fault
  OBVIOUS
<1>. HIDE DEF SecondHA
<1>2. /\ ask' \in [op : {"commit", "rollback"}, new : Images, old : Images]
      /\ ask'.new = ask.new /\ ask'.old = ask.old /\ ask.new \in Images
  BY <1>0 DEF HAAsked
<1>3. \/ row' = ask.new /\ ask'.op = "commit"
      \/ row' = row /\ ask'.op = "rollback"
  BY <1>0 DEF HAAsked
<1>4. Both /\ IsOld("previous") /\ box["main"].image = ask.new /\ row # 0
  BY <1>0 DEF UpgradeFits
<1>5. HATypeOK'
  <2>1. row' \in Images \cup {0} /\ (faults' = faults \/ Fault)
    BY <1>0, <1>2, <1>3 DEF HATypeOK, SagaTypeOK
  <2>. QED  BY <1>0, <1>1, <2>1, SagaAssumption DEF HATypeOK, SagaTypeOK, Fault
<1>6. HAAsked'
  BY <1>0, <1>2 DEF HAAsked, HAPlaces, InstallPlaces, UpgradePlaces, CommitPlaces, RestorePlaces
<1>7. DirectoriesFit'
  BY <1>0, <1>1 DEF DirectoriesFit, Exists
<1>8. \A n \in Names : (Exists(n)' <=> Exists(n)) /\ Of(n)' = Of(n)
  BY <1>1 DEF Exists, Of
<1>9. CastFits'
  BY <1>0, <1>1, <1>3, <1>4, <1>8 DEF CastFits, Both, IsOld, StageFree
<1>10. UpgradeFits'
  BY <1>0, <1>2 DEF UpgradeFits
<1>11. FinishFits'
  BY <1>0, <1>1, <1>2, <1>3, <1>4, <1>8 DEF FinishFits, Both, IsOld, CommitPlaces
<1>12. InstallFits'
  BY <1>0, <1>2 DEF InstallFits

<1>. QED  BY <1>1, <1>5, <1>6, <1>7, <1>9, <1>10, <1>11, <1>12

(* A request finds the helper free, whatever an earlier one has left.      *)
LEMMA AskHAKeeps == ASSUME HAInv, AskHA PROVE HAInv'
<1>. USE DEF HAInv, Names, AskHA, haVars, Ask
<1>1. BoxesFit' /\ box' = box
  BY DEF BoxesFit, Exists
<1>2. HATypeOK'
  <2>1. requests' = requests + 1 /\ requests < MaxRequests /\ linked' = TRUE
          /\ UNCHANGED <<box, data, row, faults, crashes, active, old, fresh>>
    OBVIOUS
  <2>2. Remembered
    BY DEF Remembered
  <2>3. removed' \in BOOLEAN
    BY <2>2, RemovedIs DEF HATypeOK
  <2>. QED  BY <2>1, <2>3, SagaAssumption DEF HATypeOK, SagaTypeOK
<1>3. HAAsked'
  <2>1. ask' \in [op : {"upgrade", "start", "stop", "restart", "remove", "install"}, new : Images, old : Images]
    BY DEF HATypeOK, SagaTypeOK
  <2>. QED  BY <1>1, <2>1 DEF HAAsked, HAPlaces, InstallPlaces, UpgradePlaces, CommitPlaces, RestorePlaces
<1>4. DirectoriesFit'
  BY <1>1, ExistingBoxes DEF DirectoriesFit, Beside, Both, Goes, IsOld, Of, NoRecord, StageFree, Exists,
    CanRename, IdOf
<1>. USE DEF Beside, Both, Goes, IsOld, Of, NoRecord, StageFree, Exists, CanRename, IdOf, HAPlaces, InstallPlaces,
  UpgradePlaces, CommitPlaces, RestorePlaces
<1>5. CastFits'
  BY <1>1, ExistingBoxes DEF CastFits, UpgradeFits, FinishFits, InstallFits, HAAsked
<1>6. UpgradeFits'
  BY <1>1, ExistingBoxes DEF UpgradeFits, CastFits, HAAsked, Newest, Running
<1>7. FinishFits'
  BY <1>1, ExistingBoxes DEF FinishFits, UpgradeFits, CastFits, HAAsked, Running
<1>8. InstallFits'
  BY <1>1, ExistingBoxes DEF InstallFits, CastFits, HAAsked, UpgradeFits
<1>. QED  BY <1>1, <1>2, <1>3, <1>4, <1>5, <1>6, <1>7, <1>8

(* A running container brings its own directory to its own version.        *)
LEMMA MigrateHAKeeps == ASSUME HAInv, HA(Migrate) PROVE HAInv'
<1>. USE DEF HAInv, Names, Migrate, HA, haVars, Frame
<1>1. PICK n \in Names :
        /\ Running(n) /\ data[box[n].dir] \in 1..(box[n].image - 1)
        /\ data' = [data EXCEPT ![box[n].dir] = box[n].image]
        /\ UNCHANGED <<box, pc, faults, ask, linked, row, removed, crashes, requests, haVars>>
  OBVIOUS
<1>. HIDE DEF Migrate, HA
<1>0. /\ BoxesFit' /\ Exists(n) /\ box[n].dir \in Dirs /\ box[n].image \in Images /\ box[n].image \in Nat
      /\ data \in [Dirs -> Images \cup {0}] /\ data[box[n].dir] \in Nat
  BY <1>1, ExistingBoxes, ImagesAre DEF BoxesFit, Exists, HATypeOK, SagaTypeOK
<1>9. pc \notin {"ha_staging", "ha_identifying", "ha_recording"}
  BY <1>0, <1>1 DEF UpgradeFits, InstallFits, StageFree, Goes, IsOld
<1>2. HATypeOK'
  <2>1. data' \in [Dirs -> Images \cup {0}]
    BY <1>0, <1>1
  <2>. QED  BY <1>0, <1>1, <2>1, SagaTypes DEF HATypeOK
<1>3. HAAsked'
  BY <1>0, <1>1, <1>9 DEF HAAsked, HAPlaces, InstallPlaces, UpgradePlaces, CommitPlaces, RestorePlaces
<1>4. DirectoriesFit'
  <2>1. data'[box[n].dir] = box[n].image /\ \A c \in Dirs : c # box[n].dir => data'[c] = data[c]
    BY <1>0, <1>1
  <2>2. \A c \in Dirs : data'[c] = 0 <=> data[c] = 0
    BY <1>0, <1>1, <2>1, ImagesAre
  <2>3. \A m \in Names : Exists(m) /\ m # n => box[m].dir \in Dirs /\ box[m].dir # box[n].dir
    BY <1>0, ExistingBoxes DEF DirectoriesFit
  <2>4. \A m \in Names : (Exists(m)' <=> Exists(m)) /\ box'[m] = box[m]
    BY <1>1 DEF Exists
  <2>5. box[n].image \in 1..box[n].image
    BY <1>0, ImagesAre
  <2>6. \A m \in Names : Exists(m) => data'[box[m].dir] \in 1..box[m].image
    BY <2>1, <2>3, <2>5 DEF DirectoriesFit
  <2>7. active # NoRecord => active.dir \in Dirs /\ data'[active.dir] \in 1..active.image
    BY <1>0, <2>1, <2>5 DEF DirectoriesFit, HATypeOK, Records
  <2>8. active' = active
    BY <1>1
  <2>. QED  BY <2>2, <2>4, <2>6, <2>7, <2>8 DEF DirectoriesFit
<1>. USE DEF Beside, Both, Goes, IsOld, Of, NoRecord, StageFree, Exists, CanRename, IdOf, HAPlaces, InstallPlaces,
  UpgradePlaces, CommitPlaces, RestorePlaces
<1>5. CastFits'
  BY <1>0, <1>1, <1>9, ExistingBoxes DEF CastFits, UpgradeFits, FinishFits, InstallFits, HAAsked
<1>6. UpgradeFits'
  BY <1>0, <1>1, <1>9, ExistingBoxes DEF UpgradeFits, CastFits, HAAsked, Newest, Running
<1>7. FinishFits'
  BY <1>0, <1>1, <1>9, ExistingBoxes DEF FinishFits, UpgradeFits, CastFits, HAAsked, Running
<1>8. InstallFits'
  BY <1>0, <1>1, <1>9, ExistingBoxes DEF InstallFits, CastFits, HAAsked, UpgradeFits
<1>. QED  BY <1>0, <1>1, <1>9, <1>2, <1>3, <1>4, <1>5, <1>6, <1>7, <1>8

(* An answer, a death of Core or of the helper.                            *)
LEMMA AroundHAKeeps ==
  ASSUME HAInv, HA(Answered) \/ HA(CoreDies) \/ HA(HelperDies)
  PROVE  HAInv'
<1>. USE DEF HAInv, Names, HA, haVars, Answered, CoreDies, HelperDies, Crash
<1>1. BoxesFit' /\ box' = box /\ UNCHANGED <<data, ask, removed, faults, requests, haVars>> /\ pc' \in {pc, "idle"}
  BY DEF BoxesFit, Exists
<1>0. \/ row' = row
      \/ row' = 0 /\ ~Exists("main") /\ pc' = "idle"
      \/ row = 0 /\ row' = ask.new /\ Exists("main") /\ box["main"].image = ask.new /\ ask.new \in Images /\ pc' = "idle"
  <2>1. HA(CoreDies) \/ HA(HelperDies) => row' = row
    OBVIOUS
  <2>2. ASSUME HA(Answered)
        PROVE  \/ row' = row
               \/ row' = 0 /\ ~Exists("main") /\ pc' = "idle"
               \/ /\ row = 0 /\ row' = ask.new /\ Exists("main") /\ box["main"].image = ask.new
                  /\ ask.new \in Images /\ pc' = "idle"
    <3>1. \/ row' = row
          \/ pc = "ok" /\ ask.op = "remove" /\ row' = 0 /\ pc' = "idle"
          \/ pc = "ok" /\ ask.op = "install" /\ row' = ask.new /\ pc' = "idle"
      BY <2>2
    <3>2. ask.new \in Images
      BY DEF HAAsked
    <3>. QED  BY <3>1, <3>2 DEF InstallFits
  <2>. QED  BY <2>1, <2>2
<1>2. HATypeOK'
  <2>1. linked' \in BOOLEAN
    BY DEF HATypeOK, SagaTypeOK
  <2>2. crashes' = crashes \/ (crashes < MaxCrashes /\ crashes' = crashes + 1)
    OBVIOUS
  <2>. QED  BY <1>0, <1>1, <2>1, <2>2, SagaAssumption DEF HATypeOK, SagaTypeOK
<1>3. HAAsked'
  BY <1>0, <1>1 DEF HAAsked, HAPlaces, InstallPlaces, UpgradePlaces, CommitPlaces, RestorePlaces
<1>4. DirectoriesFit'
  BY <1>0, <1>1, ExistingBoxes DEF DirectoriesFit, Beside, Both, Goes, IsOld, Of, NoRecord, StageFree, Exists,
    CanRename, IdOf
<1>. USE DEF Beside, Both, Goes, IsOld, Of, NoRecord, StageFree, Exists, CanRename, IdOf, HAPlaces, InstallPlaces,
  UpgradePlaces, CommitPlaces, RestorePlaces
<1>5. CastFits'
  BY <1>0, <1>1, ExistingBoxes DEF CastFits, UpgradeFits, FinishFits, InstallFits, HAAsked
<1>6. UpgradeFits'
  BY <1>0, <1>1, ExistingBoxes DEF UpgradeFits, CastFits, HAAsked, Newest, Running
<1>7. FinishFits'
  BY <1>0, <1>1, ExistingBoxes DEF FinishFits, UpgradeFits, CastFits, HAAsked, Running
<1>8. InstallFits'
  BY <1>0, <1>1, ExistingBoxes DEF InstallFits, CastFits, HAAsked, UpgradeFits
<1>. QED  BY <1>0, <1>1, <1>2, <1>3, <1>4, <1>5, <1>6, <1>7, <1>8

(* Every step of Home Assistant's operations keeps the invariant.          *)
LEMMA HAKeeps == ASSUME HAInv, HANext PROVE HAInv'
<1>1. ASSUME InstallHA \/ ControlHA \/ StopHA \/ HaltHA \/ RemoveHA PROVE HAInv'
  BY <1>1, InstallChecksKeep, HAStartsKeep, MakeDirectoryKeeps, RecordFreshKeeps, CreateHAKeeps, HAStopsKeep,
    HARemovalsKeep
  DEF InstallHA
<1>2. ASSUME UpgradeHA PROVE HAInv'
  BY <1>2, UpgradeChecksKeep, HAStopsKeep, CopyKeeps, StageKeeps, TryHAKeeps, RetireHAKeeps, PromoteHAKeeps
  DEF UpgradeHA
<1>3. ASSUME FinishHA PROVE HAInv'
  BY <1>3, SecondHAKeeps, UpgradeChecksKeep, CommitHAKeeps, DropOldKeeps, RestoreKeeps, DropNewKeeps,
    RenameOldKeeps, HAStartsKeep, RerecordKeeps
  DEF FinishHA
<1>. QED  BY <1>1, <1>2, <1>3, AskHAKeeps, MigrateHAKeeps, AroundHAKeeps DEF HANext

(* An installed Home Assistant, or none, satisfies it.                     *)
LEMMA HAStarts == ASSUME HAInit PROVE HAInv
<1>. USE DEF HAInit, Names
<1>0. /\ SagaTypeOK /\ BoxesFit /\ StageFree
      /\ IF row = 1 THEN Exists("main") /\ box["main"].image = 1 /\ box["main"].dir = 1 ELSE ~Exists("main")
  BY FirstBoxes DEF StageFree
<1>1. /\ pc = "idle" /\ row \in {0, 1} /\ active = [image |-> row, dir |-> row] /\ old = NoRecord /\ fresh = 0
      /\ ask = [op |-> "none", new |-> 1, old |-> 1] /\ data \in [Dirs -> Images \cup {0}]
      /\ data[1] = row /\ \A d \in Dirs : d # 1 => data[d] = 0
  BY SagaAssumption DEF SagaInit
<1>2. HATypeOK
  BY <1>0, <1>1, SagaAssumption DEF HATypeOK, NoRecord, Records
<1>3. HAAsked
  BY <1>1, SagaAssumption DEF HAAsked, HAPlaces, InstallPlaces, UpgradePlaces, CommitPlaces, RestorePlaces
<1>4. DirectoriesFit
  BY <1>0, <1>1, SagaAssumption DEF DirectoriesFit, StageFree, NoRecord
<1>5. CastFits
  BY <1>0, <1>1 DEF CastFits, StageFree, Of
<1>6. UpgradeFits /\ FinishFits /\ InstallFits
  BY <1>1 DEF UpgradeFits, FinishFits, InstallFits, CommitPlaces
<1>. QED  BY <1>0, <1>2, <1>3, <1>4, <1>5, <1>6 DEF HAInv

(* Checks, records and the copy move no container.                         *)
LEMMA HAFilesStay ==
  ASSUME HAInv, StillThere,
         \/ AdoptHA \/ ResumePort \/ Verified \/ InstallPort \/ MakeDirectory \/ RecordFresh \/ WatchHA
         \/ ControlHA \/ CheckHA \/ Copy \/ Identify \/ ProveHA \/ ConfirmHA \/ Pair \/ Settle \/ CommitHA
         \/ Reprove \/ Rerecord \/ HA(Migrate)
  PROVE  StillThere'
<1>1. Frame /\ box' = box /\ (pc' # "idle" => pc # "idle")
  BY DEF AdoptHA, ResumePort, Verified, InstallPort, PortFree, MakeDirectory, RecordFresh, WatchHA, ControlHA, CheckHA,
    Copy, Identify, ProveHA, ConfirmHA, Pair, Settle, CommitHA, Reprove, Rerecord, Migrate, HA, Record, Write, Check,
    Command
<1>2. Present => Present'
  BY <1>1 DEF Present, Exists
<1>. QED  BY <1>1, <1>2, CommandStill
(* Starting, stopping, creating and renaming take none from its name.      *)
LEMMA HACommandsStay ==
  ASSUME HAInv, StillThere,
         \/ Resume \/ CreateHA \/ LaunchHA \/ GiveUp \/ StopHA \/ HaltHA \/ Quiet \/ Stage \/ TryHA \/ RetireHA
         \/ PromoteHA \/ Restore \/ RenameOld \/ Relaunch
  PROVE  StillThere'
<1>. USE DEF HA, Check, Command
<1>1. Frame /\ pc # "idle"
  BY DEF Resume, CreateHA, LaunchHA, GiveUp, StopHA, HaltHA, Quiet, Stage, TryHA, RetireHA, PromoteHA, Restore,
    RenameOld, Relaunch
<1>2. Harmless
  <2>. USE DEF Names
  <2>1. CASE Resume \/ LaunchHA \/ GiveUp \/ StopHA \/ HaltHA \/ Quiet \/ TryHA \/ Relaunch
    BY <2>1 DEF Harmless, Resume, LaunchHA, GiveUp, StopHA, HaltHA, Quiet, TryHA, Relaunch
  <2>2. CASE RetireHA \/ PromoteHA
    BY <2>2 DEF Harmless, RetireHA, PromoteHA
  <2>3. CASE CreateHA
    <3>1. box' = box \/ (pc = "ha_creating" /\ box' = [box EXCEPT !["main"] = Created(active.image, active.dir)])
      BY <2>3 DEF CreateHA
    <3>2. pc = "ha_creating" => active.image \in Images /\ active.dir \in Dirs
      BY DEF HAInv, HATypeOK, Records, InstallFits, DirectoriesFit
    <3>. QED  BY <3>1, <3>2 DEF Harmless
  <2>4. CASE Stage
    <3>1. box' = box \/ (pc = "ha_staging" /\ box' = [box EXCEPT !["candidate"] = Created(ask.new, Newest)])
      BY <2>4 DEF Stage
    <3>2. pc = "ha_staging" => ask.new \in Images /\ Newest \in Dirs
      BY DEF HAInv, HAAsked, UpgradeFits
    <3>. QED  BY <3>1, <3>2 DEF Harmless
  <2>5. CASE Restore
    BY <2>5 DEF Harmless, Restore, IdOf
  <2>6. CASE RenameOld
    BY <2>6 DEF Harmless, RenameOld, IdOf
  <2>. QED  BY <2>1, <2>2, <2>3, <2>4, <2>5, <2>6
<1>3. Present => Present'
  BY <1>2, HarmlessKeeps DEF HAInv
<1>. QED  BY <1>1, <1>3, CommandStill
(* A container is removed on request, before it is registered, or while    *)
(* another stays from which the registered image can be started.           *)
LEMMA HARemovalsStay ==
  ASSUME HAInv, StillThere, ClearHA \/ RemoveHA \/ DropOld \/ DropNew
  PROVE  StillThere'
<1>. USE DEF HA, Command
<1>1. Frame /\ pc # "idle"
  BY DEF ClearHA, RemoveHA, DropOld, DropNew
<1>2. CASE ClearHA \/ RemoveHA
  <2>1. row # 0 => removed
    BY <1>2 DEF ClearHA, RemoveHA, HAInv, HAAsked, InstallFits, InstallPlaces, StillThere
  <2>. QED  BY <1>1, <2>1, CommandStill
<1>3. CASE DropOld
  <2>1. Exists("main") /\ box' \in {box, Removed("previous")}
    BY <1>3 DEF DropOld, HAInv, FinishFits, CommitPlaces, Both
  <2>2. box'["main"] = box["main"]
    BY <2>1, RemovedBoxes DEF HAInv, Names
  <2>3. Present'
    BY <2>1, <2>2 DEF Present, Exists
  <2>. QED  BY <1>1, <2>3, CommandStill
<1>4. CASE DropNew
  <2>1. PICK n \in IdOf(fresh) : pc = "ha_dropping" /\ box' \in {box, Removed(n)}
    BY <1>4 DEF DropNew
  <2>2. n \in Names /\ Exists(n) /\ box[n].dir = fresh
    BY DEF IdOf
  <2>3. PICK m \in {"main", "previous"} : Exists(m) /\ m # n
    <3>1. Beside
      BY <2>1 DEF HAInv, FinishFits
    <3>2. \A k \in Names : Exists(k) /\ k # n => box[k].dir # fresh
      BY <2>2 DEF HAInv, DirectoriesFit
    <3>. QED  BY <2>2, <3>1, <3>2 DEF Beside, Goes, IsOld, Names
  <2>4. box'[m] = box[m]
    BY <2>1, <2>2, <2>3, RemovedBoxes DEF HAInv, Names
  <2>5. Present'
    BY <2>3, <2>4 DEF Present, Exists
  <2>. QED  BY <1>1, <2>5, CommandStill
<1>. QED  BY <1>2, <1>3, <1>4
(* Every step of Home Assistant's operations.                              *)
LEMMA HAStaysThere == ASSUME HAInv, StillThere, HANext PROVE StillThere'
<1>1. CASE AskHA
  <2>1. box' = box /\ row' = row /\ (ask'.op = "install" => row = 0)
    BY <1>1 DEF AskHA, Ask
  <2>2. Remembered
    BY <1>1 DEF Remembered, AskHA, Ask
  <2>. QED  BY <2>1, <2>2, AskStill
<1>2. CASE HA(Answered) \/ HA(CoreDies) \/ HA(HelperDies)
  <2>1. Answered \/ CoreDies \/ HelperDies
    BY <1>2 DEF HA
  <2>2. pc = "ok" /\ ask.op = "install" => Exists("main")
    BY DEF HAInv, InstallFits
  <2>. QED  BY <2>1, <2>2, AnswerStill
<1>3. CASE SecondHA
  <2>1. /\ pc = "ok" /\ ask.op = "upgrade" /\ box' = box /\ removed' = removed
        /\ ask' \in {[ask EXCEPT !.op = "commit"], [ask EXCEPT !.op = "rollback"]}
    BY <1>3 DEF SecondHA, HA, Registered
  <2>2. ask'.op # "remove"
    BY <2>1 DEF HAInv, HAAsked
  <2>3. row # 0
    BY <2>1 DEF HAInv, UpgradeFits
  <2>. QED  BY <2>1, <2>2, <2>3, SecondStill
<1>. QED  BY <1>1, <1>2, <1>3, HAFilesStay, HACommandsStay, HARemovalsStay DEF HANext, InstallHA, UpgradeHA, FinishHA

(* What the run checks follows.                                            *)
LEMMA HAPromises ==
  ASSUME HAInv, StillThere
  PROVE  /\ HATypeOK /\ OneWriter /\ RegisteredImageKept(FALSE) /\ OldCodeOnItsData
         /\ ActiveIsTrue /\ ask.op # "apply"
<1>. USE DEF HAInv, Names
<1>1. \A n \in Names : Running(n) => Exists(n)
  BY ExistingBoxes
<1>2. OneWriter
  BY <1>1 DEF OneWriter, DirectoriesFit
<1>3. OldCodeOnItsData
  <2>. SUFFICES ASSUME NEW n \in Names, Running(n) PROVE data[box[n].dir] <= box[n].image
    BY DEF OldCodeOnItsData
  <2>1. data[box[n].dir] \in 1..box[n].image /\ box[n].image \in Images
    BY <1>1, ExistingBoxes DEF DirectoriesFit
  <2>. QED  BY <2>1, ImagesAre
<1>4. RegisteredImageKept(FALSE)
  <2>1. row # 0 /\ ~removed => \E n \in Names : Exists(n) /\ box[n].image = row
    BY DEF CastFits, IsOld, StageFree, StillThere, Present
  <2>. QED  BY <2>1 DEF RegisteredImageKept, DirectoriesFit
<1>5. ActiveIsTrue
  BY DEF ActiveIsTrue, CastFits
<1>6. ask.op # "apply"
  BY DEF HAAsked
<1>. QED  BY <1>2, <1>3, <1>4, <1>5, <1>6

(***************************************************************************)
(* Frigate.                                                                *)
(***************************************************************************)
SetUpPlaces   == {"adopting", "preparing_storage", "adopted", "resumed", "creating_main", "starting_main",
  "watching_main", "discarding_main"}
OpeningPlaces == {"matching", "verifying", "creating", "preparing", "discarding"}
CopyPlaces    == {"stopping", "copying", "verifying_copy", "journaling_copy"}
SwapPlaces    == {"trying", "watching", "retiring", "promoting", "journaling_swap", "confirming"}
SettlePlaces  == {"checking_new", "removing_old", "journaling_commit"}
UndoPlaces    == {"surveying", "dropping", "halting", "setting_aside", "putting_back", "naming", "reviving", "rechecking"}
ClearPlaces   == {"clearing_backup", "clearing_journal"}
FrigatePlaces == {"idle", "ok", "error", "controlling", "removing", "finishing", "compensating", "reconciling"}
  \cup SetUpPlaces \cup OpeningPlaces \cup CopyPlaces \cup SwapPlaces \cup SettlePlaces \cup UndoPlaces \cup ClearPlaces

(* Which operation gets where, and what it is asked in.                    *)
FrigateAsked ==
  /\ pc \in FrigatePlaces
  /\ ask \in [op : {"none", "upgrade", "commit", "rollback", "recover", "start", "stop", "restart", "remove", "install"},
              new : Images, old : Images]
  /\ pc \in SetUpPlaces => ask.op = "install"
  /\ pc \in OpeningPlaces \cup CopyPlaces \cup SwapPlaces => ask.op = "upgrade"
  /\ pc = "finishing" => ask.op = "commit"
  /\ pc = "compensating" => ask.op = "rollback"
  /\ pc = "reconciling" => ask.op = "recover" /\ row = ask.new
  /\ pc = "controlling" => ask.op \in {"start", "stop", "restart"}
  /\ pc = "removing" => ask.op = "remove"
  /\ pc \in SettlePlaces => ask.op \in {"upgrade", "commit", "recover"}
  /\ pc \in UndoPlaces \cup ClearPlaces => ask.op \in {"upgrade", "rollback", "recover"}
  /\ pc # "idle" /\ ask.op \in {"install", "remove", "start", "restart"} => ~Pending
  /\ pc # "idle" /\ ask.op = "install" => row = 0 /\ (disk.phase = "committed" => disk.new = ask.new)
  /\ pc # "idle" /\ ask.op = "upgrade" => row = ask.old /\ ask.new > ask.old

(* The journal on the disk and the one the operation goes by.              *)
JournalFits(txn) ==
  \/ txn = NoTxn
  \/ /\ txn.phase # "none" /\ txn.old \in Images /\ txn.new \in Images /\ txn.old < txn.new
     /\ txn.phase # "prepared" => txn.snap \in 1..txn.old
OfUpgrade == disk.old = ask.old /\ disk.new = ask.new
Follows ==
  /\ Pending /\ mem.old = disk.old /\ mem.new = disk.new /\ row = disk.old
  /\ \/ mem = disk
     \/ disk.phase = "prepared" /\ mem.phase = "snapshotted"
     \/ disk.phase = "snapshotted" /\ mem.phase = "swapped" /\ mem.snap = disk.snap
JournalsFit ==
  /\ JournalFits(disk) /\ JournalFits(mem)
  /\ pc \in {"matching", "finishing", "compensating", "reconciling"} \cup CopyPlaces \cup SwapPlaces \cup SettlePlaces
       => mem = disk
  /\ pc \in {"verifying", "creating", "preparing"} => disk = NoTxn
  /\ pc \in CopyPlaces \cup SwapPlaces \cup {"finishing", "compensating"} \/ (pc = "ok" /\ ask.op = "upgrade") => OfUpgrade
  /\ pc \in CopyPlaces => disk.phase = "prepared"
  /\ pc \in SwapPlaces \ {"confirming"} => disk.phase = "snapshotted"
  /\ pc \in {"confirming", "finishing", "compensating"} \/ (pc = "ok" /\ ask.op = "upgrade") => disk.phase = "swapped"
  /\ pc = "finishing" => row = disk.new
  /\ pc = "compensating" => row = disk.old
  /\ pc \in SettlePlaces => disk.phase \in {"swapped", "committed"} /\ row = disk.new
  /\ pc \in UndoPlaces => Follows
  /\ pc \in ClearPlaces => Follows \/ (disk.phase = "committed" /\ mem = disk /\ row = disk.new /\ ask.op = "upgrade")

(* Which containers there can be while an upgrade is unfinished.           *)
Before == box["main"].image = disk.old /\ ~Exists("previous") /\ box["candidate"].image \in {0, disk.new}
Amid   == box["previous"].image = disk.old /\ ~Exists("main") /\ box["candidate"].image \in {0, disk.new}
Past   == box["previous"].image = disk.old /\ box["main"].image = disk.new /\ ~Exists("candidate")
OnlyOld  == (Before \/ Amid) /\ ~Exists("candidate")
OldAlone == Before /\ ~Exists("candidate")

OneRuns ==
  /\ \A n \in Names : Exists(n) => box[n].dir = Config
  /\ \A n \in Names : Running(n) => data[Config] \in 1..box[n].image
  /\ ~Running("previous") /\ ~(Running("main") /\ Running("candidate"))
SettledFits ==
  ~Pending =>
    /\ ~Exists("previous") /\ ~Running("candidate")
    /\ Exists("main") => data[Config] \in 1..box["main"].image
    /\ row # 0 => box["main"].image \in {0, row}
    /\ disk.phase = "committed" =>
         box["main"].image \in {0, disk.new} /\ ~Exists("candidate") /\ row \in {0, disk.new}
PendingFits ==
  Pending =>
    /\ row \in {disk.old, disk.new}
    /\ row = disk.new =>
         /\ disk.phase = "swapped" /\ box["main"].image = disk.new /\ ~Exists("candidate")
         /\ box["previous"].image \in {0, disk.old} /\ data[Config] \in 1..disk.new
    /\ row = disk.old =>
         /\ Before \/ Amid \/ Past
         /\ data[Config] \in 0..disk.new
    /\ disk.phase = "prepared" =>
         /\ Before /\ ~Running("candidate") /\ data[Config] \in 0..disk.old
         /\ backup \in {0, Partial} \cup 1..disk.old
         /\ data[Config] = 0 => backup \in 1..disk.old
    /\ disk.phase # "prepared" /\ row = disk.old => backup = disk.snap \/ (OldAlone /\ data[Config] \in 1..disk.old)
BackupFits ==
  /\ disk = NoTxn => backup = 0
  /\ pc = "journaling_copy" => backup = data[Config]
  /\ pc \in SwapPlaces => backup = disk.snap
  /\ pc \in UndoPlaces \ {"surveying"} /\ CopyNeeded => backup = mem.snap
  /\ pc = "clearing_journal" => backup = 0

(* Where the operation has come.                                           *)
InstallingFits ==
  /\ pc \in {"adopting", "preparing_storage", "creating_main"} /\ ~Exists("main") => data[Config] \in 0..ask.new
  /\ pc \in {"preparing_storage", "creating_main"} => ~Exists("main")
  /\ pc \in {"starting_main", "watching_main", "adopted", "resumed"} \/ (pc = "ok" /\ ask.op = "install")
       => box["main"].image = ask.new
UpgradingFits ==
  /\ pc = "creating" => StageFree
  /\ pc \in {"creating", "preparing"} => box["main"].image = ask.old
  /\ pc = "preparing" => box["candidate"].image = ask.new
  /\ pc \in CopyPlaces => data[Config] # 0
  /\ pc \in {"copying", "verifying_copy", "journaling_copy", "trying", "watching", "retiring"} => ~Running("main")
  /\ pc \in {"trying", "watching", "retiring"} => Before
  /\ pc = "promoting" => Amid
  /\ pc \in {"journaling_swap", "confirming"} \/ (pc = "ok" /\ ask.op = "upgrade") => Past
  /\ pc \in SwapPlaces \/ (pc = "ok" /\ ask.op = "upgrade") => data[Config] # 0
  /\ pc = "journaling_commit" => ~Exists("previous")
UndoingFits ==
  /\ pc \in {"halting", "setting_aside", "putting_back", "naming"} => OnlyOld
  /\ pc \in {"setting_aside", "putting_back", "naming", "reviving"} => \A n \in Names : ~Running(n)
  /\ pc \in {"setting_aside", "putting_back"} => CopyNeeded
  /\ pc = "putting_back" =>
       data[Config] = 0 /\ aside \in 1..(IF disk.phase = "prepared" THEN disk.old ELSE disk.new)
  /\ pc \in {"naming", "reviving"} => data[Config] \in 0..disk.old
  /\ pc \in {"reviving", "rechecking"} \/ (pc \in ClearPlaces /\ Pending) => OldAlone
  /\ pc = "rechecking" \/ (pc \in ClearPlaces /\ Pending) => data[Config] \in 1..disk.old
FrigateInv ==
  /\ FrigateTypeOK /\ BoxesFit /\ FrigateAsked /\ JournalsFit /\ OneRuns /\ SettledFits /\ PendingFits
  /\ BackupFits /\ InstallingFits /\ UpgradingFits /\ UndoingFits

(* Versions are numbers.                                                   *)
NumbersOf ==
  /\ ask.new \in Nat /\ ask.old \in Nat /\ row \in Nat /\ data[Config] \in Nat /\ Config \in Dirs
  /\ disk.old \in Nat /\ disk.new \in Nat /\ mem.old \in Nat /\ mem.new \in Nat
  /\ data[Config] \in Images \cup {0} /\ data \in [Dirs -> Images \cup {0}]
  /\ ask.new # 0 /\ ask.old # 0
  /\ \A n \in Names : box[n].image \in Nat
(* The numbers the invariant compares are numbers.                         *)
LEMMA FrigateNumbers == ASSUME FrigateInv PROVE NumbersOf
<1>1. \A i \in Images \cup {0} : i \in Nat
  BY SagaAssumption
<1>. USE DEF FrigateInv, FrigateTypeOK, SagaTypeOK, Txns
<1>2. ask.new \in Images /\ ask.old \in Images
  BY DEF FrigateAsked
<1>3. disk \in Txns /\ mem \in Txns
  OBVIOUS
<1>4. Config \in Dirs /\ data[Config] \in Images \cup {0}
  BY SagaAssumption DEF Config
<1>5. \A n \in Names : box[n].image \in Images \cup {0}
  BY DEF BoxesFit, Container
<1>. QED  BY <1>1, <1>2, <1>3, <1>4, <1>5, ImagesAre DEF NumbersOf

(* What a journal says is of the types the helper writes.                  *)
LEMMA TxnTypes ==
  /\ NoTxn \in Txns
  /\ \A txn \in Txns : txn.phase \in Phases /\ txn.old \in Images \cup {0} /\ txn.new \in Images \cup {0}
                        /\ txn.snap \in Images \cup {0}
BY DEF Txns, NoTxn, Phases

(* Steps that only look, and leave containers, data and journal alone.     *)
LEMMA FrigateChecksKeep ==
  ASSUME FrigateInv,
         Verify \/ Watch \/ Confirm \/ Finish \/ Compensate \/ CheckNew \/ Survey \/ Recheck \/ Reconcile
           \/ Adopt \/ Docker(Check("resumed", Running("main"), "ok", "error"))
           \/ Docker(Check("watching_main", Running("main"), "ok", "discarding_main"))
  PROVE  FrigateInv'
<1>. USE DEF FrigateInv, Names, Pending, Verify, Docker, frigateVars, Command, Frame, Check, Watch, Confirm,
  Finish, Compensate, CheckNew, Survey, Recheck, Reconcile, Adopt
<1>0. NumbersOf
  BY FrigateNumbers
<1>1. BoxesFit' /\ box' = box
  BY DEF BoxesFit, Exists
<1>2. FrigateTypeOK'
  BY <1>0, <1>1, SagaTypes, TxnTypes DEF FrigateTypeOK, SagaTypeOK, CopyNeeded
<1>. USE DEF JournalFits, NumbersOf, NoTxn, CopyNeeded, StageFree, Exists, Running, OfUpgrade, Follows, Before,
  Amid, Past, OnlyOld, OldAlone, FrigatePlaces, SetUpPlaces, OpeningPlaces, CopyPlaces, SwapPlaces, SettlePlaces,
  UndoPlaces, ClearPlaces
<1>3. FrigateAsked'
  BY <1>0, <1>1, ExistingBoxes DEF FrigateAsked, JournalsFit
<1>4. JournalsFit'
  BY <1>0, <1>1, ExistingBoxes DEF JournalsFit, FrigateAsked, SettledFits, PendingFits, BackupFits, UpgradingFits
<1>5. OneRuns'
  BY <1>0, <1>1, ExistingBoxes DEF OneRuns, FrigateAsked, JournalsFit, SettledFits, PendingFits, InstallingFits,
    UpgradingFits, UndoingFits
<1>6. SettledFits'
  BY <1>0, <1>1, ExistingBoxes DEF SettledFits, FrigateAsked, JournalsFit, OneRuns, PendingFits, InstallingFits,
    UpgradingFits, UndoingFits
<1>7. PendingFits'
  BY <1>0, <1>1, ExistingBoxes DEF PendingFits, FrigateAsked, JournalsFit, OneRuns, SettledFits, BackupFits,
    UpgradingFits, UndoingFits
<1>8. BackupFits'
  BY <1>0, <1>1, ExistingBoxes DEF BackupFits, FrigateAsked, JournalsFit, PendingFits, UpgradingFits
<1>9. InstallingFits'
  BY <1>0, <1>1, ExistingBoxes DEF InstallingFits, FrigateAsked, SettledFits, OneRuns
<1>10. UpgradingFits'
  BY <1>0, <1>1, ExistingBoxes DEF UpgradingFits, FrigateAsked, JournalsFit, OneRuns, SettledFits, PendingFits
<1>11. UndoingFits'
  BY <1>0, <1>1, ExistingBoxes DEF UndoingFits, FrigateAsked, JournalsFit, OneRuns, SettledFits, PendingFits,
    BackupFits
<1>. QED  BY <1>1, <1>2, <1>3, <1>4, <1>5, <1>6, <1>7, <1>8, <1>9, <1>10, <1>11

(* A start of the main container: one that is adopted, made or brought     *)
(* back.                                                                   *)
LEMMA FrigateStartsKeep ==
  ASSUME FrigateInv,
         Docker(Command("adopted", Exists("main"), Started("main"), "resumed", "error"))
           \/ Docker(Command("starting_main", Exists("main"), Started("main"), "watching_main", "discarding_main"))
           \/ Revive
  PROVE  FrigateInv'
<1>. USE DEF FrigateInv, Names, Pending, Docker, frigateVars, Command, Frame, Revive
<1>0. NumbersOf
  BY FrigateNumbers
<1>1. /\ BoxesFit' /\ \A m \in Names : (Exists(m)' <=> Exists(m)) /\ box'[m].image = box[m].image /\ box'[m].dir = box[m].dir
      /\ \A m \in Names \ {"main"} : box'[m] = box[m]
      /\ Running("main")' => Exists("main")
  <2>1. CASE Exists("main") /\ box' \in {box, Started("main")}
    BY <2>1, StartStep DEF Exists, Running
  <2>2. CASE ~Exists("main") /\ box' = box
    BY <2>2, ExistingBoxes DEF BoxesFit, Exists, Running
  <2>. QED  BY <2>1, <2>2
<1>2. FrigateTypeOK'
  BY <1>0, <1>1, SagaTypes, TxnTypes DEF FrigateTypeOK, SagaTypeOK, CopyNeeded
<1>. USE DEF JournalFits, NumbersOf, NoTxn, CopyNeeded, StageFree, Exists, Running, OfUpgrade, Follows, Before,
  Amid, Past, OnlyOld, OldAlone, FrigatePlaces, SetUpPlaces, OpeningPlaces, CopyPlaces, SwapPlaces, SettlePlaces,
  UndoPlaces, ClearPlaces
<1>3. FrigateAsked'
  BY <1>0, <1>1, ExistingBoxes DEF FrigateAsked, JournalsFit
<1>4. JournalsFit'
  BY <1>0, <1>1, ExistingBoxes DEF JournalsFit, FrigateAsked, SettledFits, PendingFits, BackupFits, UpgradingFits
<1>5. OneRuns'
  BY <1>0, <1>1, ExistingBoxes DEF OneRuns, FrigateAsked, JournalsFit, SettledFits, PendingFits, InstallingFits,
    UpgradingFits, UndoingFits
<1>6. SettledFits'
  BY <1>0, <1>1, ExistingBoxes DEF SettledFits, FrigateAsked, JournalsFit, OneRuns, PendingFits, InstallingFits,
    UpgradingFits, UndoingFits
<1>7. PendingFits'
  BY <1>0, <1>1, ExistingBoxes DEF PendingFits, FrigateAsked, JournalsFit, OneRuns, SettledFits, BackupFits,
    UpgradingFits, UndoingFits
<1>8. BackupFits'
  BY <1>0, <1>1, ExistingBoxes DEF BackupFits, FrigateAsked, JournalsFit, PendingFits, UpgradingFits
<1>9. InstallingFits'
  BY <1>0, <1>1, ExistingBoxes DEF InstallingFits, FrigateAsked, SettledFits, OneRuns
<1>10. UpgradingFits'
  BY <1>0, <1>1, ExistingBoxes DEF UpgradingFits, FrigateAsked, JournalsFit, OneRuns, SettledFits, PendingFits
<1>11. UndoingFits'
  BY <1>0, <1>1, ExistingBoxes DEF UndoingFits, FrigateAsked, JournalsFit, OneRuns, SettledFits, PendingFits,
    BackupFits
<1>. QED  BY <1>1, <1>2, <1>3, <1>4, <1>5, <1>6, <1>7, <1>8, <1>9, <1>10, <1>11

(* The main container is removed outside of any upgrade.                   *)
LEMMA FrigateRemovalsKeep ==
  ASSUME FrigateInv,
         Docker(Command("discarding_main", TRUE, Removed("main"), "error", "error"))
           \/ Docker(Command("removing", TRUE, Removed("main"), "ok", "error"))
  PROVE  FrigateInv'
<1>. USE DEF FrigateInv, Names, Pending, Docker, frigateVars, Command, Frame
<1>0. NumbersOf
  BY FrigateNumbers
<1>1. /\ BoxesFit' /\ \A m \in Names \ {"main"} : box'[m] = box[m]
      /\ box'["main"] \in {box["main"], Absent}
      /\ box' = Removed("main") => ~Exists("main")' /\ ~Running("main")'
  BY RemoveStep DEF BoxesFit, Exists
<1>2. FrigateTypeOK'
  BY <1>0, <1>1, SagaTypes, TxnTypes DEF FrigateTypeOK, SagaTypeOK, CopyNeeded
<1>. USE DEF JournalFits, NumbersOf, NoTxn, CopyNeeded, StageFree, Exists, Running, OfUpgrade, Follows, Before,
  Amid, Past, OnlyOld, OldAlone, FrigatePlaces, SetUpPlaces, OpeningPlaces, CopyPlaces, SwapPlaces, SettlePlaces,
  UndoPlaces, ClearPlaces
<1>3. FrigateAsked'
  BY <1>0, <1>1, ExistingBoxes DEF FrigateAsked, JournalsFit
<1>4. JournalsFit'
  BY <1>0, <1>1, ExistingBoxes DEF JournalsFit, FrigateAsked, SettledFits, PendingFits, BackupFits, UpgradingFits
<1>5. OneRuns'
  BY <1>0, <1>1, ExistingBoxes DEF OneRuns, FrigateAsked, JournalsFit, SettledFits, PendingFits, InstallingFits,
    UpgradingFits, UndoingFits
<1>6. SettledFits'
  BY <1>0, <1>1, ExistingBoxes DEF SettledFits, FrigateAsked, JournalsFit, OneRuns, PendingFits, InstallingFits,
    UpgradingFits, UndoingFits
<1>7. PendingFits'
  BY <1>0, <1>1, ExistingBoxes DEF PendingFits, FrigateAsked, JournalsFit, OneRuns, SettledFits, BackupFits,
    UpgradingFits, UndoingFits
<1>8. BackupFits'
  BY <1>0, <1>1, ExistingBoxes DEF BackupFits, FrigateAsked, JournalsFit, PendingFits, UpgradingFits
<1>9. InstallingFits'
  BY <1>0, <1>1, ExistingBoxes DEF InstallingFits, FrigateAsked, SettledFits, OneRuns
<1>10. UpgradingFits'
  BY <1>0, <1>1, ExistingBoxes DEF UpgradingFits, FrigateAsked, JournalsFit, OneRuns, SettledFits, PendingFits
<1>11. UndoingFits'
  BY <1>0, <1>1, ExistingBoxes DEF UndoingFits, FrigateAsked, JournalsFit, OneRuns, SettledFits, PendingFits,
    BackupFits
<1>. QED  BY <1>1, <1>2, <1>3, <1>4, <1>5, <1>6, <1>7, <1>8, <1>9, <1>10, <1>11

(* The old container is stopped, the journal already saying an upgrade     *)
(* began.                                                                  *)
LEMMA StopOldKeeps == ASSUME FrigateInv, StopOld PROVE FrigateInv'
<1>. USE DEF FrigateInv, Names, Pending, StopOld, Docker, frigateVars, Command, Frame
<1>0. NumbersOf
  BY FrigateNumbers
<1>1. /\ BoxesFit' /\ \A m \in Names : (Exists(m)' <=> Exists(m)) /\ box'[m].image = box[m].image /\ box'[m].dir = box[m].dir
      /\ \A m \in Names \ {"main"} : box'[m] = box[m]
      /\ Running("main")' => Running("main")
      /\ Exists("main") /\ box' = Stopped("main") => ~Running("main")'
  <2>1. CASE Exists("main") /\ box' \in {box, Stopped("main")}
    BY <2>1, StopStep DEF Exists, Running
  <2>2. CASE ~Exists("main") /\ box' = box
    BY <2>2, ExistingBoxes DEF BoxesFit, Exists, Running
  <2>. QED  BY <2>1, <2>2
<1>2. FrigateTypeOK'
  BY <1>0, <1>1, SagaTypes, TxnTypes DEF FrigateTypeOK, SagaTypeOK, CopyNeeded
<1>. USE DEF JournalFits, NumbersOf, NoTxn, CopyNeeded, StageFree, Exists, Running, OfUpgrade, Follows, Before,
  Amid, Past, OnlyOld, OldAlone, FrigatePlaces, SetUpPlaces, OpeningPlaces, CopyPlaces, SwapPlaces, SettlePlaces,
  UndoPlaces, ClearPlaces
<1>3. FrigateAsked'
  BY <1>0, <1>1, ExistingBoxes DEF FrigateAsked, JournalsFit
<1>4. JournalsFit'
  BY <1>0, <1>1, ExistingBoxes DEF JournalsFit, FrigateAsked, SettledFits, PendingFits, BackupFits, UpgradingFits
<1>5. OneRuns'
  BY <1>0, <1>1, ExistingBoxes DEF OneRuns, FrigateAsked, JournalsFit, SettledFits, PendingFits, InstallingFits,
    UpgradingFits, UndoingFits
<1>6. SettledFits'
  BY <1>0, <1>1, ExistingBoxes DEF SettledFits, FrigateAsked, JournalsFit, OneRuns, PendingFits, InstallingFits,
    UpgradingFits, UndoingFits
<1>7. PendingFits'
  BY <1>0, <1>1, ExistingBoxes DEF PendingFits, FrigateAsked, JournalsFit, OneRuns, SettledFits, BackupFits,
    UpgradingFits, UndoingFits
<1>8. BackupFits'
  BY <1>0, <1>1, ExistingBoxes DEF BackupFits, FrigateAsked, JournalsFit, PendingFits, UpgradingFits
<1>9. InstallingFits'
  BY <1>0, <1>1, ExistingBoxes DEF InstallingFits, FrigateAsked, SettledFits, OneRuns
<1>10. UpgradingFits'
  BY <1>0, <1>1, ExistingBoxes DEF UpgradingFits, FrigateAsked, JournalsFit, OneRuns, SettledFits, PendingFits
<1>11. UndoingFits'
  BY <1>0, <1>1, ExistingBoxes DEF UndoingFits, FrigateAsked, JournalsFit, OneRuns, SettledFits, PendingFits,
    BackupFits
<1>. QED  BY <1>1, <1>2, <1>3, <1>4, <1>5, <1>6, <1>7, <1>8, <1>9, <1>10, <1>11

(* The candidate starts once a complete copy is journalled.                *)
LEMMA TryKeeps == ASSUME FrigateInv, Try PROVE FrigateInv'
<1>. USE DEF FrigateInv, Names, Pending, Try, Docker, frigateVars, Command, Frame
<1>0. NumbersOf
  BY FrigateNumbers
<1>1. /\ BoxesFit' /\ \A m \in Names : (Exists(m)' <=> Exists(m)) /\ box'[m].image = box[m].image /\ box'[m].dir = box[m].dir
      /\ \A m \in Names \ {"candidate"} : box'[m] = box[m]
      /\ Running("candidate")' => Exists("candidate")
  <2>1. CASE Exists("candidate") /\ box' \in {box, Started("candidate")}
    BY <2>1, StartStep DEF Exists, Running
  <2>2. CASE ~Exists("candidate") /\ box' = box
    BY <2>2, ExistingBoxes DEF BoxesFit, Exists, Running
  <2>. QED  BY <2>1, <2>2
<1>2. FrigateTypeOK'
  BY <1>0, <1>1, SagaTypes, TxnTypes DEF FrigateTypeOK, SagaTypeOK, CopyNeeded
<1>. USE DEF JournalFits, NumbersOf, NoTxn, CopyNeeded, StageFree, Exists, Running, OfUpgrade, Follows, Before,
  Amid, Past, OnlyOld, OldAlone, FrigatePlaces, SetUpPlaces, OpeningPlaces, CopyPlaces, SwapPlaces, SettlePlaces,
  UndoPlaces, ClearPlaces
<1>3. FrigateAsked'
  BY <1>0, <1>1, ExistingBoxes DEF FrigateAsked, JournalsFit
<1>4. JournalsFit'
  BY <1>0, <1>1, ExistingBoxes DEF JournalsFit, FrigateAsked, SettledFits, PendingFits, BackupFits, UpgradingFits
<1>5. OneRuns'
  BY <1>0, <1>1, ExistingBoxes DEF OneRuns, FrigateAsked, JournalsFit, SettledFits, PendingFits, InstallingFits,
    UpgradingFits, UndoingFits
<1>6. SettledFits'
  BY <1>0, <1>1, ExistingBoxes DEF SettledFits, FrigateAsked, JournalsFit, OneRuns, PendingFits, InstallingFits,
    UpgradingFits, UndoingFits
<1>7. PendingFits'
  BY <1>0, <1>1, ExistingBoxes DEF PendingFits, FrigateAsked, JournalsFit, OneRuns, SettledFits, BackupFits,
    UpgradingFits, UndoingFits
<1>8. BackupFits'
  BY <1>0, <1>1, ExistingBoxes DEF BackupFits, FrigateAsked, JournalsFit, PendingFits, UpgradingFits
<1>9. InstallingFits'
  BY <1>0, <1>1, ExistingBoxes DEF InstallingFits, FrigateAsked, SettledFits, OneRuns
<1>10. UpgradingFits'
  BY <1>0, <1>1, ExistingBoxes DEF UpgradingFits, FrigateAsked, JournalsFit, OneRuns, SettledFits, PendingFits
<1>11. UndoingFits'
  BY <1>0, <1>1, ExistingBoxes DEF UndoingFits, FrigateAsked, JournalsFit, OneRuns, SettledFits, PendingFits,
    BackupFits
<1>. QED  BY <1>1, <1>2, <1>3, <1>4, <1>5, <1>6, <1>7, <1>8, <1>9, <1>10, <1>11

(* The old container steps aside for the candidate.                        *)
LEMMA RetireKeeps == ASSUME FrigateInv, Retire PROVE FrigateInv'
<1>. USE DEF FrigateInv, Names, Pending, Retire, Docker, frigateVars, Command, Frame
<1>0. NumbersOf
  BY FrigateNumbers
<1>1. /\ BoxesFit' /\ box'["candidate"] = box["candidate"]
      /\ \/ /\ box'["main"] = box["main"] /\ box'["previous"] = box["previous"]
            /\ CanRename("main", "previous") => box' # Renamed("main", "previous")
         \/ /\ CanRename("main", "previous") /\ box'["previous"] = box["main"] /\ box'["main"] = Absent
            /\ ~Exists("main")' /\ ~Running("main")'
  <2>1. CASE CanRename("main", "previous")
    BY <2>1, RenameStep
  <2>2. CASE ~CanRename("main", "previous")
    BY <2>2 DEF BoxesFit, Exists
  <2>. QED  BY <2>1, <2>2
<1>2. FrigateTypeOK'
  BY <1>0, <1>1, SagaTypes, TxnTypes DEF FrigateTypeOK, SagaTypeOK, CopyNeeded
<1>. USE DEF JournalFits, NumbersOf, NoTxn, CopyNeeded, StageFree, Exists, Running, OfUpgrade, Follows, Before,
  Amid, Past, OnlyOld, OldAlone, FrigatePlaces, SetUpPlaces, OpeningPlaces, CopyPlaces, SwapPlaces, SettlePlaces,
  UndoPlaces, ClearPlaces
<1>3. FrigateAsked'
  BY <1>0, <1>1, ExistingBoxes DEF FrigateAsked, JournalsFit
<1>4. JournalsFit'
  BY <1>0, <1>1, ExistingBoxes DEF JournalsFit, FrigateAsked, SettledFits, PendingFits, BackupFits, UpgradingFits
<1>5. OneRuns'
  BY <1>0, <1>1, ExistingBoxes DEF OneRuns, FrigateAsked, JournalsFit, SettledFits, PendingFits, InstallingFits,
    UpgradingFits, UndoingFits
<1>6. SettledFits'
  BY <1>0, <1>1, ExistingBoxes DEF SettledFits, FrigateAsked, JournalsFit, OneRuns, PendingFits, InstallingFits,
    UpgradingFits, UndoingFits
<1>7. PendingFits'
  BY <1>0, <1>1, ExistingBoxes DEF PendingFits, FrigateAsked, JournalsFit, OneRuns, SettledFits, BackupFits,
    UpgradingFits, UndoingFits
<1>8. BackupFits'
  BY <1>0, <1>1, ExistingBoxes DEF BackupFits, FrigateAsked, JournalsFit, PendingFits, UpgradingFits
<1>9. InstallingFits'
  BY <1>0, <1>1, ExistingBoxes DEF InstallingFits, FrigateAsked, SettledFits, OneRuns
<1>10. UpgradingFits'
  BY <1>0, <1>1, ExistingBoxes DEF UpgradingFits, FrigateAsked, JournalsFit, OneRuns, SettledFits, PendingFits
<1>11. UndoingFits'
  BY <1>0, <1>1, ExistingBoxes DEF UndoingFits, FrigateAsked, JournalsFit, OneRuns, SettledFits, PendingFits,
    BackupFits
<1>. QED  BY <1>1, <1>2, <1>3, <1>4, <1>5, <1>6, <1>7, <1>8, <1>9, <1>10, <1>11

(* A candidate that came to nothing is removed.                            *)
LEMMA DiscardKeeps == ASSUME FrigateInv, Discard PROVE FrigateInv'
<1>. USE DEF FrigateInv, Names, Pending, Discard, Docker, frigateVars, Command, Frame
<1>0. NumbersOf
  BY FrigateNumbers
<1>1. /\ BoxesFit' /\ \A m \in Names \ {"candidate"} : box'[m] = box[m]
      /\ box'["candidate"] \in {box["candidate"], Absent}
      /\ box' = Removed("candidate") => ~Exists("candidate")' /\ ~Running("candidate")'
  BY RemoveStep DEF BoxesFit, Exists
<1>2. FrigateTypeOK'
  BY <1>0, <1>1, SagaTypes, TxnTypes DEF FrigateTypeOK, SagaTypeOK, CopyNeeded
<1>. USE DEF JournalFits, NumbersOf, NoTxn, CopyNeeded, StageFree, Exists, Running, OfUpgrade, Follows, Before,
  Amid, Past, OnlyOld, OldAlone, FrigatePlaces, SetUpPlaces, OpeningPlaces, CopyPlaces, SwapPlaces, SettlePlaces,
  UndoPlaces, ClearPlaces
<1>3. FrigateAsked'
  BY <1>0, <1>1, ExistingBoxes DEF FrigateAsked, JournalsFit
<1>4. JournalsFit'
  BY <1>0, <1>1, ExistingBoxes DEF JournalsFit, FrigateAsked, SettledFits, PendingFits, BackupFits, UpgradingFits
<1>5. OneRuns'
  BY <1>0, <1>1, ExistingBoxes DEF OneRuns, FrigateAsked, JournalsFit, SettledFits, PendingFits, InstallingFits,
    UpgradingFits, UndoingFits
<1>6. SettledFits'
  BY <1>0, <1>1, ExistingBoxes DEF SettledFits, FrigateAsked, JournalsFit, OneRuns, PendingFits, InstallingFits,
    UpgradingFits, UndoingFits
<1>7. PendingFits'
  BY <1>0, <1>1, ExistingBoxes DEF PendingFits, FrigateAsked, JournalsFit, OneRuns, SettledFits, BackupFits,
    UpgradingFits, UndoingFits
<1>8. BackupFits'
  BY <1>0, <1>1, ExistingBoxes DEF BackupFits, FrigateAsked, JournalsFit, PendingFits, UpgradingFits
<1>9. InstallingFits'
  BY <1>0, <1>1, ExistingBoxes DEF InstallingFits, FrigateAsked, SettledFits, OneRuns
<1>10. UpgradingFits'
  BY <1>0, <1>1, ExistingBoxes DEF UpgradingFits, FrigateAsked, JournalsFit, OneRuns, SettledFits, PendingFits
<1>11. UndoingFits'
  BY <1>0, <1>1, ExistingBoxes DEF UndoingFits, FrigateAsked, JournalsFit, OneRuns, SettledFits, PendingFits,
    BackupFits
<1>. QED  BY <1>1, <1>2, <1>3, <1>4, <1>5, <1>6, <1>7, <1>8, <1>9, <1>10, <1>11

(* The old container is removed once Core has registered the new image.    *)
LEMMA RemoveOldKeeps == ASSUME FrigateInv, RemoveOld PROVE FrigateInv'
<1>. USE DEF FrigateInv, Names, Pending, RemoveOld, Docker, frigateVars, Command, Frame
<1>0. NumbersOf
  BY FrigateNumbers
<1>1. /\ BoxesFit' /\ \A m \in Names \ {"previous"} : box'[m] = box[m]
      /\ box'["previous"] \in {box["previous"], Absent}
      /\ box' = Removed("previous") => ~Exists("previous")' /\ ~Running("previous")'
  BY RemoveStep DEF BoxesFit, Exists
<1>2. FrigateTypeOK'
  BY <1>0, <1>1, SagaTypes, TxnTypes DEF FrigateTypeOK, SagaTypeOK, CopyNeeded
<1>. USE DEF JournalFits, NumbersOf, NoTxn, CopyNeeded, StageFree, Exists, Running, OfUpgrade, Follows, Before,
  Amid, Past, OnlyOld, OldAlone, FrigatePlaces, SetUpPlaces, OpeningPlaces, CopyPlaces, SwapPlaces, SettlePlaces,
  UndoPlaces, ClearPlaces
<1>3. FrigateAsked'
  BY <1>0, <1>1, ExistingBoxes DEF FrigateAsked, JournalsFit
<1>4. JournalsFit'
  BY <1>0, <1>1, ExistingBoxes DEF JournalsFit, FrigateAsked, SettledFits, PendingFits, BackupFits, UpgradingFits
<1>5. OneRuns'
  BY <1>0, <1>1, ExistingBoxes DEF OneRuns, FrigateAsked, JournalsFit, SettledFits, PendingFits, InstallingFits,
    UpgradingFits, UndoingFits
<1>6. SettledFits'
  BY <1>0, <1>1, ExistingBoxes DEF SettledFits, FrigateAsked, JournalsFit, OneRuns, PendingFits, InstallingFits,
    UpgradingFits, UndoingFits
<1>7. PendingFits'
  BY <1>0, <1>1, ExistingBoxes DEF PendingFits, FrigateAsked, JournalsFit, OneRuns, SettledFits, BackupFits,
    UpgradingFits, UndoingFits
<1>8. BackupFits'
  BY <1>0, <1>1, ExistingBoxes DEF BackupFits, FrigateAsked, JournalsFit, PendingFits, UpgradingFits
<1>9. InstallingFits'
  BY <1>0, <1>1, ExistingBoxes DEF InstallingFits, FrigateAsked, SettledFits, OneRuns
<1>10. UpgradingFits'
  BY <1>0, <1>1, ExistingBoxes DEF UpgradingFits, FrigateAsked, JournalsFit, OneRuns, SettledFits, PendingFits
<1>11. UndoingFits'
  BY <1>0, <1>1, ExistingBoxes DEF UndoingFits, FrigateAsked, JournalsFit, OneRuns, SettledFits, PendingFits,
    BackupFits
<1>. QED  BY <1>1, <1>2, <1>3, <1>4, <1>5, <1>6, <1>7, <1>8, <1>9, <1>10, <1>11

(* The copy is removed when the upgrade is committed or undone.            *)
LEMMA ClearBackupKeeps == ASSUME FrigateInv, ClearBackup PROVE FrigateInv'
<1>. USE DEF FrigateInv, Names, Pending, ClearBackup, Write, Frame
<1>0. NumbersOf
  BY FrigateNumbers
<1>1. BoxesFit' /\ box' = box
  BY DEF BoxesFit, Exists
<1>2. FrigateTypeOK'
  BY <1>0, <1>1, SagaTypes, TxnTypes DEF FrigateTypeOK, SagaTypeOK, CopyNeeded
<1>. USE DEF JournalFits, NumbersOf, NoTxn, CopyNeeded, StageFree, Exists, Running, OfUpgrade, Follows, Before,
  Amid, Past, OnlyOld, OldAlone, FrigatePlaces, SetUpPlaces, OpeningPlaces, CopyPlaces, SwapPlaces, SettlePlaces,
  UndoPlaces, ClearPlaces
<1>3. FrigateAsked'
  BY <1>0, <1>1, ExistingBoxes DEF FrigateAsked, JournalsFit
<1>4. JournalsFit'
  BY <1>0, <1>1, ExistingBoxes DEF JournalsFit, FrigateAsked, SettledFits, PendingFits, BackupFits, UpgradingFits
<1>5. OneRuns'
  BY <1>0, <1>1, ExistingBoxes DEF OneRuns, FrigateAsked, JournalsFit, SettledFits, PendingFits, InstallingFits,
    UpgradingFits, UndoingFits
<1>6. SettledFits'
  BY <1>0, <1>1, ExistingBoxes DEF SettledFits, FrigateAsked, JournalsFit, OneRuns, PendingFits, InstallingFits,
    UpgradingFits, UndoingFits
<1>7. PendingFits'
  BY <1>0, <1>1, ExistingBoxes DEF PendingFits, FrigateAsked, JournalsFit, OneRuns, SettledFits, BackupFits,
    UpgradingFits, UndoingFits
<1>8. BackupFits'
  BY <1>0, <1>1, ExistingBoxes DEF BackupFits, FrigateAsked, JournalsFit, PendingFits, UpgradingFits
<1>9. InstallingFits'
  BY <1>0, <1>1, ExistingBoxes DEF InstallingFits, FrigateAsked, SettledFits, OneRuns
<1>10. UpgradingFits'
  BY <1>0, <1>1, ExistingBoxes DEF UpgradingFits, FrigateAsked, JournalsFit, OneRuns, SettledFits, PendingFits
<1>11. UndoingFits'
  BY <1>0, <1>1, ExistingBoxes DEF UndoingFits, FrigateAsked, JournalsFit, OneRuns, SettledFits, PendingFits,
    BackupFits
<1>. QED  BY <1>1, <1>2, <1>3, <1>4, <1>5, <1>6, <1>7, <1>8, <1>9, <1>10, <1>11

(* The copy begins: the backup is torn, the configuration whole and        *)
(* unused.                                                                 *)
LEMMA BeginCopyKeeps == ASSUME FrigateInv, BeginCopy PROVE FrigateInv'
<1>. USE DEF FrigateInv, Names, Pending, BeginCopy, Docker, frigateVars, Command, Frame, Check, Write
<1>0. NumbersOf
  BY FrigateNumbers
<1>1. BoxesFit' /\ box' = box
  BY DEF BoxesFit, Exists
<1>2. FrigateTypeOK'
  BY <1>0, <1>1, SagaTypes, TxnTypes DEF FrigateTypeOK, SagaTypeOK, CopyNeeded
<1>. USE DEF JournalFits, NumbersOf, NoTxn, CopyNeeded, StageFree, Exists, Running, OfUpgrade, Follows, Before,
  Amid, Past, OnlyOld, OldAlone, FrigatePlaces, SetUpPlaces, OpeningPlaces, CopyPlaces, SwapPlaces, SettlePlaces,
  UndoPlaces, ClearPlaces
<1>3. FrigateAsked'
  BY <1>0, <1>1, ExistingBoxes DEF FrigateAsked, JournalsFit
<1>4. JournalsFit'
  BY <1>0, <1>1, ExistingBoxes DEF JournalsFit, FrigateAsked, SettledFits, PendingFits, BackupFits, UpgradingFits
<1>5. OneRuns'
  BY <1>0, <1>1, ExistingBoxes DEF OneRuns, FrigateAsked, JournalsFit, SettledFits, PendingFits, InstallingFits,
    UpgradingFits, UndoingFits
<1>6. SettledFits'
  BY <1>0, <1>1, ExistingBoxes DEF SettledFits, FrigateAsked, JournalsFit, OneRuns, PendingFits, InstallingFits,
    UpgradingFits, UndoingFits
<1>7. PendingFits'
  BY <1>0, <1>1, ExistingBoxes DEF PendingFits, FrigateAsked, JournalsFit, OneRuns, SettledFits, BackupFits,
    UpgradingFits, UndoingFits
<1>8. BackupFits'
  BY <1>0, <1>1, ExistingBoxes DEF BackupFits, FrigateAsked, JournalsFit, PendingFits, UpgradingFits
<1>9. InstallingFits'
  BY <1>0, <1>1, ExistingBoxes DEF InstallingFits, FrigateAsked, SettledFits, OneRuns
<1>10. UpgradingFits'
  BY <1>0, <1>1, ExistingBoxes DEF UpgradingFits, FrigateAsked, JournalsFit, OneRuns, SettledFits, PendingFits
<1>11. UndoingFits'
  BY <1>0, <1>1, ExistingBoxes DEF UndoingFits, FrigateAsked, JournalsFit, OneRuns, SettledFits, PendingFits,
    BackupFits
<1>. QED  BY <1>1, <1>2, <1>3, <1>4, <1>5, <1>6, <1>7, <1>8, <1>9, <1>10, <1>11

(* A journal left by an earlier upgrade is finished, undone or refused.    *)
LEMMA MatchKeeps == ASSUME FrigateInv, Match PROVE FrigateInv'
<1>. USE DEF FrigateInv, Names, Pending, Match, Docker, frigateVars, Command, Frame, Check, Settled
<1>0. NumbersOf
  BY FrigateNumbers
<1>1. BoxesFit' /\ box' = box
  BY DEF BoxesFit, Exists
<1>2. FrigateTypeOK'
  BY <1>0, <1>1, SagaTypes, TxnTypes DEF FrigateTypeOK, SagaTypeOK, CopyNeeded
<1>. USE DEF JournalFits, NumbersOf, NoTxn, CopyNeeded, StageFree, Exists, Running, OfUpgrade, Follows, Before,
  Amid, Past, OnlyOld, OldAlone, FrigatePlaces, SetUpPlaces, OpeningPlaces, CopyPlaces, SwapPlaces, SettlePlaces,
  UndoPlaces, ClearPlaces
<1>3. FrigateAsked'
  BY <1>0, <1>1, ExistingBoxes DEF FrigateAsked, JournalsFit
<1>4. JournalsFit'
  BY <1>0, <1>1, ExistingBoxes DEF JournalsFit, FrigateAsked, SettledFits, PendingFits, BackupFits, UpgradingFits
<1>5. OneRuns'
  BY <1>0, <1>1, ExistingBoxes DEF OneRuns, FrigateAsked, JournalsFit, SettledFits, PendingFits, InstallingFits,
    UpgradingFits, UndoingFits
<1>6. SettledFits'
  BY <1>0, <1>1, ExistingBoxes DEF SettledFits, FrigateAsked, JournalsFit, OneRuns, PendingFits, InstallingFits,
    UpgradingFits, UndoingFits
<1>7. PendingFits'
  BY <1>0, <1>1, ExistingBoxes DEF PendingFits, FrigateAsked, JournalsFit, OneRuns, SettledFits, BackupFits,
    UpgradingFits, UndoingFits
<1>8. BackupFits'
  BY <1>0, <1>1, ExistingBoxes DEF BackupFits, FrigateAsked, JournalsFit, PendingFits, UpgradingFits
<1>9. InstallingFits'
  BY <1>0, <1>1, ExistingBoxes DEF InstallingFits, FrigateAsked, SettledFits, OneRuns
<1>10. UpgradingFits'
  BY <1>0, <1>1, ExistingBoxes DEF UpgradingFits, FrigateAsked, JournalsFit, OneRuns, SettledFits, PendingFits
<1>11. UndoingFits'
  BY <1>0, <1>1, ExistingBoxes DEF UndoingFits, FrigateAsked, JournalsFit, OneRuns, SettledFits, PendingFits,
    BackupFits
<1>. QED  BY <1>1, <1>2, <1>3, <1>4, <1>5, <1>6, <1>7, <1>8, <1>9, <1>10, <1>11

(* The candidate takes the main name.                                      *)
LEMMA PromoteKeeps == ASSUME FrigateInv, Promote PROVE FrigateInv'
<1>. USE DEF FrigateInv, Names, Pending, Promote, Docker, frigateVars, Command, Frame
<1>0. NumbersOf
  BY FrigateNumbers
<1>1. /\ BoxesFit' /\ box'["previous"] = box["previous"]
      /\ \/ /\ box'["candidate"] = box["candidate"] /\ box'["main"] = box["main"]
            /\ CanRename("candidate", "main") => box' # Renamed("candidate", "main")
         \/ /\ CanRename("candidate", "main") /\ box'["main"] = box["candidate"] /\ box'["candidate"] = Absent
            /\ ~Exists("candidate")' /\ ~Running("candidate")'
  <2>1. CASE CanRename("candidate", "main")
    BY <2>1, RenameStep
  <2>2. CASE ~CanRename("candidate", "main")
    BY <2>2 DEF BoxesFit, Exists
  <2>. QED  BY <2>1, <2>2
<1>2. FrigateTypeOK'
  BY <1>0, <1>1, SagaTypes, TxnTypes DEF FrigateTypeOK, SagaTypeOK, CopyNeeded
<1>. USE DEF JournalFits, NumbersOf, NoTxn, CopyNeeded, StageFree, Exists, Running, OfUpgrade, Follows, Before,
  Amid, Past, OnlyOld, OldAlone, FrigatePlaces, SetUpPlaces, OpeningPlaces, CopyPlaces, SwapPlaces, SettlePlaces,
  UndoPlaces, ClearPlaces
<1>3. FrigateAsked'
  BY <1>0, <1>1, ExistingBoxes DEF FrigateAsked, JournalsFit
<1>4. JournalsFit'
  BY <1>0, <1>1, ExistingBoxes DEF JournalsFit, FrigateAsked, SettledFits, PendingFits, BackupFits, UpgradingFits
<1>5. OneRuns'
  BY <1>0, <1>1, ExistingBoxes DEF OneRuns, FrigateAsked, JournalsFit, SettledFits, PendingFits, InstallingFits,
    UpgradingFits, UndoingFits
<1>6. SettledFits'
  BY <1>0, <1>1, ExistingBoxes DEF SettledFits, FrigateAsked, JournalsFit, OneRuns, PendingFits, InstallingFits,
    UpgradingFits, UndoingFits
<1>7. PendingFits'
  BY <1>0, <1>1, ExistingBoxes DEF PendingFits, FrigateAsked, JournalsFit, OneRuns, SettledFits, BackupFits,
    UpgradingFits, UndoingFits
<1>8. BackupFits'
  BY <1>0, <1>1, ExistingBoxes DEF BackupFits, FrigateAsked, JournalsFit, PendingFits, UpgradingFits
<1>9. InstallingFits'
  BY <1>0, <1>1, ExistingBoxes DEF InstallingFits, FrigateAsked, SettledFits, OneRuns
<1>10. UpgradingFits'
  <2>1. pc' = "journaling_swap" => Past'
    BY <1>1, ExistingBoxes DEF UpgradingFits, OneRuns, CanRename
  <2>2. pc' \in {"journaling_swap", "surveying"} /\ pc = "promoting" /\ data' = data /\ disk' = disk /\ data[Config] # 0
    BY DEF UpgradingFits
  <2>. QED  BY <2>1, <2>2 DEF UpgradingFits
<1>11. UndoingFits'
  BY <1>0, <1>1, ExistingBoxes DEF UndoingFits, FrigateAsked, JournalsFit, OneRuns, SettledFits, PendingFits,
    BackupFits
<1>. QED  BY <1>1, <1>2, <1>3, <1>4, <1>5, <1>6, <1>7, <1>8, <1>9, <1>10, <1>11

(* The journal is written for the first time: nothing has been touched     *)
(* yet.                                                                    *)
LEMMA PrepareKeeps == ASSUME FrigateInv, Prepare PROVE FrigateInv'
<1>. USE DEF FrigateInv, Names, Pending, Prepare, Journal, Write, Frame
<1>0. NumbersOf
  BY FrigateNumbers
<1>1. /\ BoxesFit' /\ box' = box /\ UNCHANGED <<data, ask, linked, row, removed, crashes, requests, backup, aside>>
      /\ pc = "preparing"
      /\ mem'.phase = "prepared" /\ mem'.old = ask.old /\ mem'.new = ask.new /\ mem'.snap = 0 /\ mem' \in Txns
      /\ \/ pc' = "stopping" /\ disk' = mem' /\ faults' = faults
         \/ pc' = "discarding" /\ disk' \in {disk, mem'} /\ Fault
  <2>1. BoxesFit' /\ box' = box /\ UNCHANGED <<data, ask, linked, row, removed, crashes, requests, backup, aside>> /\ pc = "preparing"
    BY DEF BoxesFit, Exists
  <2>2. ask.old \in Images /\ ask.new \in Images
    BY DEF FrigateAsked
  <2>3. mem'.phase = "prepared" /\ mem'.old = ask.old /\ mem'.new = ask.new /\ mem'.snap = 0 /\ mem' \in Txns
    BY <2>1, <2>2 DEF Txns, Phases, FrigateTypeOK
  <2>4. \/ pc' = "stopping" /\ disk' = mem' /\ faults' = faults
        \/ pc' = "discarding" /\ disk' \in {disk, mem'} /\ Fault
    OBVIOUS
  <2>. QED  BY <2>1, <2>3, <2>4
<1>. HIDE DEF Prepare, Journal, Write, Frame
<1>2. FrigateTypeOK'
  BY <1>0, <1>1, SagaTypes, TxnTypes DEF FrigateTypeOK, SagaTypeOK, CopyNeeded
<1>. USE DEF JournalFits, NumbersOf, NoTxn, CopyNeeded, StageFree, Exists, Running, OfUpgrade, Follows, Before,
  Amid, Past, OnlyOld, OldAlone, FrigatePlaces, SetUpPlaces, OpeningPlaces, CopyPlaces, SwapPlaces, SettlePlaces,
  UndoPlaces, ClearPlaces
<1>3. FrigateAsked'
  BY <1>0, <1>1, ExistingBoxes DEF FrigateAsked, JournalsFit
<1>4. JournalsFit'
  BY <1>0, <1>1, ExistingBoxes DEF JournalsFit, FrigateAsked, SettledFits, PendingFits, BackupFits, UpgradingFits
<1>5. OneRuns'
  BY <1>0, <1>1, ExistingBoxes DEF OneRuns, FrigateAsked, JournalsFit, SettledFits, PendingFits, InstallingFits,
    UpgradingFits, UndoingFits
<1>6. SettledFits'
  BY <1>0, <1>1, ExistingBoxes DEF SettledFits, FrigateAsked, JournalsFit, OneRuns, PendingFits, InstallingFits,
    UpgradingFits, UndoingFits
<1>7. PendingFits'
  BY <1>0, <1>1, ExistingBoxes DEF PendingFits, FrigateAsked, JournalsFit, OneRuns, SettledFits, BackupFits,
    UpgradingFits, UndoingFits
<1>8. BackupFits'
  BY <1>0, <1>1, ExistingBoxes DEF BackupFits, FrigateAsked, JournalsFit, PendingFits, UpgradingFits
<1>9. InstallingFits'
  BY <1>0, <1>1, ExistingBoxes DEF InstallingFits, FrigateAsked, SettledFits, OneRuns
<1>10. UpgradingFits'
  BY <1>0, <1>1, ExistingBoxes DEF UpgradingFits, FrigateAsked, JournalsFit, OneRuns, SettledFits, PendingFits
<1>11. UndoingFits'
  BY <1>0, <1>1, ExistingBoxes DEF UndoingFits, FrigateAsked, JournalsFit, OneRuns, SettledFits, PendingFits,
    BackupFits
<1>. QED  BY <1>1, <1>2, <1>3, <1>4, <1>5, <1>6, <1>7, <1>8, <1>9, <1>10, <1>11

(* The journal says there is a copy, which is complete.                    *)
LEMMA JournalCopyKeeps == ASSUME FrigateInv, JournalCopy PROVE FrigateInv'
<1>. USE DEF FrigateInv, Names, Pending, JournalCopy, Journal, Write, Frame
<1>0. NumbersOf
  BY FrigateNumbers
<1>1. /\ BoxesFit' /\ box' = box /\ UNCHANGED <<data, ask, linked, row, removed, crashes, requests, backup, aside>>
      /\ pc = "journaling_copy"
      /\ mem'.phase = "snapshotted" /\ mem'.old = mem.old /\ mem'.new = mem.new /\ mem'.snap = backup /\ mem' \in Txns
      /\ \/ pc' = "trying" /\ disk' = mem' /\ faults' = faults
         \/ pc' = "surveying" /\ disk' \in {disk, mem'} /\ Fault
  <2>1. BoxesFit' /\ box' = box /\ UNCHANGED <<data, ask, linked, row, removed, crashes, requests, backup, aside>> /\ pc = "journaling_copy"
    BY DEF BoxesFit, Exists
  <2>2. mem \in Txns /\ backup \in Images \cup {0}
    BY <1>0 DEF FrigateTypeOK, BackupFits, NumbersOf
  <2>3. mem'.phase = "snapshotted" /\ mem'.old = mem.old /\ mem'.new = mem.new /\ mem'.snap = backup /\ mem' \in Txns
    BY <2>1, <2>2 DEF Txns, Phases, FrigateTypeOK
  <2>4. \/ pc' = "trying" /\ disk' = mem' /\ faults' = faults
        \/ pc' = "surveying" /\ disk' \in {disk, mem'} /\ Fault
    OBVIOUS
  <2>. QED  BY <2>1, <2>3, <2>4
<1>. HIDE DEF JournalCopy, Journal, Write, Frame
<1>2. FrigateTypeOK'
  BY <1>0, <1>1, SagaTypes, TxnTypes DEF FrigateTypeOK, SagaTypeOK, CopyNeeded
<1>. USE DEF JournalFits, NumbersOf, NoTxn, CopyNeeded, StageFree, Exists, Running, OfUpgrade, Follows, Before,
  Amid, Past, OnlyOld, OldAlone, FrigatePlaces, SetUpPlaces, OpeningPlaces, CopyPlaces, SwapPlaces, SettlePlaces,
  UndoPlaces, ClearPlaces
<1>3. FrigateAsked'
  BY <1>0, <1>1, ExistingBoxes DEF FrigateAsked, JournalsFit
<1>4. JournalsFit'
  BY <1>0, <1>1, ExistingBoxes DEF JournalsFit, FrigateAsked, SettledFits, PendingFits, BackupFits, UpgradingFits
<1>5. OneRuns'
  BY <1>0, <1>1, ExistingBoxes DEF OneRuns, FrigateAsked, JournalsFit, SettledFits, PendingFits, InstallingFits,
    UpgradingFits, UndoingFits
<1>6. SettledFits'
  BY <1>0, <1>1, ExistingBoxes DEF SettledFits, FrigateAsked, JournalsFit, OneRuns, PendingFits, InstallingFits,
    UpgradingFits, UndoingFits
<1>7. PendingFits'
  BY <1>0, <1>1, ExistingBoxes DEF PendingFits, FrigateAsked, JournalsFit, OneRuns, SettledFits, BackupFits,
    UpgradingFits, UndoingFits
<1>8. BackupFits'
  BY <1>0, <1>1, ExistingBoxes DEF BackupFits, FrigateAsked, JournalsFit, PendingFits, UpgradingFits
<1>9. InstallingFits'
  BY <1>0, <1>1, ExistingBoxes DEF InstallingFits, FrigateAsked, SettledFits, OneRuns
<1>10. UpgradingFits'
  BY <1>0, <1>1, ExistingBoxes DEF UpgradingFits, FrigateAsked, JournalsFit, OneRuns, SettledFits, PendingFits
<1>11. UndoingFits'
  BY <1>0, <1>1, ExistingBoxes DEF UndoingFits, FrigateAsked, JournalsFit, OneRuns, SettledFits, PendingFits,
    BackupFits
<1>. QED  BY <1>1, <1>2, <1>3, <1>4, <1>5, <1>6, <1>7, <1>8, <1>9, <1>10, <1>11

(* The journal says the names are exchanged.                               *)
LEMMA JournalSwapKeeps == ASSUME FrigateInv, JournalSwap PROVE FrigateInv'
<1>. USE DEF FrigateInv, Names, Pending, JournalSwap, Journal, Write, Frame
<1>0. NumbersOf
  BY FrigateNumbers
<1>1. /\ BoxesFit' /\ box' = box /\ UNCHANGED <<data, ask, linked, row, removed, crashes, requests, backup, aside>>
      /\ pc = "journaling_swap"
      /\ mem'.phase = "swapped" /\ mem'.old = mem.old /\ mem'.new = mem.new /\ mem'.snap = mem.snap /\ mem' \in Txns
      /\ \/ pc' = "confirming" /\ disk' = mem' /\ faults' = faults
         \/ pc' = "surveying" /\ disk' \in {disk, mem'} /\ Fault
  <2>1. BoxesFit' /\ box' = box /\ UNCHANGED <<data, ask, linked, row, removed, crashes, requests, backup, aside>> /\ pc = "journaling_swap"
    BY DEF BoxesFit, Exists
  <2>2. mem \in Txns
    BY DEF FrigateTypeOK
  <2>3. mem'.phase = "swapped" /\ mem'.old = mem.old /\ mem'.new = mem.new /\ mem'.snap = mem.snap /\ mem' \in Txns
    BY <2>1, <2>2 DEF Txns, Phases, FrigateTypeOK
  <2>4. \/ pc' = "confirming" /\ disk' = mem' /\ faults' = faults
        \/ pc' = "surveying" /\ disk' \in {disk, mem'} /\ Fault
    OBVIOUS
  <2>. QED  BY <2>1, <2>3, <2>4
<1>. HIDE DEF JournalSwap, Journal, Write, Frame
<1>2. FrigateTypeOK'
  BY <1>0, <1>1, SagaTypes, TxnTypes DEF FrigateTypeOK, SagaTypeOK, CopyNeeded
<1>. USE DEF JournalFits, NumbersOf, NoTxn, CopyNeeded, StageFree, Exists, Running, OfUpgrade, Follows, Before,
  Amid, Past, OnlyOld, OldAlone, FrigatePlaces, SetUpPlaces, OpeningPlaces, CopyPlaces, SwapPlaces, SettlePlaces,
  UndoPlaces, ClearPlaces
<1>3. FrigateAsked'
  BY <1>0, <1>1, ExistingBoxes DEF FrigateAsked, JournalsFit
<1>4. JournalsFit'
  BY <1>0, <1>1, ExistingBoxes DEF JournalsFit, FrigateAsked, SettledFits, PendingFits, BackupFits, UpgradingFits
<1>5. OneRuns'
  BY <1>0, <1>1, ExistingBoxes DEF OneRuns, FrigateAsked, JournalsFit, SettledFits, PendingFits, InstallingFits,
    UpgradingFits, UndoingFits
<1>6. SettledFits'
  BY <1>0, <1>1, ExistingBoxes DEF SettledFits, FrigateAsked, JournalsFit, OneRuns, PendingFits, InstallingFits,
    UpgradingFits, UndoingFits
<1>7. PendingFits'
  BY <1>0, <1>1, ExistingBoxes DEF PendingFits, FrigateAsked, JournalsFit, OneRuns, SettledFits, BackupFits,
    UpgradingFits, UndoingFits
<1>8. BackupFits'
  BY <1>0, <1>1, ExistingBoxes DEF BackupFits, FrigateAsked, JournalsFit, PendingFits, UpgradingFits
<1>9. InstallingFits'
  BY <1>0, <1>1, ExistingBoxes DEF InstallingFits, FrigateAsked, SettledFits, OneRuns
<1>10. UpgradingFits'
  BY <1>0, <1>1, ExistingBoxes DEF UpgradingFits, FrigateAsked, JournalsFit, OneRuns, SettledFits, PendingFits
<1>11. UndoingFits'
  BY <1>0, <1>1, ExistingBoxes DEF UndoingFits, FrigateAsked, JournalsFit, OneRuns, SettledFits, PendingFits,
    BackupFits
<1>. QED  BY <1>1, <1>2, <1>3, <1>4, <1>5, <1>6, <1>7, <1>8, <1>9, <1>10, <1>11

(* The journal says committed, Core having registered the new image.       *)
LEMMA JournalCommitKeeps == ASSUME FrigateInv, JournalCommit PROVE FrigateInv'
<1>. USE DEF FrigateInv, Names, Pending, JournalCommit, Journal, Write, Frame
<1>0. NumbersOf
  BY FrigateNumbers
<1>1. /\ BoxesFit' /\ box' = box /\ UNCHANGED <<data, ask, linked, row, removed, crashes, requests, backup, aside>>
      /\ pc = "journaling_commit"
      /\ mem'.phase = "committed" /\ mem'.old = mem.old /\ mem'.new = mem.new /\ mem'.snap = mem.snap /\ mem' \in Txns
      /\ \/ pc' = (IF ask.op = "upgrade" THEN "clearing_backup" ELSE "ok") /\ disk' = mem' /\ faults' = faults
         \/ pc' = "error" /\ disk' \in {disk, mem'} /\ Fault
  <2>1. BoxesFit' /\ box' = box /\ UNCHANGED <<data, ask, linked, row, removed, crashes, requests, backup, aside>> /\ pc = "journaling_commit"
    BY DEF BoxesFit, Exists
  <2>2. mem \in Txns
    BY DEF FrigateTypeOK
  <2>3. mem'.phase = "committed" /\ mem'.old = mem.old /\ mem'.new = mem.new /\ mem'.snap = mem.snap /\ mem' \in Txns
    BY <2>1, <2>2 DEF Txns, Phases, FrigateTypeOK
  <2>4. \/ pc' = (IF ask.op = "upgrade" THEN "clearing_backup" ELSE "ok") /\ disk' = mem' /\ faults' = faults
        \/ pc' = "error" /\ disk' \in {disk, mem'} /\ Fault
    OBVIOUS
  <2>. QED  BY <2>1, <2>3, <2>4
<1>. HIDE DEF JournalCommit, Journal, Write, Frame
<1>2. FrigateTypeOK'
  BY <1>0, <1>1, SagaTypes, TxnTypes DEF FrigateTypeOK, SagaTypeOK, CopyNeeded
<1>. USE DEF JournalFits, NumbersOf, NoTxn, CopyNeeded, StageFree, Exists, Running, OfUpgrade, Follows, Before,
  Amid, Past, OnlyOld, OldAlone, FrigatePlaces, SetUpPlaces, OpeningPlaces, CopyPlaces, SwapPlaces, SettlePlaces,
  UndoPlaces, ClearPlaces
<1>3. FrigateAsked'
  BY <1>0, <1>1, ExistingBoxes DEF FrigateAsked, JournalsFit
<1>4. JournalsFit'
  BY <1>0, <1>1, ExistingBoxes DEF JournalsFit, FrigateAsked, SettledFits, PendingFits, BackupFits, UpgradingFits
<1>5. OneRuns'
  BY <1>0, <1>1, ExistingBoxes DEF OneRuns, FrigateAsked, JournalsFit, SettledFits, PendingFits, InstallingFits,
    UpgradingFits, UndoingFits
<1>6. SettledFits'
  BY <1>0, <1>1, ExistingBoxes DEF SettledFits, FrigateAsked, JournalsFit, OneRuns, PendingFits, InstallingFits,
    UpgradingFits, UndoingFits
<1>7. PendingFits'
  BY <1>0, <1>1, ExistingBoxes DEF PendingFits, FrigateAsked, JournalsFit, OneRuns, SettledFits, BackupFits,
    UpgradingFits, UndoingFits
<1>8. BackupFits'
  BY <1>0, <1>1, ExistingBoxes DEF BackupFits, FrigateAsked, JournalsFit, PendingFits, UpgradingFits
<1>9. InstallingFits'
  BY <1>0, <1>1, ExistingBoxes DEF InstallingFits, FrigateAsked, SettledFits, OneRuns
<1>10. UpgradingFits'
  BY <1>0, <1>1, ExistingBoxes DEF UpgradingFits, FrigateAsked, JournalsFit, OneRuns, SettledFits, PendingFits
<1>11. UndoingFits'
  BY <1>0, <1>1, ExistingBoxes DEF UndoingFits, FrigateAsked, JournalsFit, OneRuns, SettledFits, PendingFits,
    BackupFits
<1>. QED  BY <1>1, <1>2, <1>3, <1>4, <1>5, <1>6, <1>7, <1>8, <1>9, <1>10, <1>11

(* The copy ends: the backup is what the configuration is.                 *)
LEMMA EndCopyKeeps == ASSUME FrigateInv, EndCopy PROVE FrigateInv'
<1>. USE DEF FrigateInv, Names, Pending, EndCopy, Write, Frame
<1>0. NumbersOf
  BY FrigateNumbers
<1>1. BoxesFit' /\ box' = box
  BY DEF BoxesFit, Exists
<1>2. FrigateTypeOK'
  <2>1. backup' \in Images \cup {0, Partial}
    BY <1>0 DEF NumbersOf, FrigateTypeOK
  <2>. QED  BY <1>1, <2>1, SagaTypes DEF FrigateTypeOK, SagaTypeOK
<1>. USE DEF JournalFits, NumbersOf, NoTxn, CopyNeeded, StageFree, Exists, Running, OfUpgrade, Follows, Before,
  Amid, Past, OnlyOld, OldAlone, FrigatePlaces, SetUpPlaces, OpeningPlaces, CopyPlaces, SwapPlaces, SettlePlaces,
  UndoPlaces, ClearPlaces
<1>3. FrigateAsked'
  BY <1>0, <1>1, ExistingBoxes DEF FrigateAsked, JournalsFit
<1>4. JournalsFit'
  BY <1>0, <1>1, ExistingBoxes DEF JournalsFit, FrigateAsked, SettledFits, PendingFits, BackupFits, UpgradingFits
<1>5. OneRuns'
  BY <1>0, <1>1, ExistingBoxes DEF OneRuns, FrigateAsked, JournalsFit, SettledFits, PendingFits, InstallingFits,
    UpgradingFits, UndoingFits
<1>6. SettledFits'
  BY <1>0, <1>1, ExistingBoxes DEF SettledFits, FrigateAsked, JournalsFit, OneRuns, PendingFits, InstallingFits,
    UpgradingFits, UndoingFits
<1>7. PendingFits'
  BY <1>0, <1>1, ExistingBoxes DEF PendingFits, FrigateAsked, JournalsFit, OneRuns, SettledFits, BackupFits,
    UpgradingFits, UndoingFits
<1>8. BackupFits'
  BY <1>0, <1>1, ExistingBoxes DEF BackupFits, FrigateAsked, JournalsFit, PendingFits, UpgradingFits
<1>9. InstallingFits'
  BY <1>0, <1>1, ExistingBoxes DEF InstallingFits, FrigateAsked, SettledFits, OneRuns
<1>10. UpgradingFits'
  BY <1>0, <1>1, ExistingBoxes DEF UpgradingFits, FrigateAsked, JournalsFit, OneRuns, SettledFits, PendingFits
<1>11. UndoingFits'
  BY <1>0, <1>1, ExistingBoxes DEF UndoingFits, FrigateAsked, JournalsFit, OneRuns, SettledFits, PendingFits,
    BackupFits
<1>. QED  BY <1>1, <1>2, <1>3, <1>4, <1>5, <1>6, <1>7, <1>8, <1>9, <1>10, <1>11

(* The journal goes last, when there is nothing left to undo.              *)
LEMMA ClearJournalKeeps == ASSUME FrigateInv, ClearJournal PROVE FrigateInv'
<1>. USE DEF FrigateInv, Names, Pending, ClearJournal, Write, Frame
<1>0. NumbersOf
  BY FrigateNumbers
<1>1. BoxesFit' /\ box' = box
  BY DEF BoxesFit, Exists
<1>2. FrigateTypeOK'
  <2>1. disk' \in Txns
    BY TxnTypes DEF FrigateTypeOK
  <2>. QED  BY <1>1, <2>1, SagaTypes DEF FrigateTypeOK, SagaTypeOK
<1>. USE DEF JournalFits, NumbersOf, NoTxn, CopyNeeded, StageFree, Exists, Running, OfUpgrade, Follows, Before,
  Amid, Past, OnlyOld, OldAlone, FrigatePlaces, SetUpPlaces, OpeningPlaces, CopyPlaces, SwapPlaces, SettlePlaces,
  UndoPlaces, ClearPlaces
<1>3. FrigateAsked'
  BY <1>0, <1>1, ExistingBoxes DEF FrigateAsked, JournalsFit
<1>4. JournalsFit'
  BY <1>0, <1>1, ExistingBoxes DEF JournalsFit, FrigateAsked, SettledFits, PendingFits, BackupFits, UpgradingFits
<1>5. OneRuns'
  BY <1>0, <1>1, ExistingBoxes DEF OneRuns, FrigateAsked, JournalsFit, SettledFits, PendingFits, InstallingFits,
    UpgradingFits, UndoingFits
<1>6. SettledFits'
  BY <1>0, <1>1, ExistingBoxes DEF SettledFits, FrigateAsked, JournalsFit, OneRuns, PendingFits, InstallingFits,
    UpgradingFits, UndoingFits
<1>7. PendingFits'
  BY <1>0, <1>1, ExistingBoxes DEF PendingFits, FrigateAsked, JournalsFit, OneRuns, SettledFits, BackupFits,
    UpgradingFits, UndoingFits
<1>8. BackupFits'
  BY <1>0, <1>1, ExistingBoxes DEF BackupFits, FrigateAsked, JournalsFit, PendingFits, UpgradingFits
<1>9. InstallingFits'
  BY <1>0, <1>1, ExistingBoxes DEF InstallingFits, FrigateAsked, SettledFits, OneRuns
<1>10. UpgradingFits'
  BY <1>0, <1>1, ExistingBoxes DEF UpgradingFits, FrigateAsked, JournalsFit, OneRuns, SettledFits, PendingFits
<1>11. UndoingFits'
  BY <1>0, <1>1, ExistingBoxes DEF UndoingFits, FrigateAsked, JournalsFit, OneRuns, SettledFits, PendingFits,
    BackupFits
<1>. QED  BY <1>1, <1>2, <1>3, <1>4, <1>5, <1>6, <1>7, <1>8, <1>9, <1>10, <1>11

(* The way back: the migrated configuration steps aside, the copy being    *)
(* checked.                                                                *)
LEMMA SetAsideKeeps == ASSUME FrigateInv, SetAside PROVE FrigateInv'
<1>. USE DEF FrigateInv, Names, Pending, SetAside, Frame
<1>0. NumbersOf
  BY FrigateNumbers
<1>1. /\ BoxesFit' /\ box' = box /\ UNCHANGED <<ask, linked, row, removed, crashes, requests, backup, disk, mem>>
      /\ pc = "setting_aside" /\ (faults' = faults \/ Fault)
      /\ \/ /\ data[Config] # 0 /\ data'[Config] = 0 /\ data' \in [Dirs -> Images \cup {0}]
            /\ aside' = data[Config] /\ pc' = "putting_back"
         \/ pc' = "error" /\ UNCHANGED <<data, aside>>
  BY <1>0 DEF BoxesFit, Exists, NumbersOf
<1>. HIDE DEF SetAside, Frame
<1>2. FrigateTypeOK'
  <2>1. aside' \in Images \cup {0} /\ data' \in [Dirs -> Images \cup {0}]
    BY <1>0, <1>1 DEF NumbersOf, FrigateTypeOK
  <2>. QED  BY <1>1, <2>1, SagaTypes DEF FrigateTypeOK
<1>. USE DEF JournalFits, NumbersOf, NoTxn, CopyNeeded, StageFree, Exists, Running, OfUpgrade, Follows, Before,
  Amid, Past, OnlyOld, OldAlone, FrigatePlaces, SetUpPlaces, OpeningPlaces, CopyPlaces, SwapPlaces, SettlePlaces,
  UndoPlaces, ClearPlaces
<1>3. FrigateAsked'
  BY <1>0, <1>1, ExistingBoxes DEF FrigateAsked, JournalsFit
<1>4. JournalsFit'
  BY <1>0, <1>1, ExistingBoxes DEF JournalsFit, FrigateAsked, SettledFits, PendingFits, BackupFits, UpgradingFits
<1>5. OneRuns'
  BY <1>0, <1>1, ExistingBoxes DEF OneRuns, FrigateAsked, JournalsFit, SettledFits, PendingFits, InstallingFits,
    UpgradingFits, UndoingFits
<1>6. SettledFits'
  BY <1>0, <1>1, ExistingBoxes DEF SettledFits, FrigateAsked, JournalsFit, OneRuns, PendingFits, InstallingFits,
    UpgradingFits, UndoingFits
<1>7. PendingFits'
  BY <1>0, <1>1, ExistingBoxes DEF PendingFits, FrigateAsked, JournalsFit, OneRuns, SettledFits, BackupFits,
    UpgradingFits, UndoingFits
<1>8. BackupFits'
  BY <1>0, <1>1, ExistingBoxes DEF BackupFits, FrigateAsked, JournalsFit, PendingFits, UpgradingFits
<1>9. InstallingFits'
  BY <1>0, <1>1, ExistingBoxes DEF InstallingFits, FrigateAsked, SettledFits, OneRuns
<1>10. UpgradingFits'
  BY <1>0, <1>1, ExistingBoxes DEF UpgradingFits, FrigateAsked, JournalsFit, OneRuns, SettledFits, PendingFits
<1>11. UndoingFits'
  BY <1>0, <1>1, ExistingBoxes DEF UndoingFits, FrigateAsked, JournalsFit, OneRuns, SettledFits, PendingFits,
    BackupFits
<1>. QED  BY <1>1, <1>2, <1>3, <1>4, <1>5, <1>6, <1>7, <1>8, <1>9, <1>10, <1>11

(* An installation creates the container on the configuration.             *)
LEMMA CreatingMainKeeps ==
  ASSUME FrigateInv, Docker(Command("creating_main", data[Config] # 0,
                                    [box EXCEPT !["main"] = Created(ask.new, Config)], "starting_main", "error"))
  PROVE FrigateInv'
<1>. USE DEF FrigateInv, Names, Pending, Docker, frigateVars, Command, Frame
<1>0. NumbersOf
  BY FrigateNumbers
<1>1. /\ BoxesFit' /\ \A m \in Names \ {"main"} : box'[m] = box[m]
      /\ \/ box'["main"] = box["main"] /\ pc' = "error"
         \/ box'["main"].image = ask.new /\ box'["main"].dir = Config /\ ~Running("main")' /\ Exists("main")' /\ data[Config] # 0
  <2>1. ask.new \in Images /\ Config \in Dirs
    BY <1>0 DEF FrigateAsked, NumbersOf
  <2>2. CASE box' = box /\ pc' = "error"
    BY <2>2 DEF BoxesFit, Exists
  <2>3. CASE box' = [box EXCEPT !["main"] = Created(ask.new, Config)] /\ data[Config] # 0
    <3>1. /\ BoxesFit' /\ \A m \in Names \ {"main"} : box'[m] = box[m]
          /\ box'["main"].image = ask.new /\ box'["main"].dir = Config /\ ~Running("main")' /\ Exists("main")'
      BY <2>1, <2>3, CreateStep
    <3>. QED  BY <2>3, <3>1
  <2>. QED  BY <2>2, <2>3
<1>2. FrigateTypeOK'
  BY <1>0, <1>1, SagaTypes, TxnTypes DEF FrigateTypeOK, SagaTypeOK, CopyNeeded
<1>. USE DEF JournalFits, NumbersOf, NoTxn, CopyNeeded, StageFree, Exists, Running, OfUpgrade, Follows, Before,
  Amid, Past, OnlyOld, OldAlone, FrigatePlaces, SetUpPlaces, OpeningPlaces, CopyPlaces, SwapPlaces, SettlePlaces,
  UndoPlaces, ClearPlaces
<1>3. FrigateAsked'
  BY <1>0, <1>1, ExistingBoxes DEF FrigateAsked, JournalsFit
<1>4. JournalsFit'
  BY <1>0, <1>1, ExistingBoxes DEF JournalsFit, FrigateAsked, SettledFits, PendingFits, BackupFits, UpgradingFits
<1>5. OneRuns'
  BY <1>0, <1>1, ExistingBoxes DEF OneRuns, FrigateAsked, JournalsFit, SettledFits, PendingFits, InstallingFits,
    UpgradingFits, UndoingFits
<1>6. SettledFits'
  BY <1>0, <1>1, ExistingBoxes DEF SettledFits, FrigateAsked, JournalsFit, OneRuns, PendingFits, InstallingFits,
    UpgradingFits, UndoingFits
<1>7. PendingFits'
  BY <1>0, <1>1, ExistingBoxes DEF PendingFits, FrigateAsked, JournalsFit, OneRuns, SettledFits, BackupFits,
    UpgradingFits, UndoingFits
<1>8. BackupFits'
  BY <1>0, <1>1, ExistingBoxes DEF BackupFits, FrigateAsked, JournalsFit, PendingFits, UpgradingFits
<1>9. InstallingFits'
  BY <1>0, <1>1, ExistingBoxes DEF InstallingFits, FrigateAsked, SettledFits, OneRuns
<1>10. UpgradingFits'
  BY <1>0, <1>1, ExistingBoxes DEF UpgradingFits, FrigateAsked, JournalsFit, OneRuns, SettledFits, PendingFits
<1>11. UndoingFits'
  BY <1>0, <1>1, ExistingBoxes DEF UndoingFits, FrigateAsked, JournalsFit, OneRuns, SettledFits, PendingFits,
    BackupFits
<1>. QED  BY <1>1, <1>2, <1>3, <1>4, <1>5, <1>6, <1>7, <1>8, <1>9, <1>10, <1>11

(* The candidate is created, on the configuration both images share.       *)
LEMMA CreateKeeps == ASSUME FrigateInv, Create PROVE FrigateInv'
<1>. USE DEF FrigateInv, Names, Pending, Create, Docker, frigateVars, Command, Frame
<1>0. NumbersOf
  BY FrigateNumbers
<1>1. /\ BoxesFit' /\ \A m \in Names \ {"candidate"} : box'[m] = box[m]
      /\ \/ box'["candidate"] = box["candidate"] /\ pc' = "error"
         \/ /\ box'["candidate"].image = ask.new /\ box'["candidate"].dir = Config
            /\ ~Running("candidate")' /\ Exists("candidate")'
  <2>1. ask.new \in Images /\ Config \in Dirs
    BY <1>0 DEF FrigateAsked, NumbersOf
  <2>2. CASE box' = box /\ pc' = "error"
    BY <2>2 DEF BoxesFit, Exists
  <2>3. CASE box' = [box EXCEPT !["candidate"] = Created(ask.new, Config)]
    <3>1. /\ BoxesFit' /\ \A m \in Names \ {"candidate"} : box'[m] = box[m]
          /\ box'["candidate"].image = ask.new /\ box'["candidate"].dir = Config
          /\ ~Running("candidate")' /\ Exists("candidate")'
      BY <2>1, <2>3, CreateStep
    <3>. QED  BY <3>1
  <2>. QED  BY <2>2, <2>3
<1>2. FrigateTypeOK'
  BY <1>0, <1>1, SagaTypes, TxnTypes DEF FrigateTypeOK, SagaTypeOK, CopyNeeded
<1>. USE DEF JournalFits, NumbersOf, NoTxn, CopyNeeded, StageFree, Exists, Running, OfUpgrade, Follows, Before,
  Amid, Past, OnlyOld, OldAlone, FrigatePlaces, SetUpPlaces, OpeningPlaces, CopyPlaces, SwapPlaces, SettlePlaces,
  UndoPlaces, ClearPlaces
<1>3. FrigateAsked'
  BY <1>0, <1>1, ExistingBoxes DEF FrigateAsked, JournalsFit
<1>4. JournalsFit'
  BY <1>0, <1>1, ExistingBoxes DEF JournalsFit, FrigateAsked, SettledFits, PendingFits, BackupFits, UpgradingFits
<1>5. OneRuns'
  BY <1>0, <1>1, ExistingBoxes DEF OneRuns, FrigateAsked, JournalsFit, SettledFits, PendingFits, InstallingFits,
    UpgradingFits, UndoingFits
<1>6. SettledFits'
  BY <1>0, <1>1, ExistingBoxes DEF SettledFits, FrigateAsked, JournalsFit, OneRuns, PendingFits, InstallingFits,
    UpgradingFits, UndoingFits
<1>7. PendingFits'
  BY <1>0, <1>1, ExistingBoxes DEF PendingFits, FrigateAsked, JournalsFit, OneRuns, SettledFits, BackupFits,
    UpgradingFits, UndoingFits
<1>8. BackupFits'
  BY <1>0, <1>1, ExistingBoxes DEF BackupFits, FrigateAsked, JournalsFit, PendingFits, UpgradingFits
<1>9. InstallingFits'
  BY <1>0, <1>1, ExistingBoxes DEF InstallingFits, FrigateAsked, SettledFits, OneRuns
<1>10. UpgradingFits'
  BY <1>0, <1>1, ExistingBoxes DEF UpgradingFits, FrigateAsked, JournalsFit, OneRuns, SettledFits, PendingFits
<1>11. UndoingFits'
  BY <1>0, <1>1, ExistingBoxes DEF UndoingFits, FrigateAsked, JournalsFit, OneRuns, SettledFits, PendingFits,
    BackupFits
<1>. QED  BY <1>1, <1>2, <1>3, <1>4, <1>5, <1>6, <1>7, <1>8, <1>9, <1>10, <1>11

(* Starting or stopping the container on request, no upgrade being         *)
(* unfinished.                                                             *)
LEMMA ControllingKeeps ==
  ASSUME FrigateInv,
         Docker(Command("controlling", Exists("main") /\ (ask.op = "stop" \/ data[Config] # 0),
                        IF ask.op = "stop" THEN Stopped("main") ELSE Started("main"), "ok", "error"))
  PROVE FrigateInv'
<1>. USE DEF FrigateInv, Names, Pending, Docker, frigateVars, Command, Frame
<1>0. NumbersOf
  BY FrigateNumbers
<1>1. /\ BoxesFit' /\ \A m \in Names : (Exists(m)' <=> Exists(m)) /\ box'[m].image = box[m].image /\ box'[m].dir = box[m].dir
      /\ \A m \in Names \ {"main"} : box'[m] = box[m]
      /\ Running("main")' => Running("main") \/ (ask.op # "stop" /\ Exists("main"))
  <2>1. CASE Exists("main") /\ ask.op = "stop" /\ box' \in {box, Stopped("main")}
    BY <2>1, StopStep DEF Exists, Running
  <2>2. CASE Exists("main") /\ ask.op # "stop" /\ box' \in {box, Started("main")}
    BY <2>2, StartStep DEF Exists, Running
  <2>3. CASE box' = box
    BY <2>3 DEF BoxesFit, Exists, Running
  <2>. QED  BY <2>1, <2>2, <2>3
<1>2. FrigateTypeOK'
  BY <1>0, <1>1, SagaTypes, TxnTypes DEF FrigateTypeOK, SagaTypeOK, CopyNeeded
<1>. USE DEF JournalFits, NumbersOf, NoTxn, CopyNeeded, StageFree, Exists, Running, OfUpgrade, Follows, Before,
  Amid, Past, OnlyOld, OldAlone, FrigatePlaces, SetUpPlaces, OpeningPlaces, CopyPlaces, SwapPlaces, SettlePlaces,
  UndoPlaces, ClearPlaces
<1>3. FrigateAsked'
  BY <1>0, <1>1, ExistingBoxes DEF FrigateAsked, JournalsFit
<1>4. JournalsFit'
  BY <1>0, <1>1, ExistingBoxes DEF JournalsFit, FrigateAsked, SettledFits, PendingFits, BackupFits, UpgradingFits
<1>5. OneRuns'
  BY <1>0, <1>1, ExistingBoxes DEF OneRuns, FrigateAsked, JournalsFit, SettledFits, PendingFits, InstallingFits,
    UpgradingFits, UndoingFits
<1>6. SettledFits'
  BY <1>0, <1>1, ExistingBoxes DEF SettledFits, FrigateAsked, JournalsFit, OneRuns, PendingFits, InstallingFits,
    UpgradingFits, UndoingFits
<1>7. PendingFits'
  BY <1>0, <1>1, ExistingBoxes DEF PendingFits, FrigateAsked, JournalsFit, OneRuns, SettledFits, BackupFits,
    UpgradingFits, UndoingFits
<1>8. BackupFits'
  BY <1>0, <1>1, ExistingBoxes DEF BackupFits, FrigateAsked, JournalsFit, PendingFits, UpgradingFits
<1>9. InstallingFits'
  BY <1>0, <1>1, ExistingBoxes DEF InstallingFits, FrigateAsked, SettledFits, OneRuns
<1>10. UpgradingFits'
  BY <1>0, <1>1, ExistingBoxes DEF UpgradingFits, FrigateAsked, JournalsFit, OneRuns, SettledFits, PendingFits
<1>11. UndoingFits'
  BY <1>0, <1>1, ExistingBoxes DEF UndoingFits, FrigateAsked, JournalsFit, OneRuns, SettledFits, PendingFits,
    BackupFits
<1>. QED  BY <1>1, <1>2, <1>3, <1>4, <1>5, <1>6, <1>7, <1>8, <1>9, <1>10, <1>11

(* An installation makes a configuration only where there is none.         *)
LEMMA PrepareStorageKeeps == ASSUME FrigateInv, PrepareStorage PROVE FrigateInv'
<1>. USE DEF FrigateInv, Names, Pending, PrepareStorage, Write, Frame, frigateVars
<1>0. NumbersOf
  BY FrigateNumbers
<1>1. /\ BoxesFit' /\ box' = box /\ UNCHANGED <<ask, linked, row, removed, crashes, requests, frigateVars>>
      /\ pc = "preparing_storage" /\ (faults' = faults \/ Fault) /\ pc' \in {"creating_main", "error"}
      /\ data' \in [Dirs -> Images \cup {0}]
      /\ data'[Config] = data[Config] \/ (data[Config] = 0 /\ data'[Config] = 1)
  BY <1>0, SagaAssumption DEF BoxesFit, Exists, NumbersOf
<1>. HIDE DEF PrepareStorage, Write, Frame
<1>2. FrigateTypeOK'
  BY <1>1, SagaTypes DEF FrigateTypeOK
<1>. USE DEF JournalFits, NumbersOf, NoTxn, CopyNeeded, StageFree, Exists, Running, OfUpgrade, Follows, Before,
  Amid, Past, OnlyOld, OldAlone, FrigatePlaces, SetUpPlaces, OpeningPlaces, CopyPlaces, SwapPlaces, SettlePlaces,
  UndoPlaces, ClearPlaces
<1>3. FrigateAsked'
  BY <1>0, <1>1, ExistingBoxes DEF FrigateAsked, JournalsFit, frigateVars
<1>4. JournalsFit'
  BY <1>0, <1>1, ExistingBoxes DEF JournalsFit, FrigateAsked, SettledFits, PendingFits, BackupFits, UpgradingFits,
    frigateVars
<1>5. OneRuns'
  BY <1>0, <1>1, ExistingBoxes DEF OneRuns, FrigateAsked, JournalsFit, SettledFits, PendingFits, InstallingFits,
    UpgradingFits, UndoingFits, frigateVars
<1>6. SettledFits'
  BY <1>0, <1>1, ExistingBoxes DEF SettledFits, FrigateAsked, JournalsFit, OneRuns, PendingFits, InstallingFits,
    UpgradingFits, UndoingFits, frigateVars
<1>7. PendingFits'
  BY <1>0, <1>1, ExistingBoxes DEF PendingFits, FrigateAsked, JournalsFit, OneRuns, SettledFits, BackupFits,
    UpgradingFits, UndoingFits, frigateVars
<1>8. BackupFits'
  BY <1>0, <1>1, ExistingBoxes DEF BackupFits, FrigateAsked, JournalsFit, PendingFits, UpgradingFits, frigateVars
<1>9. InstallingFits'
  BY <1>0, <1>1, ExistingBoxes DEF InstallingFits, FrigateAsked, SettledFits, OneRuns, frigateVars
<1>10. UpgradingFits'
  BY <1>0, <1>1, ExistingBoxes DEF UpgradingFits, FrigateAsked, JournalsFit, OneRuns, SettledFits, PendingFits,
    frigateVars
<1>11. UndoingFits'
  BY <1>0, <1>1, ExistingBoxes DEF UndoingFits, FrigateAsked, JournalsFit, OneRuns, SettledFits, PendingFits,
    BackupFits, frigateVars
<1>. QED  BY <1>1, <1>2, <1>3, <1>4, <1>5, <1>6, <1>7, <1>8, <1>9, <1>10, <1>11

(* The way back: a container of the new image is removed.                  *)
LEMMA DropOneKeeps ==
  ASSUME FrigateInv, NEW n \in NewNames, Docker(Command("dropping", TRUE, Removed(n), "dropping", "error"))
  PROVE FrigateInv'
<1>. USE DEF FrigateInv, Names, Pending, Docker, frigateVars, Command, Frame
<1>0. NumbersOf
  BY FrigateNumbers
<1>1. /\ BoxesFit' /\ \A m \in Names \ {n} : box'[m] = box[m]
      /\ pc = "dropping" /\ pc' \in {"dropping", "error"} /\ (faults' = faults \/ Fault)
      /\ UNCHANGED <<data, ask, linked, row, removed, crashes, requests, frigateVars>>
      /\ \/ box'[n] = box[n] /\ (Exists(n)' <=> Exists(n)) /\ (Running(n)' <=> Running(n))
         \/ box'[n] = Absent /\ ~Exists(n)' /\ ~Running(n)' /\ box'[n].image = 0
      /\ n \in {"main", "candidate"} /\ Exists(n) /\ box[n].image = disk.new /\ disk.new # disk.old
  <2>1. n \in Names /\ Exists(n) /\ box[n].image = mem.new /\ Follows /\ disk.new # disk.old /\ disk.new # 0
    BY <1>0 DEF NewNames, JournalsFit, UndoPlaces, JournalFits, Follows, NoTxn, NumbersOf
  <2>2. n # "previous"
    BY <2>1, ExistingBoxes DEF PendingFits, Before, Amid, Past, Follows
  <2>3. BoxesFit' /\ box'[n] \in {box[n], Absent} /\ \A m \in Names \ {n} : box'[m] = box[m]
    BY <2>1, RemoveStep
  <2>4. /\ box'[n] = Absent => ~Exists(n)' /\ ~Running(n)' /\ box'[n].image = 0
        /\ box'[n] = box[n] => (Exists(n)' <=> Exists(n)) /\ (Running(n)' <=> Running(n))
    BY DEF Exists, Running, Absent
  <2>. QED  BY <2>1, <2>2, <2>3, <2>4 DEF Follows
<1>. HIDE DEF Docker, Command, Frame
<1>2. FrigateTypeOK'
  BY <1>0, <1>1, SagaTypes, TxnTypes DEF FrigateTypeOK, frigateVars, SagaTypeOK, CopyNeeded
<1>. USE DEF JournalFits, NumbersOf, NoTxn, CopyNeeded, StageFree, Exists, Running, OfUpgrade, Follows, Before,
  Amid, Past, OnlyOld, OldAlone, FrigatePlaces, SetUpPlaces, OpeningPlaces, CopyPlaces, SwapPlaces, SettlePlaces,
  UndoPlaces, ClearPlaces
<1>3. FrigateAsked'
  BY <1>0, <1>1, ExistingBoxes DEF FrigateAsked, JournalsFit, frigateVars
<1>4. JournalsFit'
  BY <1>0, <1>1, ExistingBoxes DEF JournalsFit, FrigateAsked, SettledFits, PendingFits, BackupFits, UpgradingFits,
    frigateVars
<1>5. OneRuns'
  BY <1>0, <1>1, ExistingBoxes DEF OneRuns, FrigateAsked, JournalsFit, SettledFits, PendingFits, InstallingFits,
    UpgradingFits, UndoingFits, frigateVars
<1>6. SettledFits'
  BY <1>0, <1>1, ExistingBoxes DEF SettledFits, FrigateAsked, JournalsFit, OneRuns, PendingFits, InstallingFits,
    UpgradingFits, UndoingFits, frigateVars
<1>7. PendingFits'
  BY <1>0, <1>1, ExistingBoxes DEF PendingFits, FrigateAsked, JournalsFit, OneRuns, SettledFits, BackupFits,
    UpgradingFits, UndoingFits, frigateVars
<1>8. BackupFits'
  BY <1>0, <1>1, ExistingBoxes DEF BackupFits, FrigateAsked, JournalsFit, PendingFits, UpgradingFits, frigateVars
<1>9. InstallingFits'
  BY <1>0, <1>1, ExistingBoxes DEF InstallingFits, FrigateAsked, SettledFits, OneRuns, frigateVars
<1>10. UpgradingFits'
  BY <1>0, <1>1, ExistingBoxes DEF UpgradingFits, FrigateAsked, JournalsFit, OneRuns, SettledFits, PendingFits,
    frigateVars
<1>11. UndoingFits'
  BY <1>0, <1>1, ExistingBoxes DEF UndoingFits, FrigateAsked, JournalsFit, OneRuns, SettledFits, PendingFits,
    BackupFits, frigateVars
<1>. QED  BY <1>1, <1>2, <1>3, <1>4, <1>5, <1>6, <1>7, <1>8, <1>9, <1>10, <1>11

(* The way back: no container of the new image is left.                    *)
LEMMA DroppedAllKeeps ==
  ASSUME FrigateInv, NewNames = {}, Docker(Check("dropping", TRUE, "halting", "error"))
  PROVE FrigateInv'
<1>. USE DEF FrigateInv, Names, Pending, Docker, frigateVars, Command, Frame, Check
<1>0. NumbersOf
  BY FrigateNumbers
<1>1. BoxesFit' /\ box' = box
  BY DEF BoxesFit, Exists
<1>12. OnlyOld
  <2>1. Follows /\ disk.new # disk.old /\ disk.new # 0 /\ disk.old # 0
    BY <1>0, ImagesAre DEF JournalsFit, UndoPlaces, JournalFits, Follows, NoTxn, NumbersOf
  <2>2. \A n \in Names : Exists(n) => box[n].image # disk.new
    BY <2>1 DEF NewNames, Follows
  <2>. QED  BY <2>1, <2>2, ExistingBoxes DEF PendingFits, Before, Amid, Past, Follows, OnlyOld
<1>2. FrigateTypeOK'
  BY <1>0, <1>1, <1>12, SagaTypes, TxnTypes DEF FrigateTypeOK, SagaTypeOK, CopyNeeded
<1>. USE DEF JournalFits, NumbersOf, NoTxn, CopyNeeded, StageFree, Exists, Running, OfUpgrade, Follows, Before,
  Amid, Past, OnlyOld, OldAlone, FrigatePlaces, SetUpPlaces, OpeningPlaces, CopyPlaces, SwapPlaces, SettlePlaces,
  UndoPlaces, ClearPlaces
<1>3. FrigateAsked'
  BY <1>0, <1>1, <1>12, ExistingBoxes DEF FrigateAsked, JournalsFit
<1>4. JournalsFit'
  BY <1>0, <1>1, <1>12, ExistingBoxes DEF JournalsFit, FrigateAsked, SettledFits, PendingFits, BackupFits,
    UpgradingFits
<1>5. OneRuns'
  BY <1>0, <1>1, <1>12, ExistingBoxes DEF OneRuns, FrigateAsked, JournalsFit, SettledFits, PendingFits,
    InstallingFits, UpgradingFits, UndoingFits
<1>6. SettledFits'
  BY <1>0, <1>1, <1>12, ExistingBoxes DEF SettledFits, FrigateAsked, JournalsFit, OneRuns, PendingFits,
    InstallingFits, UpgradingFits, UndoingFits
<1>7. PendingFits'
  BY <1>0, <1>1, <1>12, ExistingBoxes DEF PendingFits, FrigateAsked, JournalsFit, OneRuns, SettledFits,
    BackupFits, UpgradingFits, UndoingFits
<1>8. BackupFits'
  BY <1>0, <1>1, <1>12, ExistingBoxes DEF BackupFits, FrigateAsked, JournalsFit, PendingFits, UpgradingFits
<1>9. InstallingFits'
  BY <1>0, <1>1, <1>12, ExistingBoxes DEF InstallingFits, FrigateAsked, SettledFits, OneRuns
<1>10. UpgradingFits'
  BY <1>0, <1>1, <1>12, ExistingBoxes DEF UpgradingFits, FrigateAsked, JournalsFit, OneRuns, SettledFits,
    PendingFits
<1>11. UndoingFits'
  BY <1>0, <1>1, <1>12, ExistingBoxes DEF UndoingFits, FrigateAsked, JournalsFit, OneRuns, SettledFits,
    PendingFits, BackupFits
<1>. QED  BY <1>1, <1>2, <1>3, <1>4, <1>5, <1>6, <1>7, <1>8, <1>9, <1>10, <1>11

(* The way back: the old container is stopped before its data is replaced. *)
LEMMA HaltOneKeeps ==
  ASSUME FrigateInv, NEW n \in OldNames,
         Docker(Command("halting", TRUE, Stopped(n), IF CopyNeeded THEN "setting_aside" ELSE "naming", "error"))
  PROVE FrigateInv'
<1>. USE DEF FrigateInv, Names, Pending, Docker, frigateVars, Command, Frame
<1>0. NumbersOf
  BY FrigateNumbers
<1>1. /\ BoxesFit' /\ \A m \in Names \ {n} : box'[m] = box[m]
      /\ pc = "halting" /\ pc' \in {IF CopyNeeded THEN "setting_aside" ELSE "naming", "error"} /\ (faults' = faults \/ Fault)
      /\ UNCHANGED <<data, ask, linked, row, removed, crashes, requests, frigateVars>>
      /\ \A m \in Names : (Exists(m)' <=> Exists(m)) /\ box'[m].image = box[m].image /\ box'[m].dir = box[m].dir
      /\ Running(n)' => Running(n)
      /\ pc' # "error" => ~Running(n)'
      /\ n \in Names /\ \A m \in Names \ {n} : ~Exists(m) /\ ~Running(m) /\ ~Running(m)'
  <2>1. n \in Names /\ Exists(n) /\ OnlyOld /\ box[n].image # 0
    BY ExistingBoxes DEF OldNames, UndoingFits
  <2>2. \A m \in Names \ {n} : ~Exists(m) /\ ~Running(m)
    BY <2>1, ExistingBoxes DEF OnlyOld, Before, Amid
  <2>3. /\ BoxesFit' /\ \A m \in Names \ {n} : box'[m] = box[m]
        /\ Exists(n)' /\ box'[n].image = box[n].image /\ box'[n].dir = box[n].dir
        /\ Running(n)' => Running(n)
        /\ box' = Stopped(n) => ~Running(n)'
    BY <2>1, StopStep
  <2>4. \A m \in Names \ {n} : (Exists(m)' <=> Exists(m)) /\ (Running(m)' <=> Running(m))
    BY <2>3 DEF Exists, Running
  <2>. QED  BY <2>1, <2>2, <2>3, <2>4
<1>. HIDE DEF Docker, Command, Frame
<1>2. FrigateTypeOK'
  BY <1>0, <1>1, SagaTypes, TxnTypes DEF FrigateTypeOK, frigateVars, SagaTypeOK, CopyNeeded
<1>. USE DEF JournalFits, NumbersOf, NoTxn, CopyNeeded, StageFree, Exists, Running, OfUpgrade, Follows, Before,
  Amid, Past, OnlyOld, OldAlone, FrigatePlaces, SetUpPlaces, OpeningPlaces, CopyPlaces, SwapPlaces, SettlePlaces,
  UndoPlaces, ClearPlaces
<1>3. FrigateAsked'
  BY <1>0, <1>1, ExistingBoxes DEF FrigateAsked, JournalsFit, frigateVars
<1>4. JournalsFit'
  BY <1>0, <1>1, ExistingBoxes DEF JournalsFit, FrigateAsked, SettledFits, PendingFits, BackupFits, UpgradingFits,
    frigateVars
<1>5. OneRuns'
  BY <1>0, <1>1, ExistingBoxes DEF OneRuns, FrigateAsked, JournalsFit, SettledFits, PendingFits, InstallingFits,
    UpgradingFits, UndoingFits, frigateVars
<1>6. SettledFits'
  BY <1>0, <1>1, ExistingBoxes DEF SettledFits, FrigateAsked, JournalsFit, OneRuns, PendingFits, InstallingFits,
    UpgradingFits, UndoingFits, frigateVars
<1>7. PendingFits'
  BY <1>0, <1>1, ExistingBoxes DEF PendingFits, FrigateAsked, JournalsFit, OneRuns, SettledFits, BackupFits,
    UpgradingFits, UndoingFits, frigateVars
<1>8. BackupFits'
  BY <1>0, <1>1, ExistingBoxes DEF BackupFits, FrigateAsked, JournalsFit, PendingFits, UpgradingFits, frigateVars
<1>9. InstallingFits'
  BY <1>0, <1>1, ExistingBoxes DEF InstallingFits, FrigateAsked, SettledFits, OneRuns, frigateVars
<1>10. UpgradingFits'
  BY <1>0, <1>1, ExistingBoxes DEF UpgradingFits, FrigateAsked, JournalsFit, OneRuns, SettledFits, PendingFits,
    frigateVars
<1>11. UndoingFits'
  BY <1>0, <1>1, ExistingBoxes DEF UndoingFits, FrigateAsked, JournalsFit, OneRuns, SettledFits, PendingFits,
    BackupFits, frigateVars
<1>. QED  BY <1>1, <1>2, <1>3, <1>4, <1>5, <1>6, <1>7, <1>8, <1>9, <1>10, <1>11

(* The way back: the checked copy becomes the configuration.               *)
LEMMA PutBackKeeps == ASSUME FrigateInv, PutBack PROVE FrigateInv'
<1>. USE DEF FrigateInv, Names, Pending, PutBack, Write, Frame
<1>0. NumbersOf
  BY FrigateNumbers
<1>1. /\ BoxesFit' /\ box' = box /\ UNCHANGED <<ask, linked, row, removed, crashes, requests, backup, disk, mem, aside>>
      /\ pc = "putting_back" /\ (faults' = faults \/ Fault)
      /\ data' \in [Dirs -> Images \cup {0}]
      /\ \/ pc' = "naming" /\ data'[Config] = mem.snap
         \/ pc' = "error" /\ data'[Config] \in {mem.snap, aside}
  <2>1. mem.snap \in Images \cup {0} /\ aside \in Images \cup {0}
    BY TxnTypes DEF FrigateTypeOK
  <2>. QED  BY <1>0, <2>1 DEF BoxesFit, Exists, NumbersOf
<1>. HIDE DEF PutBack, Write, Frame
<1>2. FrigateTypeOK'
  BY <1>0, <1>1, SagaTypes, TxnTypes DEF FrigateTypeOK, SagaTypeOK, CopyNeeded
<1>. USE DEF JournalFits, NumbersOf, NoTxn, CopyNeeded, StageFree, Exists, Running, OfUpgrade, Follows, Before,
  Amid, Past, OnlyOld, OldAlone, FrigatePlaces, SetUpPlaces, OpeningPlaces, CopyPlaces, SwapPlaces, SettlePlaces,
  UndoPlaces, ClearPlaces
<1>3. FrigateAsked'
  BY <1>0, <1>1, ExistingBoxes DEF FrigateAsked, JournalsFit
<1>4. JournalsFit'
  BY <1>0, <1>1, ExistingBoxes DEF JournalsFit, FrigateAsked, SettledFits, PendingFits, BackupFits, UpgradingFits
<1>5. OneRuns'
  BY <1>0, <1>1, ExistingBoxes DEF OneRuns, FrigateAsked, JournalsFit, SettledFits, PendingFits, InstallingFits,
    UpgradingFits, UndoingFits
<1>6. SettledFits'
  BY <1>0, <1>1, ExistingBoxes DEF SettledFits, FrigateAsked, JournalsFit, OneRuns, PendingFits, InstallingFits,
    UpgradingFits, UndoingFits
<1>7. PendingFits'
  BY <1>0, <1>1, ExistingBoxes DEF PendingFits, FrigateAsked, JournalsFit, OneRuns, SettledFits, BackupFits,
    UpgradingFits, UndoingFits
<1>8. BackupFits'
  BY <1>0, <1>1, ExistingBoxes DEF BackupFits, FrigateAsked, JournalsFit, PendingFits, UpgradingFits
<1>9. InstallingFits'
  BY <1>0, <1>1, ExistingBoxes DEF InstallingFits, FrigateAsked, SettledFits, OneRuns
<1>10. UpgradingFits'
  BY <1>0, <1>1, ExistingBoxes DEF UpgradingFits, FrigateAsked, JournalsFit, OneRuns, SettledFits, PendingFits
<1>11. UndoingFits'
  BY <1>0, <1>1, ExistingBoxes DEF UndoingFits, FrigateAsked, JournalsFit, OneRuns, SettledFits, PendingFits,
    BackupFits
<1>. QED  BY <1>1, <1>2, <1>3, <1>4, <1>5, <1>6, <1>7, <1>8, <1>9, <1>10, <1>11

(* The way back: the old container gets the main name again.               *)
LEMMA NameOneKeeps ==
  ASSUME FrigateInv, NEW n \in OldNames \ {"main"},
         Docker(Command("naming", CanRename(n, "main"), Renamed(n, "main"), "reviving", "error"))
  PROVE FrigateInv'
<1>. USE DEF FrigateInv, Names, Pending, Docker, frigateVars, Command, Frame
<1>0. NumbersOf
  BY FrigateNumbers
<1>1. /\ BoxesFit' /\ n = "previous" /\ box'["candidate"] = box["candidate"]
      /\ pc = "naming" /\ pc' \in {"reviving", "error"} /\ (faults' = faults \/ Fault)
      /\ UNCHANGED <<data, ask, linked, row, removed, crashes, requests, frigateVars>>
      /\ Amid /\ ~Exists("candidate") /\ \A m \in Names : ~Running(m)
      /\ \/ /\ \A m \in Names : box'[m] = box[m]
            /\ pc' = "error"
         \/ /\ box'["main"] = box["previous"] /\ box'["previous"] = Absent
            /\ ~Exists("previous")' /\ ~Running("previous")'
  <2>1. OnlyOld /\ n \in Names /\ Exists(n) /\ n # "main" /\ \A m \in Names : ~Running(m)
    BY DEF OldNames, UndoingFits
  <2>2. n = "previous" /\ Amid /\ ~Exists("candidate") /\ ~Exists("main")
    BY <2>1, ExistingBoxes DEF OnlyOld, Before, Amid
  <2>3. CASE box' = box /\ pc' = "error"
    BY <2>1, <2>2, <2>3 DEF BoxesFit, Exists
  <2>4. CASE CanRename("previous", "main") /\ box' = Renamed("previous", "main")
    <3>1. /\ BoxesFit' /\ box'["candidate"] = box["candidate"]
          /\ box'["main"] = box["previous"] /\ box'["previous"] = Absent
          /\ ~Exists("previous")' /\ ~Running("previous")'
      BY <2>4, RenameStep
    <3>. QED  BY <2>1, <2>2, <3>1
  <2>. QED  BY <2>2, <2>3, <2>4
<1>. HIDE DEF Docker, Command, Frame
<1>2. FrigateTypeOK'
  BY <1>0, <1>1, SagaTypes, TxnTypes DEF FrigateTypeOK, frigateVars, SagaTypeOK, CopyNeeded
<1>. USE DEF JournalFits, NumbersOf, NoTxn, CopyNeeded, StageFree, Exists, Running, OfUpgrade, Follows, Before,
  Amid, Past, OnlyOld, OldAlone, FrigatePlaces, SetUpPlaces, OpeningPlaces, CopyPlaces, SwapPlaces, SettlePlaces,
  UndoPlaces, ClearPlaces
<1>3. FrigateAsked'
  BY <1>0, <1>1, ExistingBoxes DEF FrigateAsked, JournalsFit, frigateVars
<1>4. JournalsFit'
  BY <1>0, <1>1, ExistingBoxes DEF JournalsFit, FrigateAsked, SettledFits, PendingFits, BackupFits, UpgradingFits,
    frigateVars
<1>5. OneRuns'
  BY <1>0, <1>1, ExistingBoxes DEF OneRuns, FrigateAsked, JournalsFit, SettledFits, PendingFits, InstallingFits,
    UpgradingFits, UndoingFits, frigateVars
<1>6. SettledFits'
  BY <1>0, <1>1, ExistingBoxes DEF SettledFits, FrigateAsked, JournalsFit, OneRuns, PendingFits, InstallingFits,
    UpgradingFits, UndoingFits, frigateVars
<1>7. PendingFits'
  BY <1>0, <1>1, ExistingBoxes DEF PendingFits, FrigateAsked, JournalsFit, OneRuns, SettledFits, BackupFits,
    UpgradingFits, UndoingFits, frigateVars
<1>8. BackupFits'
  BY <1>0, <1>1, ExistingBoxes DEF BackupFits, FrigateAsked, JournalsFit, PendingFits, UpgradingFits, frigateVars
<1>9. InstallingFits'
  BY <1>0, <1>1, ExistingBoxes DEF InstallingFits, FrigateAsked, SettledFits, OneRuns, frigateVars
<1>10. UpgradingFits'
  BY <1>0, <1>1, ExistingBoxes DEF UpgradingFits, FrigateAsked, JournalsFit, OneRuns, SettledFits, PendingFits,
    frigateVars
<1>11. UndoingFits'
  BY <1>0, <1>1, ExistingBoxes DEF UndoingFits, FrigateAsked, JournalsFit, OneRuns, SettledFits, PendingFits,
    BackupFits, frigateVars
<1>. QED  BY <1>1, <1>2, <1>3, <1>4, <1>5, <1>6, <1>7, <1>8, <1>9, <1>10, <1>11

(* The way back: the old container has the main name already.              *)
LEMMA NamedKeeps ==
  ASSUME FrigateInv, Exists("main"), Docker(Check("naming", TRUE, "reviving", "error"))
  PROVE FrigateInv'
<1>. USE DEF FrigateInv, Names, Pending, Docker, frigateVars, Command, Frame, Check
<1>0. NumbersOf
  BY FrigateNumbers
<1>1. BoxesFit' /\ box' = box
  BY DEF BoxesFit, Exists
<1>2. FrigateTypeOK'
  BY <1>0, <1>1, SagaTypes, TxnTypes DEF FrigateTypeOK, SagaTypeOK, CopyNeeded
<1>. USE DEF JournalFits, NumbersOf, NoTxn, CopyNeeded, StageFree, Exists, Running, OfUpgrade, Follows, Before,
  Amid, Past, OnlyOld, OldAlone, FrigatePlaces, SetUpPlaces, OpeningPlaces, CopyPlaces, SwapPlaces, SettlePlaces,
  UndoPlaces, ClearPlaces
<1>3. FrigateAsked'
  BY <1>0, <1>1, ExistingBoxes DEF FrigateAsked, JournalsFit
<1>4. JournalsFit'
  BY <1>0, <1>1, ExistingBoxes DEF JournalsFit, FrigateAsked, SettledFits, PendingFits, BackupFits, UpgradingFits
<1>5. OneRuns'
  BY <1>0, <1>1, ExistingBoxes DEF OneRuns, FrigateAsked, JournalsFit, SettledFits, PendingFits, InstallingFits,
    UpgradingFits, UndoingFits
<1>6. SettledFits'
  BY <1>0, <1>1, ExistingBoxes DEF SettledFits, FrigateAsked, JournalsFit, OneRuns, PendingFits, InstallingFits,
    UpgradingFits, UndoingFits
<1>7. PendingFits'
  BY <1>0, <1>1, ExistingBoxes DEF PendingFits, FrigateAsked, JournalsFit, OneRuns, SettledFits, BackupFits,
    UpgradingFits, UndoingFits
<1>8. BackupFits'
  BY <1>0, <1>1, ExistingBoxes DEF BackupFits, FrigateAsked, JournalsFit, PendingFits, UpgradingFits
<1>9. InstallingFits'
  BY <1>0, <1>1, ExistingBoxes DEF InstallingFits, FrigateAsked, SettledFits, OneRuns
<1>10. UpgradingFits'
  BY <1>0, <1>1, ExistingBoxes DEF UpgradingFits, FrigateAsked, JournalsFit, OneRuns, SettledFits, PendingFits
<1>11. UndoingFits'
  BY <1>0, <1>1, ExistingBoxes DEF UndoingFits, FrigateAsked, JournalsFit, OneRuns, SettledFits, PendingFits,
    BackupFits
<1>. QED  BY <1>1, <1>2, <1>3, <1>4, <1>5, <1>6, <1>7, <1>8, <1>9, <1>10, <1>11

(* A request finds the helper free and reads the journal as it was left.   *)
LEMMA AskFrigateKeeps == ASSUME FrigateInv, AskFrigate PROVE FrigateInv'
<1>. USE DEF FrigateInv, Names, Pending, AskFrigate, FrigateAsk, Ask
<1>0. NumbersOf
  BY FrigateNumbers
<1>1. /\ BoxesFit' /\ box' = box /\ UNCHANGED <<data, row, faults, crashes, backup, disk, aside>>
      /\ pc = "idle" /\ mem' = disk /\ linked' = TRUE /\ requests < MaxRequests /\ requests' = requests + 1
      /\ \/ /\ pc' = "matching" /\ ask'.op = "upgrade" /\ row # 0 /\ ask'.new > row /\ ask'.old = row
         \/ pc' = "reconciling" /\ ask'.op = "recover" /\ row # 0 /\ ask'.new = row
         \/ pc' = "controlling" /\ ask'.op \in {"start", "restart"} /\ ~Pending
         \/ pc' = "controlling" /\ ask'.op = "stop"
         \/ pc' = "removing" /\ ask'.op = "remove" /\ ~Pending
         \/ /\ pc' = "adopting" /\ ask'.op = "install" /\ row = 0 /\ ask'.new >= data[Config] /\ ask'.new \in Images
            /\ disk = NoTxn \/ (disk.phase = "committed" /\ disk.new = ask'.new)
  BY DEF BoxesFit, Exists
<1>12. ask' \in [op : {"upgrade", "recover", "start", "stop", "restart", "remove", "install"}, new : Images, old : Images]
  <2>1. row # 0 => row \in Images
    BY DEF FrigateTypeOK, SagaTypeOK
  <2>. QED  BY <2>1
<1>13. ask'.new \in Nat /\ ask'.op \in {"upgrade", "recover", "start", "stop", "restart", "remove", "install"}
  BY <1>12, ImagesAre
<1>14. removed' \in BOOLEAN
  <2>1. Remembered
    BY DEF Remembered
  <2>. QED  BY <2>1, RemovedIs DEF FrigateTypeOK
<1>. HIDE DEF AskFrigate, FrigateAsk, Ask
<1>2. FrigateTypeOK'
  BY <1>1, <1>14, SagaAssumption DEF FrigateTypeOK, SagaTypeOK
<1>. USE DEF JournalFits, NumbersOf, NoTxn, CopyNeeded, StageFree, Exists, Running, OfUpgrade, Follows, Before,
  Amid, Past, OnlyOld, OldAlone, FrigatePlaces, SetUpPlaces, OpeningPlaces, CopyPlaces, SwapPlaces, SettlePlaces,
  UndoPlaces, ClearPlaces
<1>3. FrigateAsked'
  BY <1>0, <1>1, <1>12, <1>13, ExistingBoxes DEF FrigateAsked, JournalsFit
<1>4. JournalsFit'
  BY <1>0, <1>1, <1>12, <1>13, ExistingBoxes DEF JournalsFit, FrigateAsked, SettledFits, PendingFits, BackupFits,
    UpgradingFits
<1>5. OneRuns'
  BY <1>0, <1>1, <1>12, <1>13, ExistingBoxes DEF OneRuns, FrigateAsked, JournalsFit, SettledFits, PendingFits,
    InstallingFits, UpgradingFits, UndoingFits
<1>6. SettledFits'
  BY <1>0, <1>1, <1>12, <1>13, ExistingBoxes DEF SettledFits, FrigateAsked, JournalsFit, OneRuns, PendingFits,
    InstallingFits, UpgradingFits, UndoingFits
<1>7. PendingFits'
  BY <1>0, <1>1, <1>12, <1>13, ExistingBoxes DEF PendingFits, FrigateAsked, JournalsFit, OneRuns, SettledFits,
    BackupFits, UpgradingFits, UndoingFits
<1>8. BackupFits'
  BY <1>0, <1>1, <1>12, <1>13, ExistingBoxes DEF BackupFits, FrigateAsked, JournalsFit, PendingFits, UpgradingFits
<1>9. InstallingFits'
  BY <1>0, <1>1, <1>12, <1>13, ExistingBoxes DEF InstallingFits, FrigateAsked, SettledFits, OneRuns
<1>10. UpgradingFits'
  BY <1>0, <1>1, <1>12, <1>13, ExistingBoxes DEF UpgradingFits, FrigateAsked, JournalsFit, OneRuns, SettledFits,
    PendingFits
<1>11. UndoingFits'
  BY <1>0, <1>1, <1>12, <1>13, ExistingBoxes DEF UndoingFits, FrigateAsked, JournalsFit, OneRuns, SettledFits,
    PendingFits, BackupFits
<1>. QED  BY <1>1, <1>2, <1>3, <1>4, <1>5, <1>6, <1>7, <1>8, <1>9, <1>10, <1>11

(* Core's second request, commit or rollback, begins with the journal.     *)
LEMMA SecondKeeps == ASSUME FrigateInv, Second PROVE FrigateInv'
<1>. USE DEF FrigateInv, Names, Pending, Second, Registered
<1>0. NumbersOf
  BY FrigateNumbers
<1>1. /\ BoxesFit' /\ box' = box /\ UNCHANGED <<data, linked, removed, crashes, requests, backup, disk, aside>>
      /\ pc = "ok" /\ ask.op = "upgrade" /\ mem' = disk
      /\ ask'.new = ask.new /\ ask'.old = ask.old
      /\ \/ row' = ask.new /\ ask'.op = "commit" /\ pc' = "finishing" /\ faults' = faults
         \/ row' = row /\ ask'.op = "rollback" /\ pc' = "compensating" /\ Fault
  <2>1. /\ BoxesFit' /\ box' = box /\ UNCHANGED <<data, linked, removed, crashes, requests, backup, disk, aside>>
        /\ pc = "ok" /\ ask.op = "upgrade" /\ mem' = disk /\ pc' = (IF ask'.op = "commit" THEN "finishing" ELSE "compensating")
    BY DEF BoxesFit, Exists
  <2>2. ask \in [op : {"none", "upgrade", "commit", "rollback", "recover", "start", "stop", "restart", "remove",
    "install"},
                 new : Images, old : Images]
    BY DEF FrigateAsked
  <2>3. CASE row' = ask.new /\ ask' = [ask EXCEPT !.op = "commit"] /\ faults' = faults
    <3>1. ask'.op = "commit" /\ ask'.new = ask.new /\ ask'.old = ask.old
      BY <2>2, <2>3
    <3>. QED  BY <2>1, <2>3, <3>1
  <2>4. CASE row' = row /\ ask' = [ask EXCEPT !.op = "rollback"] /\ Fault
    <3>1. ask'.op = "rollback" /\ ask'.new = ask.new /\ ask'.old = ask.old
      BY <2>2, <2>4
    <3>. QED  BY <2>1, <2>4, <3>1
  <2>. QED  BY <2>3, <2>4
<1>12. ask' \in [op : {"commit", "rollback"}, new : Images, old : Images] /\ ask'.new \in Nat /\ ask'.old \in Nat /\ ask.new \in Images
  BY <1>0 DEF FrigateAsked, NumbersOf
<1>. HIDE DEF Second, Registered
<1>2. FrigateTypeOK'
  BY <1>1, <1>12, SagaAssumption DEF FrigateTypeOK, SagaTypeOK, Fault
<1>. USE DEF JournalFits, NumbersOf, NoTxn, CopyNeeded, StageFree, Exists, Running, OfUpgrade, Follows, Before,
  Amid, Past, OnlyOld, OldAlone, FrigatePlaces, SetUpPlaces, OpeningPlaces, CopyPlaces, SwapPlaces, SettlePlaces,
  UndoPlaces, ClearPlaces
<1>3. FrigateAsked'
  BY <1>0, <1>1, <1>12, ExistingBoxes DEF FrigateAsked, JournalsFit
<1>4. JournalsFit'
  BY <1>0, <1>1, <1>12, ExistingBoxes DEF JournalsFit, FrigateAsked, SettledFits, PendingFits, BackupFits,
    UpgradingFits
<1>5. OneRuns'
  BY <1>0, <1>1, <1>12, ExistingBoxes DEF OneRuns, FrigateAsked, JournalsFit, SettledFits, PendingFits,
    InstallingFits, UpgradingFits, UndoingFits
<1>6. SettledFits'
  BY <1>0, <1>1, <1>12, ExistingBoxes DEF SettledFits, FrigateAsked, JournalsFit, OneRuns, PendingFits,
    InstallingFits, UpgradingFits, UndoingFits
<1>7. PendingFits'
  BY <1>0, <1>1, <1>12, ExistingBoxes DEF PendingFits, FrigateAsked, JournalsFit, OneRuns, SettledFits,
    BackupFits, UpgradingFits, UndoingFits
<1>8. BackupFits'
  BY <1>0, <1>1, <1>12, ExistingBoxes DEF BackupFits, FrigateAsked, JournalsFit, PendingFits, UpgradingFits
<1>9. InstallingFits'
  BY <1>0, <1>1, <1>12, ExistingBoxes DEF InstallingFits, FrigateAsked, SettledFits, OneRuns
<1>10. UpgradingFits'
  BY <1>0, <1>1, <1>12, ExistingBoxes DEF UpgradingFits, FrigateAsked, JournalsFit, OneRuns, SettledFits,
    PendingFits
<1>11. UndoingFits'
  BY <1>0, <1>1, <1>12, ExistingBoxes DEF UndoingFits, FrigateAsked, JournalsFit, OneRuns, SettledFits,
    PendingFits, BackupFits
<1>. QED  BY <1>1, <1>2, <1>3, <1>4, <1>5, <1>6, <1>7, <1>8, <1>9, <1>10, <1>11

(* A running container brings the configuration to its own version.        *)
LEMMA MigrateFrigateKeeps == ASSUME FrigateInv, Docker(Migrate) PROVE FrigateInv'
<1>. USE DEF FrigateInv, Names, Pending, Docker, Migrate, Frame, frigateVars
<1>0. NumbersOf
  BY FrigateNumbers
<1>2. PICK n \in Names :
        /\ Running(n) /\ data[box[n].dir] \in 1..(box[n].image - 1)
        /\ data' = [data EXCEPT ![box[n].dir] = box[n].image]
        /\ UNCHANGED <<box, pc, faults, ask, linked, row, removed, crashes, requests, frigateVars>>
  OBVIOUS
<1>1. /\ BoxesFit' /\ box' = box /\ UNCHANGED <<pc, ask, linked, row, removed, faults, crashes, requests, backup, disk, mem, aside>>
      /\ n \in {"main", "candidate"} /\ Running(n) /\ Exists(n) /\ data[Config] \in 1..(box[n].image - 1)
      /\ data'[Config] = box[n].image /\ data' \in [Dirs -> Images \cup {0}]
      /\ \A m \in Names \ {n} : ~Running(m)
  <2>1. Exists(n) /\ box[n].dir = Config /\ box[n].image \in Images
    BY <1>2, ExistingBoxes DEF OneRuns
  <2>2. n # "previous" /\ \A m \in Names \ {n} : ~Running(m)
    BY <1>2 DEF OneRuns
  <2>3. BoxesFit' /\ box' = box
    BY <1>2 DEF BoxesFit, Exists
  <2>. QED  BY <1>0, <1>2, <2>1, <2>2, <2>3 DEF NumbersOf
<1>. HIDE DEF Docker, Migrate, Frame
<1>12. FrigateTypeOK'
  BY <1>0, <1>1, SagaTypes, TxnTypes DEF FrigateTypeOK, SagaTypeOK, CopyNeeded
<1>. USE DEF JournalFits, NumbersOf, NoTxn, CopyNeeded, StageFree, Exists, Running, OfUpgrade, Follows, Before,
  Amid, Past, OnlyOld, OldAlone, FrigatePlaces, SetUpPlaces, OpeningPlaces, CopyPlaces, SwapPlaces, SettlePlaces,
  UndoPlaces, ClearPlaces
<1>3. FrigateAsked'
  BY <1>0, <1>1, ExistingBoxes DEF FrigateAsked, JournalsFit
<1>4. JournalsFit'
  BY <1>0, <1>1, ExistingBoxes DEF JournalsFit, FrigateAsked, SettledFits, PendingFits, BackupFits, UpgradingFits
<1>5. OneRuns'
  BY <1>0, <1>1, ExistingBoxes DEF OneRuns, FrigateAsked, JournalsFit, SettledFits, PendingFits, InstallingFits,
    UpgradingFits, UndoingFits
<1>6. SettledFits'
  BY <1>0, <1>1, ExistingBoxes DEF SettledFits, FrigateAsked, JournalsFit, OneRuns, PendingFits, InstallingFits,
    UpgradingFits, UndoingFits
<1>7. PendingFits'
  BY <1>0, <1>1, ExistingBoxes DEF PendingFits, FrigateAsked, JournalsFit, OneRuns, SettledFits, BackupFits,
    UpgradingFits, UndoingFits
<1>8. BackupFits'
  BY <1>0, <1>1, ExistingBoxes DEF BackupFits, FrigateAsked, JournalsFit, PendingFits, UpgradingFits
<1>9. InstallingFits'
  BY <1>0, <1>1, ExistingBoxes DEF InstallingFits, FrigateAsked, SettledFits, OneRuns
<1>10. UpgradingFits'
  BY <1>0, <1>1, ExistingBoxes DEF UpgradingFits, FrigateAsked, JournalsFit, OneRuns, SettledFits, PendingFits
<1>11. UndoingFits'
  BY <1>0, <1>1, ExistingBoxes DEF UndoingFits, FrigateAsked, JournalsFit, OneRuns, SettledFits, PendingFits,
    BackupFits
<1>. QED  BY <1>1, <1>12, <1>3, <1>4, <1>5, <1>6, <1>7, <1>8, <1>9, <1>10, <1>11

(* Answers and deaths leave containers, data and journal as they are.      *)
LEMMA AroundFrigateKeeps == ASSUME FrigateInv, Docker(Answered) \/ Docker(CoreDies) \/ Docker(HelperDies) PROVE FrigateInv'
<1>. USE DEF FrigateInv, Names, Pending, Docker, Answered, CoreDies, HelperDies, Crash, frigateVars
<1>0. NumbersOf
  BY FrigateNumbers
<1>1. /\ BoxesFit' /\ box' = box /\ UNCHANGED <<data, ask, removed, faults, requests, frigateVars>> /\ pc' \in {pc, "idle"}
      /\ linked' \in BOOLEAN /\ (crashes' = crashes \/ (crashes < MaxCrashes /\ crashes' = crashes + 1))
      /\ \/ row' = row
         \/ row' = 0 /\ pc' = "idle" /\ pc = "ok" /\ ask.op = "remove"
         \/ row = 0 /\ row' = ask.new /\ ask.new \in Images /\ pc' = "idle" /\ pc = "ok" /\ ask.op = "install"
  <2>1. BoxesFit' /\ box' = box /\ UNCHANGED <<data, ask, removed, faults, requests, frigateVars>> /\ pc' \in {pc, "idle"}
    BY DEF BoxesFit, Exists
  <2>2. linked' \in BOOLEAN /\ (crashes' = crashes \/ (crashes < MaxCrashes /\ crashes' = crashes + 1))
    BY DEF FrigateTypeOK, SagaTypeOK
  <2>3. Docker(CoreDies) \/ Docker(HelperDies) => row' = row
    OBVIOUS
  <2>4. ASSUME Docker(Answered)
        PROVE  \/ row' = row
               \/ row' = 0 /\ pc' = "idle" /\ pc = "ok" /\ ask.op = "remove"
               \/ row = 0 /\ row' = ask.new /\ ask.new \in Images /\ pc' = "idle" /\ pc = "ok" /\ ask.op = "install"
    <3>1. \/ row' = row
          \/ pc = "ok" /\ ask.op = "remove" /\ row' = 0 /\ pc' = "idle"
          \/ pc = "ok" /\ ask.op = "install" /\ row' = ask.new /\ pc' = "idle"
      BY <2>4
    <3>. QED  BY <3>1 DEF FrigateAsked
  <2>. QED  BY <2>1, <2>2, <2>3, <2>4
<1>. HIDE DEF Docker, Answered, CoreDies, HelperDies, Crash
<1>2. FrigateTypeOK'
  BY <1>1, SagaAssumption DEF FrigateTypeOK, SagaTypeOK
<1>. USE DEF JournalFits, NumbersOf, NoTxn, CopyNeeded, StageFree, Exists, Running, OfUpgrade, Follows, Before,
  Amid, Past, OnlyOld, OldAlone, FrigatePlaces, SetUpPlaces, OpeningPlaces, CopyPlaces, SwapPlaces, SettlePlaces,
  UndoPlaces, ClearPlaces
<1>3. FrigateAsked'
  BY <1>0, <1>1, ExistingBoxes DEF FrigateAsked, JournalsFit
<1>4. JournalsFit'
  BY <1>0, <1>1, ExistingBoxes DEF JournalsFit, FrigateAsked, SettledFits, PendingFits, BackupFits, UpgradingFits
<1>5. OneRuns'
  BY <1>0, <1>1, ExistingBoxes DEF OneRuns, FrigateAsked, JournalsFit, SettledFits, PendingFits, InstallingFits,
    UpgradingFits, UndoingFits
<1>6. SettledFits'
  BY <1>0, <1>1, ExistingBoxes DEF SettledFits, FrigateAsked, JournalsFit, OneRuns, PendingFits, InstallingFits,
    UpgradingFits, UndoingFits
<1>7. PendingFits'
  BY <1>0, <1>1, ExistingBoxes DEF PendingFits, FrigateAsked, JournalsFit, OneRuns, SettledFits, BackupFits,
    UpgradingFits, UndoingFits
<1>8. BackupFits'
  BY <1>0, <1>1, ExistingBoxes DEF BackupFits, FrigateAsked, JournalsFit, PendingFits, UpgradingFits
<1>9. InstallingFits'
  BY <1>0, <1>1, ExistingBoxes DEF InstallingFits, FrigateAsked, SettledFits, OneRuns
<1>10. UpgradingFits'
  BY <1>0, <1>1, ExistingBoxes DEF UpgradingFits, FrigateAsked, JournalsFit, OneRuns, SettledFits, PendingFits
<1>11. UndoingFits'
  BY <1>0, <1>1, ExistingBoxes DEF UndoingFits, FrigateAsked, JournalsFit, OneRuns, SettledFits, PendingFits,
    BackupFits
<1>. QED  BY <1>1, <1>2, <1>3, <1>4, <1>5, <1>6, <1>7, <1>8, <1>9, <1>10, <1>11

(* The steps of an installation.                                           *)
LEMMA InstallFrigateKeeps == ASSUME FrigateInv, Install PROVE FrigateInv'
BY FrigateChecksKeep, PrepareStorageKeeps, FrigateStartsKeep, CreatingMainKeeps, FrigateRemovalsKeep
DEF Install

(* The steps of an upgrade.                                                *)
LEMMA UpgradeFrigateKeeps == ASSUME FrigateInv, Upgrade PROVE FrigateInv'
BY MatchKeeps, FrigateChecksKeep, CreateKeeps, PrepareKeeps, DiscardKeeps, StopOldKeeps, BeginCopyKeeps,
  EndCopyKeeps, JournalCopyKeeps, TryKeeps, RetireKeeps, PromoteKeeps, JournalSwapKeeps
DEF Upgrade

(* The steps of a commit.                                                  *)
LEMMA CommitFrigateKeeps == ASSUME FrigateInv, Commit PROVE FrigateInv'
BY SecondKeeps, FrigateChecksKeep, RemoveOldKeeps, JournalCommitKeeps, ClearBackupKeeps, ClearJournalKeeps
DEF Commit

(* The steps of a recovery.                                                *)
LEMMA RecoverFrigateKeeps == ASSUME FrigateInv, Recover PROVE FrigateInv'
<1>1. ASSUME Drop PROVE FrigateInv'
  BY <1>1, DropOneKeeps, DroppedAllKeeps DEF Drop
<1>2. ASSUME Halt PROVE FrigateInv'
  BY <1>2, HaltOneKeeps DEF Halt
<1>3. ASSUME Name PROVE FrigateInv'
  BY <1>3, NamedKeeps, NameOneKeeps DEF Name
<1>. QED  BY <1>1, <1>2, <1>3, FrigateChecksKeep, SetAsideKeeps, PutBackKeeps, FrigateStartsKeep DEF Recover

(* Every step of Frigate's operations keeps the invariant.                 *)
LEMMA FrigateKeeps == ASSUME FrigateInv, FrigateNext PROVE FrigateInv'
<1>1. ASSUME Control PROVE FrigateInv'
  BY <1>1, ControllingKeeps, FrigateRemovalsKeep DEF Control
<1>2. ASSUME Docker(Migrate) PROVE FrigateInv'
  BY <1>2, MigrateFrigateKeeps
<1>3. ASSUME Docker(Answered) \/ Docker(CoreDies) \/ Docker(HelperDies) PROVE FrigateInv'
  BY <1>3, AroundFrigateKeeps
<1>. QED  BY <1>1, <1>2, <1>3, AskFrigateKeeps, InstallFrigateKeeps, UpgradeFrigateKeeps, CommitFrigateKeeps,
             RecoverFrigateKeeps
          DEF FrigateNext

(* An installed Frigate, or none, satisfies it.                            *)
LEMMA FrigateStarts == ASSUME FrigateInit PROVE FrigateInv
<1>. USE DEF FrigateInit, Names
<1>0. /\ SagaTypeOK /\ BoxesFit /\ ~Exists("candidate") /\ ~Exists("previous") /\ ~Running("candidate") /\ ~Running("previous")
      /\ IF row = 1 THEN Exists("main") /\ box["main"].image = 1 /\ box["main"].dir = 1
                    ELSE ~Exists("main") /\ ~Running("main")
  BY FirstBoxes
<1>1. /\ pc = "idle" /\ row \in {0, 1} /\ data[Config] = row /\ disk = NoTxn /\ mem = NoTxn /\ backup = 0 /\ ~Pending
      /\ disk.phase = "none" /\ ask = [op |-> "none", new |-> 1, old |-> 1]
  BY SagaAssumption DEF SagaInit, Config, Pending, NoTxn
<1>2. FrigateTypeOK
  BY <1>0, <1>1, TxnTypes DEF FrigateTypeOK
<1>3. FrigateAsked
  BY <1>1, SagaAssumption DEF FrigateAsked, FrigatePlaces, SetUpPlaces, OpeningPlaces, CopyPlaces, SwapPlaces,
    SettlePlaces, UndoPlaces, ClearPlaces
<1>4. JournalsFit
  BY <1>1 DEF JournalsFit, JournalFits, CopyPlaces, SwapPlaces, SettlePlaces, UndoPlaces, ClearPlaces
<1>5. OneRuns
  BY <1>0, <1>1 DEF OneRuns, Config
<1>6. SettledFits
  BY <1>0, <1>1 DEF SettledFits
<1>7. PendingFits
  BY <1>1 DEF PendingFits
<1>8. BackupFits
  BY <1>1 DEF BackupFits, SwapPlaces, UndoPlaces
<1>9. InstallingFits /\ UpgradingFits /\ UndoingFits
  BY <1>1 DEF InstallingFits, UpgradingFits, UndoingFits, CopyPlaces, SwapPlaces, ClearPlaces
<1>. QED  BY <1>0, <1>2, <1>3, <1>4, <1>5, <1>6, <1>7, <1>8, <1>9 DEF FrigateInv

(* Checks, the journal and the copies move no container.                   *)
LEMMA FrigateFilesStay ==
  ASSUME FrigateInv, StillThere,
         \/ Adopt \/ PrepareStorage \/ Docker(Check("resumed", Running("main"), "ok", "error"))
         \/ Docker(Check("watching_main", Running("main"), "ok", "discarding_main"))
         \/ Match \/ Verify \/ Prepare \/ BeginCopy \/ EndCopy \/ JournalCopy \/ Watch \/ JournalSwap \/ Confirm
         \/ Finish \/ Compensate \/ CheckNew \/ JournalCommit \/ ClearBackup \/ ClearJournal
         \/ Survey \/ SetAside \/ PutBack \/ Recheck \/ Reconcile \/ Docker(Migrate)
         \/ Docker(Check("dropping", TRUE, "halting", "error")) \/ Docker(Check("naming", TRUE, "reviving", "error"))
  PROVE  StillThere'
<1>1. Frame /\ box' = box /\ (pc' # "idle" => pc # "idle")
  BY DEF Adopt, PrepareStorage, Match, Verify, Prepare, BeginCopy, EndCopy, JournalCopy, Watch, JournalSwap, Confirm,
    Finish, Compensate, CheckNew, JournalCommit, ClearBackup, ClearJournal, Survey, SetAside, PutBack, Recheck,
    Reconcile, Migrate, Journal, Docker, Write, Check, Command
<1>2. Present => Present'
  BY <1>1 DEF Present, Exists
<1>. QED  BY <1>1, <1>2, CommandStill
(* Starting, stopping, creating and renaming take none from its name.      *)
LEMMA FrigateCommandsStay ==
  ASSUME FrigateInv, StillThere,
         \/ Docker(Command("adopted", Exists("main"), Started("main"), "resumed", "error"))
         \/ Docker(Command("creating_main", data[Config] # 0,
                           [box EXCEPT !["main"] = Created(ask.new, Config)], "starting_main", "error"))
         \/ Docker(Command("starting_main", Exists("main"), Started("main"), "watching_main", "discarding_main"))
         \/ Docker(Command("controlling", Exists("main") /\ (ask.op = "stop" \/ data[Config] # 0),
                           IF ask.op = "stop" THEN Stopped("main") ELSE Started("main"), "ok", "error"))
         \/ Create \/ Discard \/ StopOld \/ Try \/ Retire \/ Promote \/ Halt \/ Revive
         \/ \E n \in OldNames \ {"main"} :
              Docker(Command("naming", CanRename(n, "main"), Renamed(n, "main"), "reviving", "error"))
  PROVE  StillThere'
<1>. USE DEF Docker, Command
<1>1. Frame /\ pc # "idle"
  BY DEF Create, Discard, StopOld, Try, Retire, Promote, Halt, Revive
<1>2. Harmless
  <2>. USE DEF Names
  <2>1. \/ box' = box \/ box' = Removed("candidate")
        \/ Exists("main") /\ box' \in {Started("main"), Stopped("main")}
        \/ Exists("candidate") /\ box' = Started("candidate")
        \/ \E n \in OldNames : box' = Stopped(n)
        \/ \E n \in {"main", "candidate"} : box' = [box EXCEPT ![n] = Created(ask.new, Config)]
        \/ CanRename("main", "previous") /\ box' = Renamed("main", "previous")
        \/ \E n \in Names : CanRename(n, "main") /\ box' = Renamed(n, "main")
    BY DEF Create, Discard, StopOld, Try, Retire, Promote, Halt, Revive, OldNames
  <2>2. ask.new \in Images /\ Config \in Dirs
    BY SagaAssumption DEF FrigateInv, FrigateAsked, Config
  <2>. QED  BY <2>1, <2>2 DEF Harmless, OldNames
<1>3. Present => Present'
  BY <1>2, HarmlessKeeps DEF FrigateInv
<1>. QED  BY <1>1, <1>3, CommandStill
(* A container is removed on request, before it is registered, once the    *)
(* registered one serves, or while the registered one is kept for undoing. *)
LEMMA FrigateRemovalsStay ==
  ASSUME FrigateInv, StillThere,
         \/ Docker(Command("discarding_main", TRUE, Removed("main"), "error", "error"))
         \/ Docker(Command("removing", TRUE, Removed("main"), "ok", "error"))
         \/ RemoveOld
         \/ \E n \in NewNames : Docker(Command("dropping", TRUE, Removed(n), "dropping", "error"))
  PROVE  StillThere'
<1>. USE DEF Docker, Command
<1>0. NumbersOf
  BY FrigateNumbers
<1>1. Frame /\ pc # "idle"
  BY DEF RemoveOld
<1>2. CASE pc \in {"discarding_main", "removing"}
  <2>1. row # 0 => removed
    BY <1>2 DEF FrigateInv, FrigateAsked, SetUpPlaces, StillThere
  <2>. QED  BY <1>1, <2>1, CommandStill
<1>3. CASE RemoveOld
  <2>1. box' \in {box, Removed("previous")} /\ pc = "removing_old"
    BY <1>3 DEF RemoveOld
  <2>2. ASSUME Present PROVE Exists("main")
    <3>1. disk.phase \in {"swapped", "committed"} /\ row = disk.new
      BY <2>1 DEF FrigateInv, JournalsFit, SettlePlaces
    <3>2. CASE disk.phase = "committed"
      BY <2>2, <3>2 DEF FrigateInv, SettledFits, Pending, Present
    <3>3. CASE disk.phase = "swapped"
      <4>1. box["main"].image = disk.new /\ disk.new # 0
        BY <1>0, <3>1, <3>3, ImagesAre DEF FrigateInv, PendingFits, Pending, JournalsFit, JournalFits, NoTxn
      <4>. QED  BY <4>1 DEF Exists, Absent
    <3>. QED  BY <3>1, <3>2, <3>3
  <2>3. box'["main"] = box["main"]
    BY <2>1, RemovedBoxes DEF FrigateInv, Names
  <2>4. Present => Present'
    BY <2>2, <2>3 DEF Present, Exists
  <2>. QED  BY <1>1, <2>4, CommandStill
<1>4. CASE \E n \in NewNames : Docker(Command("dropping", TRUE, Removed(n), "dropping", "error"))
  <2>1. PICK n \in NewNames : pc = "dropping" /\ box' \in {box, Removed(n)}
    BY <1>4
  <2>2. n \in Names /\ box[n].image = disk.new /\ disk.old < disk.new /\ disk.old \in Images
    BY <1>0, <2>1 DEF NewNames, FrigateInv, JournalsFit, JournalFits, Follows, UndoPlaces, NumbersOf, Pending, NoTxn
  <2>3. PICK m \in {"main", "previous"} : box[m].image = disk.old
    BY <2>1 DEF FrigateInv, JournalsFit, Follows, UndoPlaces, PendingFits, Before, Amid, Past
  <2>4. m # n /\ disk.old # 0
    BY <1>0, <2>2, <2>3, ImagesAre DEF NumbersOf
  <2>5. box'[m] = box[m]
    BY <2>1, <2>2, <2>4, RemovedBoxes DEF FrigateInv, Names
  <2>6. Present'
    BY <2>3, <2>4, <2>5 DEF Present, Exists, Absent
  <2>. QED  BY <1>1, <2>6, CommandStill
<1>. QED  BY <1>2, <1>3, <1>4
(* Every step of Frigate's operations.                                     *)
LEMMA FrigateStaysThere == ASSUME FrigateInv, StillThere, FrigateNext PROVE StillThere'
<1>1. CASE AskFrigate
  <2>1. box' = box /\ row' = row /\ (ask'.op = "install" => row = 0)
    BY <1>1 DEF AskFrigate, FrigateAsk, Ask
  <2>2. Remembered
    BY <1>1 DEF Remembered, AskFrigate, FrigateAsk, Ask
  <2>. QED  BY <2>1, <2>2, AskStill
<1>2. CASE Docker(Answered) \/ Docker(CoreDies) \/ Docker(HelperDies)
  <2>1. Answered \/ CoreDies \/ HelperDies
    BY <1>2 DEF Docker
  <2>2. ASSUME pc = "ok", ask.op = "install" PROVE Exists("main")
    <3>1. box["main"].image = ask.new /\ ask.new # 0
      BY <2>2, FrigateNumbers DEF FrigateInv, InstallingFits, NumbersOf
    <3>. QED  BY <3>1 DEF Exists, Absent
  <2>. QED  BY <2>1, <2>2, AnswerStill
<1>3. CASE Second
  <2>1. /\ pc = "ok" /\ ask.op = "upgrade" /\ box' = box /\ removed' = removed
        /\ ask' \in {[ask EXCEPT !.op = "commit"], [ask EXCEPT !.op = "rollback"]}
    BY <1>3 DEF Second, Registered
  <2>2. ask'.op # "remove"
    BY <2>1 DEF FrigateInv, FrigateAsked
  <2>3. row # 0
    BY <2>1, FrigateNumbers DEF FrigateInv, FrigateAsked, NumbersOf
  <2>. QED  BY <2>1, <2>2, <2>3, SecondStill
<1>4. CASE Install
  BY <1>4, FrigateFilesStay, FrigateCommandsStay, FrigateRemovalsStay DEF Install
<1>5. CASE Control
  BY <1>5, FrigateCommandsStay, FrigateRemovalsStay DEF Control
<1>6. CASE Upgrade
  BY <1>6, FrigateFilesStay, FrigateCommandsStay DEF Upgrade
<1>7. CASE Commit
  BY <1>3, <1>7, FrigateFilesStay, FrigateRemovalsStay DEF Commit
<1>8. CASE Recover
  BY <1>8, FrigateFilesStay, FrigateCommandsStay, FrigateRemovalsStay DEF Recover, Drop, Name
<1>. QED  BY <1>1, <1>2, <1>4, <1>5, <1>6, <1>7, <1>8, FrigateFilesStay DEF FrigateNext

(* What the run checks follows.                                            *)
LEMMA FrigatePromises ==
  ASSUME FrigateInv, StillThere
  PROVE  /\ FrigateTypeOK /\ OneWriter /\ RegisteredImageKept(Pending) /\ OldCodeOnItsData
         /\ OldDataKept /\ CommitIsFinal /\ ask.op # "apply"
<1>. USE DEF FrigateInv, Names
<1>0. NumbersOf
  BY FrigateNumbers
<1>1. OneWriter
  BY DEF OneWriter, OneRuns
<1>2. OldCodeOnItsData
  <2>. SUFFICES ASSUME NEW n \in Names, Running(n) PROVE data[box[n].dir] <= box[n].image
    BY DEF OldCodeOnItsData
  <2>1. box[n].dir = Config /\ data[Config] \in 1..box[n].image
    BY ExistingBoxes DEF OneRuns
  <2>. QED  BY <1>0, <2>1 DEF NumbersOf
<1>3. RegisteredImageKept(Pending)
  <2>. SUFFICES ASSUME row # 0, Exists("main") \/ Exists("previous")
                PROVE  \E n \in Names : box[n].image = row /\ (data[box[n].dir] \in 1..row \/ Pending)
    BY DEF RegisteredImageKept, StillThere, Present
  <2>1. CASE Pending
    BY <2>1 DEF PendingFits, Before, Amid, Past
  <2>2. CASE ~Pending
    BY <2>2, ExistingBoxes DEF SettledFits, OneRuns
  <2>. QED  BY <2>1, <2>2
<1>4. OldDataKept
  <2>. SUFFICES ASSUME Pending, row = disk.old
                PROVE  backup \in 1..disk.old \/ data[Config] \in 1..disk.old
    BY DEF OldDataKept
  <2>1. CASE disk.phase = "prepared"
    BY <1>0, <2>1 DEF PendingFits, NumbersOf
  <2>2. CASE disk.phase # "prepared"
    BY <1>0, <2>2 DEF PendingFits, JournalsFit, JournalFits, NumbersOf, Pending, NoTxn
  <2>. QED  BY <2>1, <2>2
<1>5. CommitIsFinal
  BY DEF CommitIsFinal, SettledFits, Pending, StageFree
<1>6. ask.op # "apply"
  BY DEF FrigateAsked
<1>. QED  BY <1>1, <1>2, <1>3, <1>4, <1>5, <1>6

(***************************************************************************)
(* The parts beside each other.                                            *)
(***************************************************************************)
ContainersInv ==
  \/ part = "frigate" /\ FrigateInv /\ StillThere /\ NoHA /\ NoAI /\ NoNVR
  \/ part = "home assistant" /\ HAInv /\ StillThere /\ NoFrigate /\ NoAI /\ NoNVR
  \/ part = "ai" /\ AIInv /\ NoFrigate /\ NoHA /\ NoNVR
  \/ part = "recorder" /\ NVRInv /\ RecorderStays /\ NoFrigate /\ NoHA /\ NoAI

(* Nothing is lost by doing nothing.                                       *)
LEMMA FrigateStays == ASSUME FrigateInv, UNCHANGED <<sagaVars, frigateVars>> PROVE FrigateInv'
<1>. USE DEF sagaVars, frigateVars
<1>1. /\ box' = box /\ data' = data /\ pc' = pc /\ ask' = ask /\ row' = row /\ removed' = removed /\ linked' = linked
      /\ faults' = faults /\ crashes' = crashes /\ requests' = requests
      /\ backup' = backup /\ disk' = disk /\ mem' = mem /\ aside' = aside
  OBVIOUS
<1>2. FrigateTypeOK' /\ BoxesFit' /\ FrigateAsked'
  BY <1>1 DEF FrigateInv, FrigateTypeOK, SagaTypeOK, BoxesFit, Exists, FrigateAsked, Pending
<1>3. JournalsFit' /\ OneRuns' /\ SettledFits'
  BY <1>1 DEF FrigateInv, JournalsFit, JournalFits, OfUpgrade, Follows, Pending, OneRuns, SettledFits, Exists,
    Running
<1>4. PendingFits' /\ BackupFits'
  BY <1>1 DEF FrigateInv, PendingFits, BackupFits, Pending, Before, Amid, Past, OldAlone, CopyNeeded, Exists,
    Running
<1>5. InstallingFits' /\ UpgradingFits' /\ UndoingFits'
  BY <1>1 DEF FrigateInv, InstallingFits, UpgradingFits, UndoingFits, Pending, Before, Amid, Past, OldAlone,
    OnlyOld,
    CopyNeeded, StageFree, Exists, Running
<1>. QED  BY <1>2, <1>3, <1>4, <1>5 DEF FrigateInv

(* What another module's step leaves alone, it leaves true.                *)
LEMMA HAStays == ASSUME HAInv, UNCHANGED <<sagaVars, haVars>> PROVE HAInv'
<1>. USE DEF sagaVars, haVars
<1>1. /\ box' = box /\ data' = data /\ pc' = pc /\ ask' = ask /\ row' = row /\ removed' = removed /\ linked' = linked
      /\ faults' = faults /\ crashes' = crashes /\ requests' = requests
      /\ active' = active /\ old' = old /\ fresh' = fresh
  OBVIOUS
<1>2. HATypeOK' /\ BoxesFit' /\ HAAsked'
  BY <1>1 DEF HAInv, HATypeOK, SagaTypeOK, BoxesFit, Exists, HAAsked
<1>3. DirectoriesFit' /\ CastFits'
  BY <1>1 DEF HAInv, DirectoriesFit, CastFits, IsOld, Of, StageFree, Exists
<1>4. Newest' = Newest
  BY <1>1 DEF Newest
<1>5. UpgradeFits'
  BY <1>1, <1>4 DEF HAInv, UpgradeFits, Beside, Both, Goes, IsOld, Of, StageFree, Exists, Running
<1>6. FinishFits' /\ InstallFits'
  BY <1>1 DEF HAInv, FinishFits, InstallFits, Beside, Both, Goes, IsOld, Of, StageFree, Exists
<1>. QED  BY <1>2, <1>3, <1>5, <1>6 DEF HAInv

(* The same of the assignment of the GPU.                                  *)
LEMMA AIStays == ASSUME AIInv, UNCHANGED <<sagaVars, aiVars>> PROVE AIInv'
<1>. USE DEF sagaVars, aiVars
<1>1. /\ box' = box /\ data' = data /\ pc' = pc /\ ask' = ask /\ row' = row /\ removed' = removed /\ linked' = linked
      /\ faults' = faults /\ crashes' = crashes /\ requests' = requests
      /\ cached' = cached /\ moved' = moved /\ ready' = ready
  OBVIOUS
<1>. QED  BY <1>1 DEF AIInv, AITypeOK, SagaTypeOK, BoxesFit, AgentFits, AgentStays, CandidateFits, FailuresFit,
            AppliedIsServed, StageFree, Exists, Running

(* The same of the recorder.                                               *)
LEMMA NVRStays == ASSUME NVRInv, UNCHANGED <<sagaVars, nvrVars>> PROVE NVRInv'
<1>. USE DEF sagaVars, nvrVars
<1>1. /\ box' = box /\ data' = data /\ pc' = pc /\ ask' = ask /\ row' = row /\ removed' = removed /\ linked' = linked
      /\ faults' = faults /\ crashes' = crashes /\ requests' = requests
      /\ path' = path /\ place' = place /\ bound' = bound /\ plugged' = plugged /\ assigned' = assigned
      /\ recording' = recording /\ seen' = seen /\ moves' = moves
  OBVIOUS
<1>. QED  BY <1>1 DEF NVRInv, SagaTypeOK, BoxesFit, RecorderFits, PathFits, DiskFits, SeenFits, WholeAt, Exists,
  Running

(* The four modules start in their invariants.                             *)
LEMMA ContainersStart == ASSUME ContainersInit PROVE ContainersInv
<1>1. SagaInit => pc = "idle" /\ StillThere
  BY FirstBoxes DEF StillThere, Present, SagaInit
<1>2. SagaInit => RecorderStays
  BY <1>1 DEF RecorderStays, SagaInit
<1>. QED  BY <1>1, <1>2, FrigateStarts, HAStarts, AIStarts, NVRStarts
          DEF ContainersInit, ContainersInv, FrigateInit, HAInit, NVRInit

(* A step of one module keeps the invariants of all four.                  *)
LEMMA ContainersKeep == ASSUME ContainersInv, [ContainersNext]_containerVars PROVE ContainersInv'
<1>1. /\ NoFrigate /\ UNCHANGED frigateVars => NoFrigate'
      /\ NoHA /\ UNCHANGED haVars => NoHA'
      /\ NoAI /\ UNCHANGED aiVars => NoAI'
      /\ NoNVR /\ UNCHANGED nvrVars => NoNVR'
  BY DEF NoFrigate, NoHA, NoAI, NoNVR, frigateVars, haVars, aiVars, nvrVars
<1>2. CASE ContainersNext
  <2>1. CASE part = "frigate"
    BY <1>1, <1>2, <2>1, FrigateKeeps, FrigateStaysThere DEF ContainersInv, ContainersNext
  <2>2. CASE part = "home assistant"
    BY <1>1, <1>2, <2>2, HAKeeps, HAStaysThere DEF ContainersInv, ContainersNext
  <2>3. CASE part = "ai"
    BY <1>1, <1>2, <2>3, AIKeeps DEF ContainersInv, ContainersNext
  <2>4. CASE part = "recorder"
    BY <1>1, <1>2, <2>4, NVRKeeps, RecorderStaysThere DEF ContainersInv, ContainersNext
  <2>. QED  BY <2>1, <2>2, <2>3, <2>4 DEF ContainersInv
<1>3. CASE UNCHANGED containerVars
  <2>1. UNCHANGED <<part, sagaVars, frigateVars, haVars, aiVars, nvrVars>>
    BY <1>3 DEF containerVars
  <2>2. (StillThere => StillThere') /\ (RecorderStays => RecorderStays')
    BY <2>1 DEF StillThere, RecorderStays, Present, Exists, sagaVars
  <2>. QED  BY <1>1, <2>1, <2>2, FrigateStays, HAStays, AIStays, NVRStays DEF ContainersInv
<1>. QED  BY <1>2, <1>3

(* Hence they hold of every behaviour of the four.                         *)
LEMMA ContainersStay == ContainersSpec => []ContainersInv
<1>1. ContainersInit => ContainersInv
  BY ContainersStart
<1>2. ContainersInv /\ [ContainersNext]_containerVars => ContainersInv'
  BY ContainersKeep
<1>. QED  BY <1>1, <1>2, PTL DEF ContainersSpec

(* What holds of a part whose own variables do not move.                   *)
LEMMA IdleParts ==
  /\ NoFrigate => ~Pending /\ OldDataKept /\ CommitIsFinal
  /\ NoHA => ActiveIsTrue
  /\ ask.op # "apply" => AppliedIsServed
BY DEF NoFrigate, NoHA, Pending, NoTxn, OldDataKept, CommitIsFinal, ActiveIsTrue, AppliedIsServed

(* "never restarts old code on migrated data": through every upgrade,      *)
(* rollback, recovery and death of the helper no container runs on data    *)
(* newer than its image, the data of a registered image are in the         *)
(* directory or in a verified copy, and a running recorder has all it      *)
(* recorded (docker_frigate.go, docker_homeassistant_upgrade.go,           *)
(* docker_module_storage.go).                                              *)
THEOREM DataAlwaysFitCode == ContainersSpec => []DataFitsCode
<1>1. ContainersInv => DataFitsCode
  BY IdleParts, FrigatePromises, HAPromises, AIPromises, NVRPromises
  DEF ContainersInv, RecorderStays, DataFitsCode, ContainersTypeOK
<1>. QED  BY <1>1, ContainersStay, PTL

(* Two containers never write one directory at a time; of the AI Agent,    *)
(* as long as nothing died and at most one command failed.                 *)
THEOREM OneWriterStays == ContainersSpec => []OneWriterOfData
<1>1. ContainersInv => OneWriterOfData
  BY FrigatePromises, HAPromises, AIPromises, NVRPromises DEF ContainersInv, RecorderStays, OneWriterOfData
<1>. QED  BY <1>1, ContainersStay, PTL

(* Whatever fails or dies, some container has the image that Core has      *)
(* registered, or one of the AI Agent's two, unless the module's removal   *)
(* was asked for (haRestorePrevious, recoverFrigateTransaction,            *)
(* applyAIGPUSelection's rollback).                                        *)
THEOREM RegisteredStays == ContainersSpec => []RegisteredKept
<1>1. ContainersInv => RegisteredKept
  <2>1. ASSUME part = "frigate", FrigateInv, StillThere PROVE RegisteredKept
    BY <2>1, FrigatePromises DEF RegisteredKept, RegisteredImageKept
  <2>2. ASSUME part = "home assistant", HAInv, StillThere PROVE RegisteredKept
    BY <2>2, HAPromises DEF RegisteredKept, RegisteredImageKept
  <2>3. ASSUME part = "ai", AIInv PROVE RegisteredKept
    BY <2>3, AIPromises DEF RegisteredKept
  <2>4. ASSUME part = "recorder", NVRInv, StillThere PROVE RegisteredKept
    BY <2>4, NVRPromises DEF RegisteredKept, RegisteredImageKept
  <2>. QED  BY <2>1, <2>2, <2>3, <2>4 DEF ContainersInv, RecorderStays
<1>. QED  BY <1>1, ContainersStay, PTL

(* The journal, active.json and the answers of the helper say what is so:  *)
(* committed only once registered and alone, active.json the image that    *)
(* serves, an applied GPU mode and an activated disk in use.               *)
THEOREM RecordsStayTrue == ContainersSpec => []RecordsAreTrue
<1>1. ContainersInv => RecordsAreTrue
  BY IdleParts, FrigatePromises, HAPromises, AIPromises, NVRPromises DEF ContainersInv, RecorderStays, RecordsAreTrue
<1>. QED  BY <1>1, ContainersStay, PTL
================================================================================
