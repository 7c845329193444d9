----------------------------- MODULE UpdateSource -----------------------------
(***************************************************************************)
(* Where Core's own updates come from (internal/updater/service.go): what  *)
(* a check makes of the published releases and remembers, the download of  *)
(* one release file by file while its assets may be replaced, and the      *)
(* second verification in the helper (update_trust.go).  CoreUpdater has   *)
(* the races of the phases and the installation itself, which is one step  *)
(* here.                                                                   *)
(*                                                                         *)
(* Versions are numbered in the order of compareVersions, the builds of a  *)
(* version by their bytes: an asset is the number of the build it is of, 0 *)
(* when it is missing, too large or a draft's.                             *)
(***************************************************************************)
EXTENDS Naturals

CONSTANTS
  CoreVersions,   (* published versions                                    *)
  Builds,         (* what a version's bundle may contain                   *)
  MaxUploads,     (* bound: changes of what is published                   *)
  MaxLosses       (* bound: files not written and deaths of Core           *)

Torn == 99          (* an extraction that was cut off                        *)

ASSUME SourceAssumption ==
  /\ CoreVersions \subseteq Nat \ {0} /\ 1 \in Builds /\ Builds \subseteq Nat \ {0, Torn}
  /\ \A S \in SUBSET CoreVersions : S # {} => \E v \in S : \A w \in S : w <= v
  /\ MaxUploads \in Nat /\ MaxLosses \in Nat

VARIABLES
  shelf,      (* the release of each version, asset by asset               *)
  named,      (* what VERSION on the main branch says                      *)
  unfit,      (* builds whose manifest is of another version or platform,  *)
              (* or that have other files than it lists                    *)
  core,       (* the Service: version, phase, offered version; its download*)
  offer,      (* checkCache                                                *)
  offerFile,  (* release-status.json                                       *)
  stateFile,  (* state.json: phase and offered version                     *)
  store,      (* the files of each version in the update directory         *)
  build,      (* the build that runs                                       *)
  kept,       (* the helper's backup: a version and its build              *)
  uploads, losses, unsaved

sourceVars ==
  <<shelf, named, unfit, core, offer, offerFile, stateFile, store, build, kept,
    uploads, losses, unsaved>>

Assets  == {"bundle", "sum", "sig"}
NoOffer == [current |-> 0, version |-> 0]
NoBackup == [version |-> 0, build |-> 0]
NoFiles == [archive |-> 0, sum |-> 0, sig |-> 0, prepared |-> 0]
Busy    == {"downloading", "ready", "installing", "rolling_back", "restarting"}

Lose == losses < MaxLosses /\ losses' = losses + 1

-----------------------------------------------------------------------------
Highest(S) == IF S = {} THEN 0 ELSE CHOOSE v \in S : \A w \in S : w <= v

(* The publisher of the newest version: assets are uploaded one by one,    *)
(* taken away or replaced, and VERSION may be pushed before any of them.   *)
Publishing ==
  LET newest == Highest(CoreVersions) IN
  /\ uploads < MaxUploads /\ uploads' = uploads + 1
  /\ \/ \E a \in Assets, b \in Builds \cup {0} :
          shelf[newest][a] # b /\ shelf' = [shelf EXCEPT ![newest][a] = b] /\ UNCHANGED named
     \/ named # newest /\ named' = newest /\ UNCHANGED shelf
  /\ UNCHANGED <<unfit, core, offer, offerFile, stateFile, store, build, kept, losses, unsaved>>

(* findCandidate, by the list of releases, and by VERSION when the list    *)
(* does not answer: then nobody asks whether the bundle is there.          *)
Later(v) == v > core.version
FromReleases(wanted) ==
  Highest({v \in CoreVersions : Later(v) /\ wanted \in {0, v} /\ \A a \in Assets : shelf[v][a] # 0})
FromVersion(wanted) ==
  Highest({v \in {named} : Later(v) /\ wanted \in {0, v} /\ \A a \in {"sum", "sig"} : shelf[v][a] # 0})
FindCandidate(wanted, source) ==
  IF source = "releases" THEN FromReleases(wanted) ELSE FromVersion(wanted)
Sources == {"releases", "version", "none"}

-----------------------------------------------------------------------------
(* setState: the file may stay as it was.                                  *)
SetCore(c) ==
  /\ core' = c
  /\ \/ stateFile' = [phase |-> c.phase, version |-> c.offered] /\ UNCHANGED <<losses, unsaved>>
     \/ UNCHANGED stateFile /\ Lose /\ unsaved' = TRUE

(* A check that asks (a recent answer is repeated without one): an         *)
(* unanswered one leaves the last known offer, of any age.  What an        *)
(* operation is doing stays as it is.                                      *)
CheckRelease ==
  \E source \in Sources :
    /\ IF source = "none"
       THEN /\ UNCHANGED <<offer, offerFile>>
            /\ IF core.phase \in Busy \/ offer # NoOffer
               THEN UNCHANGED <<core, stateFile, losses, unsaved>>
               ELSE SetCore([core EXCEPT !.phase = "idle", !.offered = 0])
       ELSE LET v == FindCandidate(0, source) IN
            /\ offer' = [current |-> core.version, version |-> v]
            /\ IF core.phase \in Busy
               THEN /\ UNCHANGED <<core, stateFile, unsaved>>
                    /\ \/ offerFile' = offer' /\ UNCHANGED losses
                       \/ UNCHANGED offerFile /\ Lose
               ELSE /\ SetCore([core EXCEPT !.phase = IF v = 0 THEN "idle" ELSE "available", !.offered = v])
                    /\ offerFile' \in {offer'} \cup (IF unsaved' THEN {offerFile} ELSE {})
    /\ UNCHANGED <<shelf, named, unfit, store, build, kept, uploads>>

-----------------------------------------------------------------------------
(* Download, under opMu.                                                   *)
FailedUpdate == [core EXCEPT !.phase = "failed", !.step = "idle", !.hash = 0]

DownloadFrame == UNCHANGED <<shelf, named, unfit, offer, offerFile, build, kept, uploads>>

(* One step: it succeeds and changes the files of the version, or anything *)
(* on its way fails.                                                       *)
Transfer(step, holds, files, next) ==
  /\ core.step = step /\ DownloadFrame
  /\ \/ /\ holds /\ store' = [store EXCEPT ![core.offered] = files]
        /\ core' = next /\ UNCHANGED <<stateFile, losses, unsaved>>
     \/ ~holds /\ SetCore(FailedUpdate) /\ UNCHANGED store
     \/ SetCore(FailedUpdate) /\ UNCHANGED store

At(step) == [core EXCEPT !.step = step]
Files == store[core.offered]

StartDownload(version) ==
  /\ core.step = "idle"
  /\ \E source \in Sources :
       IF source = "none" \/ FindCandidate(version, source) = 0
       THEN SetCore(FailedUpdate)
       ELSE SetCore([core EXCEPT !.phase = "downloading", !.offered = version, !.step = "checksum"])
  /\ UNCHANGED store /\ DownloadFrame

FetchChecksum ==
  LET sum == shelf[core.offered].sum IN
  Transfer("checksum", sum # 0, Files, [At("signature") EXCEPT !.hash = sum])

(* The signature is of the checksum file that was just read.               *)
VerifySignature ==
  Transfer("signature", shelf[core.offered].sig = core.hash, Files, At("archive"))

(* downloadArchive renames into place what has the hash of the checksum.   *)
(* A bug: only the size is compared.                                       *)
ArchiveAnyHash ==
  LET bundle == shelf[core.offered].bundle IN
  Transfer("archive", bundle # 0, [Files EXCEPT !.archive = bundle], At("saving checksum"))
FetchArchive ==
  LET bundle == shelf[core.offered].bundle IN
  Transfer("archive", bundle = core.hash, [Files EXCEPT !.archive = bundle], At("saving checksum"))

SaveChecksum  == Transfer("saving checksum", TRUE, [Files EXCEPT !.sum = core.hash], At("saving signature"))
SaveSignature == Transfer("saving signature", TRUE, [Files EXCEPT !.sig = core.hash], At("clearing"))
ClearPrepared == Transfer("clearing", TRUE, [Files EXCEPT !.prepared = 0], At("extracting"))
Extract       == Transfer("extracting", TRUE, [Files EXCEPT !.prepared = Torn], At("verifying"))

(* extractAndVerifyBundle: every file the manifest lists, and no other.    *)
VerifyBundle ==
  /\ core.step = "verifying" /\ DownloadFrame
  /\ \/ /\ Files.archive \notin unfit
        /\ store' = [store EXCEPT ![core.offered].prepared = Files.archive]
        /\ SetCore([core EXCEPT !.phase = "ready", !.step = "idle", !.hash = 0])
     \/ /\ store' = [store EXCEPT ![core.offered].prepared = 0]
        /\ SetCore(FailedUpdate)

Downloading ==
  FetchChecksum \/ VerifySignature \/ FetchArchive \/ SaveChecksum \/ SaveSignature
    \/ ClearPrepared \/ Extract \/ VerifyBundle

-----------------------------------------------------------------------------
(* Install: VerifyPreparedBundle, then the helper is asked.                *)
PreparedFits == Files.prepared \notin {0, Torn} \cup unfit
InstallPrepared ==
  /\ core.step = "idle" /\ core.phase = "ready"
  /\ IF PreparedFits
     THEN SetCore([core EXCEPT !.phase = "installing", !.step = "handed over"])
     ELSE SetCore(FailedUpdate)
  /\ UNCHANGED store /\ DownloadFrame

(* stageSignedUpdate: the helper trusts no file Core wrote before its hash *)
(* is the signed one.                                                      *)
Staged(f) == f.sum # 0 /\ f.sig = f.sum /\ f.archive = f.sum /\ f.archive \notin unfit

(* loadReleaseStatusCache, when a version of Core starts.                  *)
(* A bug: the file is believed whichever version wrote it.                 *)
LoadedAny(version) == offerFile
Loaded(version) == IF offerFile.current = version THEN offerFile ELSE NoOffer

(* New: a Core starts from state.json, and reconcileInstallResult tells    *)
(* what the helper has left, if it is about the version the file names.    *)
Restarted(version, state) ==
  /\ core' = [version |-> version, phase |-> state.phase, offered |-> state.version,
              step |-> "idle", hash |-> 0]
  /\ offer' = Loaded(version)
  /\ \/ stateFile' = state /\ UNCHANGED <<losses, unsaved>>
     \/ UNCHANGED stateFile /\ Lose /\ unsaved' = TRUE

Reported(phase, version, heeded) ==
  IF stateFile.version \in heeded THEN [phase |-> phase, version |-> version] ELSE stateFile

Succeeds(version) == Restarted(version, Reported("succeeded", version, {0, version}))

(* The helper gives up, before it has stopped Core or after.               *)
GivesUp ==
  /\ \/ SetCore(FailedUpdate) /\ UNCHANGED offer
     \/ Restarted(core.version, Reported("failed", core.offered, {core.offered}))
  /\ UNCHANGED build

(* performInstall removes the old backup before it makes one of what runs, *)
(* and keeps this one when the installation fails after it.                *)
WhatRuns == [version |-> core.version, build |-> build]

HelperInstalls ==
  /\ core.step = "handed over"
  /\ \/ Staged(Files) /\ Succeeds(core.offered) /\ build' = Files.archive /\ kept' = WhatRuns
     \/ GivesUp /\ kept' \in {kept} \cup IF Staged(Files) THEN {NoBackup, WhatRuns} ELSE {}
  /\ UNCHANGED <<shelf, named, unfit, offerFile, store, uploads>>

(* Rollback to what the helper has kept, which it keeps: the same version  *)
(* can be gone back to again, also from itself.                            *)
RollBack ==
  /\ core.step = "idle" /\ kept.version # 0
  /\ SetCore([core EXCEPT !.phase = "rolling_back", !.offered = kept.version, !.step = "handed back"])
  /\ UNCHANGED store /\ DownloadFrame

HelperRollsBack ==
  /\ core.step = "handed back"
  /\ (Succeeds(kept.version) /\ build' = kept.build) \/ GivesUp
  /\ UNCHANGED <<shelf, named, unfit, offerFile, store, kept, uploads>>

UpdateCoreDies ==
  /\ core.step \notin {"handed over", "handed back"} /\ Lose
  /\ core' = [core EXCEPT !.phase = stateFile.phase, !.offered = stateFile.version,
                          !.step = "idle", !.hash = 0]
  /\ offer' = Loaded(core.version)
  /\ UNCHANGED <<shelf, named, unfit, offerFile, stateFile, store, build, kept, uploads, unsaved>>

-----------------------------------------------------------------------------
(* The releases are complete, but for an asset of the newest.              *)
Whole(b) == [a \in Assets |-> b]
SourceInit ==
  /\ \E lowest, newest \in CoreVersions :
     /\ \A v \in CoreVersions : v \in lowest..newest
     /\ \E b \in Builds, odd \in Assets : \E c \in {0, b} :
          shelf = [v \in CoreVersions |-> IF v = newest THEN [Whole(b) EXCEPT ![odd] = c] ELSE Whole(1)]
     /\ core = [version |-> lowest, phase |-> "idle", offered |-> 0, step |-> "idle", hash |-> 0]
  /\ named \in {v \in CoreVersions : v >= Highest(CoreVersions) - 1} /\ unfit \in {{b} \ {1} : b \in Builds}
  /\ offer = NoOffer /\ offerFile = NoOffer /\ stateFile = [phase |-> "idle", version |-> 0]
  /\ store = [v \in CoreVersions |-> NoFiles] /\ build = 0 /\ kept = NoBackup
  /\ uploads = 0 /\ losses = 0 /\ unsaved = FALSE

SourceNext ==
  \/ Publishing \/ CheckRelease \/ (\E v \in CoreVersions : StartDownload(v))
  \/ Downloading \/ InstallPrepared \/ HelperInstalls
  \/ RollBack \/ HelperRollsBack \/ UpdateCoreDies
SourceSpec == SourceInit /\ [][SourceNext]_sourceVars

-----------------------------------------------------------------------------
(* The variables have their types.  updater.State, ReleaseStatus           *)
UpdatePhases == Busy \cup {"idle", "available", "failed", "succeeded"}
UpdateSteps  == {"idle", "checksum", "signature", "archive", "saving checksum", "saving signature",
           "clearing", "extracting", "verifying", "handed over", "handed back"}
Answers      == [current : CoreVersions \cup {0}, version : CoreVersions \cup {0}]
CoreStates   == [version : CoreVersions, phase : UpdatePhases,
                 offered : CoreVersions \cup {0}, step : UpdateSteps, hash : Builds \cup {0}]
SavedStates  == [phase : UpdatePhases, version : CoreVersions \cup {0}]
Backups      == [version : CoreVersions \cup {0}, build : Builds \cup {0}]
VersionFiles == [archive : Builds \cup {0}, sum : Builds \cup {0}, sig : Builds \cup {0},
                 prepared : Builds \cup {0, Torn}]
SourceTypeOK ==
  /\ shelf \in [CoreVersions -> [Assets -> Builds \cup {0}]]
  /\ named \in CoreVersions /\ unfit \subseteq Builds
  /\ core \in CoreStates /\ stateFile \in SavedStates /\ unsaved \in BOOLEAN
  /\ offer \in Answers /\ offerFile \in Answers
  /\ store \in [CoreVersions -> VersionFiles] /\ build \in Builds \cup {0}
  /\ kept \in Backups

(* What is offered is newer than what runs, whichever version of Core      *)
(* wrote down the answer and however old it is (check,                     *)
(* loadReleaseStatusCache).                                                *)
OfferIsNewer == offer.version # 0 => offer.version > core.version

(* A version said to be ready is one release, though its assets are        *)
(* replaced while they are read: the bundle, its checksum, the signature   *)
(* and the extracted files are of one fitting build, which the helper will *)
(* accept.  A state file that could not be written is the exception.       *)
ReadyIsOneBuild ==
  core.phase = "ready" /\ ~unsaved => Staged(Files) /\ Files.prepared = Files.archive

(* What Core says of updates, an offer or a version that is ready, is true *)
(* whatever happens to the releases meanwhile (check, Download).           *)
UpdatesAreSound == OfferIsNewer /\ ReadyIsOneBuild

(* Whatever Core believes, whatever it could write down and whatever of an *)
(* older download lies in its directory, only a fitting build comes to run,*)
(* by an installation or by a rollback to what the helper has kept         *)
(* (stageSignedUpdate, performInstall, performManualRollback).             *)
RunningFits == build \notin unfit
=============================================================================
