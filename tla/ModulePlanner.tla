----------------------------- MODULE ModulePlanner ----------------------------
(***************************************************************************)
(* Which modules an installation needs and in which order                  *)
(* (internal/modules/planner.go, version.go), and which manifests are      *)
(* accepted at all (validate.go).  A behaviour is one set of available and *)
(* installed modules; the plan is a function of it.                        *)
(***************************************************************************)
EXTENDS Naturals, Sequences, FiniteSets, SequencesExt

CONSTANTS
  Modules,      (* ids, ordered as sort.Slice orders them                  *)
  Target        (* the module asked for                                    *)

ASSUME PlannerAssumption == IsFiniteSet(Modules) /\ Modules \subseteq Nat /\ Target \in Modules

VARIABLES
  available,    (* the manifests offered, by id                            *)
  installed     (* the versions registered, <<>> for none                  *)

plannerVars == <<available, installed>>

-----------------------------------------------------------------------------
(* version.go: a version is <<major, minor, patch>>, a constraint a set of *)
(* terms all of which must hold ("*" has none).                            *)

CompareVersion(a, b) ==
  IF a = b THEN 0
  ELSE LET i == CHOOSE k \in 1..3 : a[k] # b[k] /\ \A l \in 1..(k - 1) : a[l] = b[l]
       IN  IF a[i] < b[i] THEN -1 ELSE 1

Satisfies(version, constraint) ==
  \A term \in constraint :
    LET cmp == CompareVersion(version, term.version) IN
    CASE term.op = "="  -> cmp = 0
      [] term.op = ">=" -> cmp >= 0
      [] term.op = "<=" -> cmp <= 0
      [] term.op = ">"  -> cmp > 0
      [] term.op = "<"  -> cmp < 0

(* validate.go, as far as it relates a manifest's parts; fits stands for   *)
(* the syntax, the Core constraint and the architecture.                   *)
ValidateManifest(m) ==
  LET manifest == available[m] IN
  /\ manifest.fits /\ "host.docker" \in manifest.requires
  /\ m \notin DOMAIN manifest.deps /\ m \notin manifest.conflicts

Offered == {m \in Modules : available[m].offered}
Installed == {m \in Modules : installed[m] # <<>>}
HostCapabilities == {"host.docker"}

-----------------------------------------------------------------------------
(* planner.go: a walk that carries what it has seen.                       *)

(* An installed module offers its capabilities in the version available.   *)
Start ==
  [state |-> [m \in Modules |-> 0], order |-> <<>>, ok |-> TRUE,
   capabilities |-> HostCapabilities \cup
     UNION {available[m].provides : m \in {i \in Installed \cap Offered : available[i].version = installed[i]}}]

Failed(walk) == [walk EXCEPT !.ok = FALSE]

Enter(m, walk) ==
  IF /\ ValidateManifest(m)
     /\ \A c \in available[m].conflicts : c \notin Installed /\ walk.state[c] = 0
  THEN [walk EXCEPT !.state[m] = 1] ELSE Failed(walk)

Leave(m, walk) ==
  IF ~walk.ok THEN walk
  ELSE IF ~(available[m].requires \subseteq walk.capabilities) THEN Failed(walk)
  ELSE [walk EXCEPT !.state[m] = 2,
                    !.capabilities = @ \cup available[m].provides,
                    !.order = IF m \in Installed THEN @ ELSE Append(@, m)]

DependenciesOf(m) == SetToSortSeq(DOMAIN available[m].deps, <)

RECURSIVE Visit(_, _)
Visit(m, walk) ==
  LET VisitDependency(w, dep) ==
        LET constraint == available[m].deps[dep] IN
        IF ~w.ok THEN w
        ELSE IF dep \in Installed
        THEN IF Satisfies(installed[dep], constraint) THEN w ELSE Failed(w)
        ELSE IF dep \in Offered /\ Satisfies(available[dep].version, constraint)
        THEN Visit(dep, w) ELSE Failed(w)
  IN  CASE walk.state[m] = 1 -> Failed(walk)
        [] walk.state[m] = 2 -> walk
        [] OTHER -> LET entered == Enter(m, walk) IN
             IF entered.ok THEN Leave(m, FoldLeft(VisitDependency, entered, DependenciesOf(m)))
                           ELSE entered

(* validateSelectedConflicts: the other way round, and from what is there. *)
(* The first is a bug: what is installed is not asked for its conflicts.   *)
SelectedConflictOneSided(walk) ==
  \E m \in {i \in Modules : walk.state[i] = 2} :
    \E c \in available[m].conflicts : walk.state[c] = 2 \/ c \in Installed
SelectedConflict(walk) ==
  \E m \in {i \in Modules : walk.state[i] = 2} :
    \/ \E c \in available[m].conflicts : walk.state[c] = 2 \/ c \in Installed
    \/ \E i \in Installed \cap Offered : m \in available[i].conflicts

PlanInstall ==
  IF Target \notin Offered THEN Failed(Start)
  ELSE LET walk == Visit(Target, Start) IN
       IF walk.ok /\ SelectedConflict(walk) THEN Failed(walk) ELSE walk

-----------------------------------------------------------------------------
(* What a plan is: stated of the manifests, without a walk.                *)

Conflict(m, n) == n \in available[m].conflicts \/ m \in available[n].conflicts

(* The target and what it needs of what is not installed.                  *)
RECURSIVE Closure(_)
Closure(ms) ==
  LET more == ms \cup {n \in Offered \ Installed : \E m \in ms : n \in DOMAIN available[m].deps}
  IN  IF more = ms THEN ms ELSE Closure(more)
Needed == Closure({Target})
Below(m) == Closure({n \in Offered \ Installed : n \in DOMAIN available[m].deps})

(* A plan that is returned can be carried out in its order: every module   *)
(* in it is new and needed, follows what it depends on, in versions that   *)
(* fit, finds the capabilities it requires, and agrees with all the others *)
(* and with everything installed (PlanInstall, Plan.Order).                *)
PlanIsSound ==
  LET walk == PlanInstall
      order == walk.order
      Before(i) == {order[k] : k \in 1..(i - 1)}
      Present == Installed \cap Offered
      Carried == ToSet(order) \cup {Target}
  IN walk.ok =>
  /\ ToSet(order) = Needed \ Installed /\ Len(order) = Cardinality(ToSet(order))
  /\ \A i \in DOMAIN order : LET m == order[i] IN
       /\ \A dep \in DOMAIN available[m].deps :
            IF dep \in Installed THEN Satisfies(installed[dep], available[m].deps[dep])
            ELSE dep \in Before(i) /\ Satisfies(available[dep].version, available[m].deps[dep])
       /\ available[m].requires \subseteq HostCapabilities \cup
            UNION {available[n].provides : n \in Before(i) \cup {p \in Present : available[p].version = installed[p]}}
  /\ \A m \in Carried : \A n \in Carried \cup Present : m # n => ~Conflict(m, n)

(* And an error means that something is wrong: with fitting, acyclic,      *)
(* agreeing manifests whose requirements the host, the installed modules   *)
(* or their own dependencies meet, there is a plan.                        *)
Plannable ==
  /\ Target \in Offered
  /\ \A m \in Needed :
       /\ ValidateManifest(m) /\ m \notin Below(m)
       /\ \A dep \in DOMAIN available[m].deps :
            IF dep \in Installed THEN Satisfies(installed[dep], available[m].deps[dep])
            ELSE dep \in Offered /\ Satisfies(available[dep].version, available[m].deps[dep])
       /\ available[m].requires \subseteq Start.capabilities \cup UNION {available[n].provides : n \in Below(m)}
       /\ \A n \in Needed \cup (Installed \cap Offered) : ~Conflict(m, n)
       /\ available[m].conflicts \cap Installed = {}
PlanIsFound == Plannable => PlanInstall.ok
==============================================================================
