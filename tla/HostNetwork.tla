------------------------------ MODULE HostNetwork ------------------------------
(***************************************************************************)
(* The network of the host, as the helper changes it for Core              *)
(* (cmd/home-ai-core-updater: network_ops.go, network_profiles.go,         *)
(* ifupdown_profiles.go): WireGuard tunnels with their peers, and the      *)
(* persistent profiles of interfaces with one of three backends.  Every    *)
(* connection to the helper is served by a goroutine of its own, without a *)
(* lock, so each step below may be followed by a step of another call.     *)
(* External: what wg-quick, systemctl, ip, ifup, networkctl and nmcli do.  *)
(***************************************************************************)
EXTENDS Integers, FiniteSets, TLC

CONSTANTS
  Tunnels, Peers, Interfaces, Goroutines, Absent,
  MaxCalls,                  (* bound: operations asked for                *)
  MaxFaults                  (* bound: failed commands, deaths and reboots *)

ASSUME NetworkAssumption ==
  /\ {MaxCalls, MaxFaults} \subseteq Nat /\ Absent \notin Nat \cup [key : Nat, peers : SUBSET Peers]

VARIABLES
  file, temp,   (* <tunnel>.conf and <tunnel>.conf.tmp: a key and peers    *)
  link,         (* the running tunnel                                      *)
  boot,         (* tunnels whose wg-quick@ service is enabled              *)
  backend,      (* what configures the interfaces of this host             *)
  main, dropin, (* interfaces of others in interfaces, and in interfaces.d *)
  included,     (* interfaces has the line that includes interfaces.d      *)
  own, loaded,  (* the profiles of Home-AI; what networkd has read of them *)
  draft,        (* networkd: <profile>.tmp                                 *)
  running, up,  (* what each interface has been brought up with; ifupdown: *)
                (* those that ifup holds to be up                          *)
  call,         (* what each goroutine does                                *)
  marred,       (* tunnels with overlapping or cut off changes (history)   *)
  unfinished,   (* interfaces with a failed save or changed by hand, and   *)
                (* no successful last save since (history)                 *)
  unheeded,     (* ifupdown: interfaces that an ifdown was missing for or  *)
                (* failed for, or changed by hand, with no ifdown since    *)
                (* (history)                                               *)
  calls, faults

tunnelVars    == <<file, temp, link, boot, marred>>
profileVars   == <<main, dropin, included, own, loaded, draft, running, up, unfinished,
                   unheeded>>
networkVars   == <<tunnelVars, profileVars, backend, call, calls, faults>>

NoCall == [at |-> "none"]
NetworkInit ==
  /\ file = [t \in Tunnels |-> Absent] /\ temp = file /\ link = file /\ boot = {}
  /\ backend \in {"ifupdown", "systemd-networkd", "networkmanager"}
  /\ main \in SUBSET Interfaces /\ dropin \in SUBSET Interfaces /\ included \in BOOLEAN
  /\ backend # "ifupdown" => main = {} /\ dropin = {} /\ ~included
  /\ own = [i \in Interfaces |-> Absent] /\ loaded = own /\ draft = own /\ running = own
  /\ call = [c \in Goroutines |-> NoCall] /\ marred = {}
  /\ up = {} /\ unfinished = {} /\ unheeded = {} /\ calls = 0 /\ faults = 0

Busy(x) == \E c \in Goroutines : call[c] # NoCall /\ call[c].on = x
Goto(c, at) == call' = [call EXCEPT ![c].at = at]
End(c) == call' = [call EXCEPT ![c] = NoCall]
On(c, at) == call[c].at = at
Is(c, dos) == call[c].do \in dos
Asked(c, r) ==
  /\ call[c] = NoCall /\ calls < MaxCalls /\ calls' = calls + 1
  /\ call' = [call EXCEPT ![c] = r]
-----------------------------------------------------------------------------
(* WireGuard tunnels.                                                      *)

AskTunnel(c, do, t, p) ==
  /\ Asked(c, [at |-> "look", do |-> do, on |-> t, p |-> p, key |-> calls,
                   new |-> Absent, old |-> Absent])
  /\ marred' = marred \cup {x \in {t} : Busy(x)}
  /\ UNCHANGED <<file, temp, link, boot, profileVars, backend, faults>>
Tunnel(c) == call[c].on

TunnelStep == UNCHANGED <<marred, profileVars, backend, calls, faults>>
(* What the operation finds, and how it goes on: a new file to be written, *)
(* another step, or an error.                                              *)
Write(c, conf) ==
  call' = [call EXCEPT ![c].new = conf, ![c].old = file[Tunnel(c)], ![c].at = "temp"]
Look(c) ==
  LET conf == file[Tunnel(c)] p == call[c].p IN
  /\ On(c, "look")
  /\ CASE Is(c, {"create"}) /\ conf = Absent -> Write(c, [key |-> call[c].key, peers |-> {}])
       [] Is(c, {"peer.add"}) /\ conf # Absent /\ (conf # Absent => p \notin conf.peers) ->
            Write(c, [conf EXCEPT !.peers = @ \cup {p}])
       [] Is(c, {"peer.delete"}) /\ conf # Absent /\ (conf # Absent => p \in conf.peers) ->
            Write(c, [conf EXCEPT !.peers = @ \ {p}])
       [] Is(c, {"up"}) /\ conf # Absent -> Goto(c, "up")
       [] Is(c, {"down"}) /\ conf # Absent -> Goto(c, "down")
       [] Is(c, {"delete"}) /\ conf # Absent -> Goto(c, "active")
       [] OTHER -> End(c)
  /\ UNCHANGED <<file, temp, link, boot>> /\ TunnelStep

(* writeWireGuardConfig: all calls of a tunnel share one temporary file.   *)
WriteConfTemp(c) ==
  /\ On(c, "temp") /\ temp' = [temp EXCEPT ![Tunnel(c)] = call[c].new]
  /\ Goto(c, "rename") /\ UNCHANGED <<file, link, boot>> /\ TunnelStep
RenameTemp(c) ==
  LET t == Tunnel(c) IN
  /\ On(c, "rename")
  /\ IF temp[t] = Absent THEN End(c) /\ UNCHANGED <<file, temp>>
     ELSE /\ file' = [file EXCEPT ![t] = temp[t]] /\ temp' = [temp EXCEPT ![t] = Absent]
          /\ IF Is(c, {"restore"}) THEN End(c)
             ELSE Goto(c, IF Is(c, {"create"}) THEN "up" ELSE "active")
  /\ UNCHANGED <<link, boot>> /\ TunnelStep

(* wireGuardActive                                                         *)
Active(c) ==
  /\ On(c, "active")
  /\ IF link[Tunnel(c)] # Absent THEN Goto(c, IF Is(c, {"delete"}) THEN "down" ELSE "set")
     ELSE IF Is(c, {"delete"}) THEN Goto(c, "disable") ELSE End(c)
  /\ UNCHANGED <<file, temp, link, boot>> /\ TunnelStep

(* How an operation takes a command that fails: a peer's old file is       *)
(* written again, a new tunnel's file is removed.                          *)
OnError(c) ==
  IF On(c, "set")
  THEN call' = [call EXCEPT ![c].do = "restore", ![c].at = "temp", ![c].new = call[c].old]
  ELSE IF On(c, "up") /\ Is(c, {"create"}) THEN Goto(c, "unlink") ELSE End(c)

SetPeer(c) ==
  LET t == Tunnel(c) p == call[c].p IN
  /\ On(c, "set")
  /\ IF link[t] = Absent THEN OnError(c) /\ UNCHANGED link
     ELSE /\ End(c)
          /\ link' = [link EXCEPT ![t].peers = IF Is(c, {"peer.add"}) THEN @ \cup {p} ELSE @ \ {p}]
  /\ UNCHANGED <<file, temp, boot>> /\ TunnelStep
BringUp(c) ==
  LET t == Tunnel(c) IN
  /\ On(c, "up")
  /\ IF link[t] # Absent \/ file[t] = Absent THEN OnError(c) /\ UNCHANGED link
     ELSE Goto(c, "enable") /\ link' = [link EXCEPT ![t] = file[t]]
  /\ UNCHANGED <<file, temp, boot>> /\ TunnelStep
UnlinkFile(c) ==
  /\ On(c, "unlink") /\ file' = [file EXCEPT ![Tunnel(c)] = Absent] /\ End(c)
  /\ UNCHANGED <<temp, link, boot>> /\ TunnelStep
TakeDown(c) ==
  LET t == Tunnel(c) IN
  /\ On(c, "down")
  /\ IF link[t] = Absent \/ file[t] = Absent THEN OnError(c) /\ UNCHANGED link
     ELSE Goto(c, "disable") /\ link' = [link EXCEPT ![t] = Absent]
  /\ UNCHANGED <<file, temp, boot>> /\ TunnelStep
EnableService(c) ==
  /\ On(c, "enable") /\ boot' = boot \cup {Tunnel(c)} /\ End(c)
  /\ UNCHANGED <<file, temp, link>> /\ TunnelStep
DisableService(c) ==
  /\ On(c, "disable") /\ boot' = boot \ {Tunnel(c)}
  /\ IF Is(c, {"delete"}) THEN Goto(c, "remove") ELSE End(c)
  /\ UNCHANGED <<file, temp, link>> /\ TunnelStep
RemoveFile(c) ==
  /\ On(c, "remove") /\ file' = [file EXCEPT ![Tunnel(c)] = Absent] /\ End(c)
  /\ UNCHANGED <<temp, link, boot>> /\ TunnelStep
-----------------------------------------------------------------------------
(* Profiles of interfaces.                                                 *)

(* The steps of saveIfupdownProfile, saveNetworkdProfile and               *)
(* saveNetworkManagerProfile after their checks.                           *)
After(at) ==
  CASE backend = "ifupdown" ->
         (CASE at = "check" -> "include" [] at = "include" -> "profile"
            [] at = "profile" -> "query" [] at = "query" -> "ifdown" [] OTHER -> "apply")
    [] backend = "systemd-networkd" ->
         (CASE at = "check" -> "draft" [] at = "draft" -> "profile" [] at = "profile" -> "reload"
            [] OTHER -> "apply")
    [] OTHER -> IF at = "check" THEN "profile" ELSE "apply"

(* loadIfupdownInventory: the stanzas that count.                          *)
Stanzas(i) ==
  {x \in {"main", "dropin", "own"} :
     \/ x = "main" /\ i \in main
     \/ x = "dropin" /\ included /\ i \in dropin
     \/ x = "own" /\ included /\ own[i] # Absent}

AskProfile(c, i) ==
  /\ Asked(c, [at |-> "check", do |-> "save", on |-> i, profile |-> calls, seen |-> TRUE])
  /\ UNCHANGED <<tunnelVars, profileVars, backend, faults>>
ProfileStep == UNCHANGED <<tunnelVars, main, dropin, backend, calls>>
NoIfDown == UNCHANGED <<unheeded, faults>>
Soundly == NoIfDown /\ UNCHANGED up
(* A bug: stanzas of others are not looked for.                            *)
CheckOwnershipNot(c) ==
  /\ On(c, "check") /\ Goto(c, After("check"))
  /\ UNCHANGED <<included, own, loaded, draft, running, unfinished>> /\ ProfileStep /\ Soundly
CheckOwnership(c) ==
  /\ On(c, "check")
  /\ IF Stanzas(call[c].on) \subseteq {"own"}
     THEN call' = [call EXCEPT ![c].at = After("check"), ![c].seen = included] ELSE End(c)
  /\ UNCHANGED <<included, own, loaded, draft, running, unfinished>> /\ ProfileStep /\ Soundly
EnsureInclude(c) ==
  /\ On(c, "include") /\ included' = TRUE /\ Goto(c, After("include"))
  /\ UNCHANGED <<own, loaded, draft, running, unfinished>> /\ ProfileStep /\ Soundly
(* networkd: all saves of an interface share one temporary file.           *)
WriteDraft(c) ==
  /\ On(c, "draft") /\ draft' = [draft EXCEPT ![call[c].on] = call[c].profile]
  /\ Goto(c, After("draft"))
  /\ UNCHANGED <<included, own, loaded, running, unfinished>> /\ ProfileStep /\ Soundly
WriteProfile(c) ==
  LET i == call[c].on IN
  /\ On(c, "profile")
  /\ IF backend # "systemd-networkd"
     THEN own' = [own EXCEPT ![i] = call[c].profile] /\ UNCHANGED draft /\ Goto(c, After("profile"))
     ELSE IF draft[i] = Absent THEN End(c) /\ UNCHANGED <<own, draft>>
     ELSE /\ own' = [own EXCEPT ![i] = draft[i]] /\ draft' = [draft EXCEPT ![i] = Absent]
          /\ Goto(c, After("profile"))
  /\ UNCHANGED <<included, loaded, running, unfinished>> /\ ProfileStep /\ Soundly
QueryProfile(c) ==
  /\ On(c, "query") /\ Goto(c, After("query"))
  /\ UNCHANGED <<included, own, loaded, draft, running, unfinished>> /\ ProfileStep /\ Soundly
IfDown(c) ==
  /\ On(c, "ifdown") /\ Goto(c, After("ifdown"))
  /\ running' = [running EXCEPT ![call[c].on] = Absent] /\ up' = up \ {call[c].on}
  /\ unheeded' = unheeded \ {call[c].on}
  /\ UNCHANGED <<included, own, loaded, draft, unfinished, faults>> /\ ProfileStep
Fault == faults < MaxFaults /\ faults' = faults + 1
(* A failure of ifdown, or that there is none, is passed over.             *)
IfDownFails(c) ==
  /\ On(c, "ifdown") /\ Goto(c, After("ifdown")) /\ Fault /\ unheeded' = unheeded \cup {call[c].on}
  /\ UNCHANGED <<included, own, loaded, draft, running, up, unfinished>> /\ ProfileStep
ReloadNetworkd(c) ==
  /\ On(c, "reload") /\ loaded' = own /\ Goto(c, After("reload"))
  /\ UNCHANGED <<included, own, draft, running, unfinished>> /\ ProfileStep /\ Soundly
(* ifup leaves an interface alone that it holds to be up.                  *)
Applied(i) ==
  CASE backend = "ifupdown" /\ i \in up -> running[i]
    [] backend = "systemd-networkd" -> loaded[i]
    [] OTHER -> own[i]
ApplyProfile(c) ==
  LET i == call[c].on IN
  /\ On(c, "apply") /\ End(c) /\ running' = [running EXCEPT ![i] = Applied(i)]
  /\ up' = up \cup {x \in {i} : backend = "ifupdown"}
  /\ unfinished' = unfinished \ {x \in {i} : own[x] = call[c].profile}
  /\ UNCHANGED <<included, own, loaded, draft>> /\ ProfileStep /\ NoIfDown
(* network.link.down and the like change what runs and nothing else.       *)
ChangeByHand(c, i) ==
  /\ call[c] = NoCall /\ calls < MaxCalls /\ calls' = calls + 1
  /\ running' = [running EXCEPT ![i] = Absent] /\ unfinished' = unfinished \cup {i}
  /\ unheeded' = unheeded \cup {x \in {i} : backend = "ifupdown"}
  /\ UNCHANGED <<tunnelVars, main, dropin, included, own, loaded, draft, up, backend, call, faults>>
-----------------------------------------------------------------------------
TunnelCommandFails(c) ==
  /\ call[c].at \in {"temp", "rename", "set", "up", "down", "remove"} /\ Fault
  /\ IF On(c, "rename") THEN End(c) /\ temp' = [temp EXCEPT ![Tunnel(c)] = Absent]
                        ELSE OnError(c) /\ UNCHANGED temp
  /\ marred' = marred \cup {t \in {Tunnel(c)} : Is(c, {"restore"})}
  /\ UNCHANGED <<file, link, boot, profileVars, backend, calls>>
(* The answers of systemctl and of the removal are not looked at; a failing*)
(* wg show is taken for a tunnel that is down.                             *)
UnheededFailure(c) ==
  /\ call[c].at \in {"active", "enable", "disable", "unlink"} /\ Fault
  /\ CASE On(c, "active") /\ Is(c, {"delete"})  -> Goto(c, "disable")
       [] On(c, "disable") /\ Is(c, {"delete"}) -> Goto(c, "remove")
       [] OTHER -> End(c)
  /\ marred' = marred \cup {Tunnel(c)}
  /\ UNCHANGED <<file, temp, link, boot, profileVars, backend, calls>>
ProfileCommandFails(c) ==
  /\ call[c].at \in {"include", "draft", "profile", "query", "reload", "apply"} /\ Fault /\ End(c)
  /\ unfinished' = unfinished \cup
       {i \in {call[c].on} : call[c].at \in {"query", "reload", "apply"}}
  /\ draft' = IF On(c, "profile") THEN [draft EXCEPT ![call[c].on] = Absent] ELSE draft
  /\ UNCHANGED <<tunnelVars, main, dropin, included, own, loaded, running, up, unheeded, backend, calls>>

CutOff(xs) == {x \in xs : Busy(x)}
HelperDies ==
  /\ Fault /\ call' = [c \in Goroutines |-> NoCall]
  /\ marred' = marred \cup CutOff(Tunnels) /\ unfinished' = unfinished \cup CutOff(Interfaces)
  /\ UNCHANGED <<file, temp, link, boot, main, dropin, included, own, loaded, draft, running,
                 up, unheeded, backend, calls>>
(* Enabled tunnels and the profiles come up again.                         *)
Reboot ==
  /\ Fault /\ call' = [c \in Goroutines |-> NoCall]
  /\ link' = [t \in Tunnels |-> IF t \in boot THEN file[t] ELSE Absent]
  /\ marred' = marred \cup CutOff(Tunnels)
  /\ running' = own /\ loaded' = own /\ unfinished' = {} /\ unheeded' = {}
  /\ up' = {i \in Interfaces : backend = "ifupdown" /\ own[i] # Absent}
  /\ UNCHANGED <<file, temp, boot, main, dropin, included, own, draft, backend, calls>>

OfTunnel(c) ==
  \/ \E t \in Tunnels, p \in Peers, do \in {"peer.add", "peer.delete"} : AskTunnel(c, do, t, p)
  \/ \E t \in Tunnels, do \in {"create", "up", "down", "delete"} : AskTunnel(c, do, t, Absent)
  \/ Look(c) \/ WriteConfTemp(c) \/ RenameTemp(c) \/ Active(c) \/ SetPeer(c) \/ BringUp(c)
  \/ UnlinkFile(c) \/ TakeDown(c) \/ EnableService(c) \/ DisableService(c) \/ RemoveFile(c)
OfProfile(c) ==
  \/ \E i \in Interfaces : AskProfile(c, i) \/ ChangeByHand(c, i)
  \/ CheckOwnership(c) \/ EnsureInclude(c) \/ WriteDraft(c) \/ WriteProfile(c) \/ QueryProfile(c)
  \/ IfDown(c) \/ IfDownFails(c) \/ ReloadNetworkd(c) \/ ApplyProfile(c)
NetworkNext ==
  \/ \E c \in Goroutines :
       OfTunnel(c) \/ OfProfile(c)
       \/ TunnelCommandFails(c) \/ UnheededFailure(c) \/ ProfileCommandFails(c)
  \/ HelperDies \/ Reboot
NetworkSpec == NetworkInit /\ [][NetworkNext]_networkVars
-----------------------------------------------------------------------------
(* Properties                                                              *)

Conf == {Absent} \cup [key : 0..MaxCalls, peers : SUBSET Peers]
Profiles == {Absent} \cup 0..MaxCalls
SaveSteps ==
  {"check", "profile", "apply"} \cup
  CASE backend = "ifupdown" -> {"include", "query", "ifdown"}
    [] backend = "systemd-networkd" -> {"draft", "reload"} [] OTHER -> {}
(* The variables have their types, and a save takes the steps of its       *)
(* host's backend only.  updaterhelper.WireGuardTunnelStat,                *)
(* saveNetworkProfile                                                      *)
NetworkTypeOK ==
  /\ file \in [Tunnels -> Conf] /\ temp \in [Tunnels -> Conf] /\ link \in [Tunnels -> Conf]
  /\ boot \subseteq Tunnels /\ marred \subseteq Tunnels
  /\ unfinished \subseteq Interfaces /\ unheeded \subseteq Interfaces /\ up \subseteq Interfaces
  /\ own \in [Interfaces -> Profiles] /\ loaded \in [Interfaces -> Profiles]
  /\ draft \in [Interfaces -> Profiles] /\ running \in [Interfaces -> Profiles]
  /\ \A c \in Goroutines : call[c] # NoCall =>
       \/ call[c].on \in Tunnels
       \/ call[c].on \in Interfaces /\ call[c].at \in SaveSteps

(* A tunnel runs with the key and the peers of its file, and the next boot *)
(* leaves it as it is, whatever command failed: unless two changes of it   *)
(* overlapped, one was cut off, or a failure was not looked at.            *)
TunnelIsItsFile ==
  \A t \in Tunnels \ marred : ~Busy(t) =>
    /\ link[t] # Absent => link[t] = file[t]
    /\ link[t] # Absent <=> t \in boot

(* An interface runs with the profile that was saved last, whoever saved   *)
(* at the same time, unless a save failed and its caller was told, or      *)
(* ifdown was missing or failed, which nobody is told, or an interface of  *)
(* ifupdown was changed by hand between ifdown and ifup.                   *)
ProfileIsApplied ==
  \A i \in Interfaces \ (unfinished \cup unheeded) : ~Busy(i) => running[i] = own[i]

(* Home-AI saves no profile beside a stanza of others, unless that is in   *)
(* interfaces.d and did not count before Home-AI itself had it included.   *)
NoSecondStanza ==
  [][\A i \in Interfaces : own'[i] # own[i] =>
       /\ i \notin main
       /\ i \in dropin => \E c \in Goroutines : On(c, "profile") /\ call[c].on = i /\ ~call[c].seen
    ]_networkVars

(* The network is as Core saved it, in its files, running and after a boot,*)
(* and as others set it up.                                                *)
NetworkIsAsSaved ==
  [](NetworkTypeOK /\ TunnelIsItsFile /\ ProfileIsApplied) /\ NoSecondStanza
=============================================================================
