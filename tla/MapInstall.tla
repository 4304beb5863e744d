----------------------------- MODULE MapInstall -----------------------------
(***************************************************************************)
(* What the hook library does to the map files when the game joins a       *)
(* server: on_serverinfo of bhopfix-hook/src/fastdl.rs (Linux) and         *)
(* on_server_info of windows/fastdl.rs.  It replaces the map by the        *)
(* version the server has, notes that version in a sidecar file and, on    *)
(* Linux, extracts the entries the game cannot find (PakFix), at once or   *)
(* from a watcher thread when the game is still to download the map.       *)
(*                                                                         *)
(* Beside it: the game's own downloader, the launcher's sweep, a player    *)
(* who deletes a map, a game that ends at any step.  Requests and          *)
(* deletions are bounded together, as are crashes and files swept.         *)
(***************************************************************************)
EXTENDS PakFix

CONSTANTS
  Versions,    \* SHA-1 sums
  Earlier,     \* per map: the version an earlier game has installed
  Listed,      \* those lump_checksums.csv lists on the server
  Other,       \* a download that is not what it should be
  Main, Sweep, \* the fixers that are no watchers: the game's thread, the launcher
  Whole,       \* the size at which the game's own download is complete
  MaxWatch,    \* entries of WATCHING
  MaxIdle,     \* polls without progress
  MaxAsks, MaxTroubles   \* bounds

ASSUME FixersAssumption ==
  /\ Fixers = Maps \cup {Main, Sweep}
  /\ Main \notin Maps /\ Sweep \notin Maps /\ Main # Sweep
ASSUME VersionsAssumption ==
  /\ Earlier \in [Maps -> Versions \cup {None}]
  /\ Listed \subseteq Versions
  /\ None \notin Versions /\ Other \notin Versions /\ Other # None
ASSUME BoundsAssumption ==
  /\ Whole \in Nat \ {0} /\ None \notin 1 .. Whole /\ MaxWatch \in Nat /\ MaxIdle \in Nat \ {0}
  /\ MaxAsks \in Nat /\ MaxTroubles \in Nat

VARIABLES
  os,        \* the platform
  csv,       \* versions listed by the cached checksums
  target,    \* per map: the version in cstrike/maps
  own,       \* per map: the size of the game's download in cstrike/download/maps
  sidecar,   \* per map: the version the sidecar names
  lost,      \* history: maps replaced without their sidecar
  main,      \* the game's thread in on_serverinfo
  watching,  \* WATCHING
  watcher,   \* per map: its watcher thread
  asks, troubles   \* counted: requests and deletions; crashes and files swept

files == <<csv, target, own, sidecar, lost>>
counters == <<asks, troubles>>
vars == <<os, files, main, watching, watcher, counters, pak>>

Mains == {"idle", "ensure", "accepted", "install", "sidecar", "cut",
          "fix", "watch", "fixTarget", "fixOwn", "spawn"}
Asleep == [at |-> "none", idle |-> 0, target |-> None, own |-> None]
Started == [Asleep EXCEPT !.at = "poll"]

TypeOK ==
  /\ PakTypeOK
  /\ os \in {"linux", "windows"}
  /\ csv \subseteq Versions
  /\ target \in [Maps -> Versions \cup {None}]
  /\ own \in [Maps -> 0 .. Whole]
  /\ sidecar \in [Maps -> Versions \cup {None}]
  /\ lost \subseteq Maps
  /\ main \in [at : Mains, map : Maps \cup {None}, ver : Versions \cup {None}]
  /\ watching \subseteq Maps /\ Cardinality(watching) <= MaxWatch
  /\ watcher \in [Maps -> [at : {"none", "poll", "own", "cleanup"},
                           idle : 0 .. MaxIdle,
                           target : Versions \cup {None}, own : (1 .. Whole) \cup {None}]]
  /\ asks \in 0 .. MaxAsks /\ troubles \in 0 .. MaxTroubles

\* The maps of earlier installations are there with their sidecars, or no map is.
Init ==
  /\ os \in {"linux", "windows"}
  /\ csv = {}
  /\ target \in {[m \in Maps |-> None], Earlier}
  /\ own = [m \in Maps |-> 0]
  /\ sidecar = target
  /\ lost = {}
  /\ main = [at |-> "idle", map |-> None, ver |-> None]
  /\ watching = {}
  /\ watcher = [m \in Maps |-> Asleep]
  /\ asks = 0 /\ troubles = 0
  /\ PakInit

-----------------------------------------------------------------------------
(* on_serverinfo, on the game's main thread.                               *)

Go(step) ==
  main' = [at |-> step, map |-> main.map, ver |-> IF step = "idle" THEN None ELSE main.ver]

\* The thread is at the step and not inside fix_bsp.
At(step) == main.at = step /\ Free(Main)

\* Where ensure_map leads when it has not installed the map.
NotInstalled == IF os = "linux" THEN "watch" ELSE "idle"

\* The cached checksums; a copy that is old is refreshed if the server answers.
Checksums == {csv, Listed}

Indexed(v, list) == v \in list

\* A server info message, looked up in the checksums.
ServerInfo(m, v) ==
  /\ At("idle") /\ asks < MaxAsks
  /\ csv' \in Checksums
  /\ main' = [at |-> IF Indexed(v, csv') THEN "ensure" ELSE NotInstalled, map |-> m, ver |-> v]
  /\ asks' = asks + 1
  /\ UNCHANGED <<os, target, own, sidecar, lost, watching, watcher, troubles, pak>>

\* Mutation: the sidecar is believed without the map.
InstalledBelieving(m, v) == sidecar[m] = v

\* "sidecar matches: we already installed exactly this version".
Installed(m, v) == target[m] # None /\ sidecar[m] = v

\* The magic and the SHA-1 of the downloaded file.
Verified(got) == got = main.ver

\* The compressed file, or the plain one of the legacy endpoint, or neither.
Ensure ==
  /\ At("ensure")
  /\ IF Installed(main.map, main.ver)
       THEN Go("accepted")
       ELSE \E got \in {main.ver, Other, None} :
              Go(IF Verified(got) THEN "install" ELSE NotInstalled)
  /\ UNCHANGED <<os, files, watching, watcher, counters, pak>>

Accepted ==
  /\ At("accepted")
  /\ Go(NotInstalled)
  /\ UNCHANGED <<os, files, watching, watcher, counters, pak>>

\* The verified file is renamed onto the map.
Install ==
  /\ At("install")
  /\ Go("sidecar")
  /\ target' = [target EXCEPT ![main.map] = main.ver]
  /\ lost' = lost \cup {main.map}
  /\ UNCHANGED <<os, csv, own, sidecar, watching, watcher, counters, pak>>

InstallFails ==
  /\ At("install")
  /\ Go(NotInstalled)
  /\ UNCHANGED <<os, files, watching, watcher, counters, pak>>

Noted == IF os = "linux" THEN "fix" ELSE "idle"

\* fs::write empties the sidecar and then fills it (Linux) ...
CutSidecar ==
  /\ At("sidecar") /\ os = "linux"
  /\ Go("cut")
  /\ sidecar' = [sidecar EXCEPT ![main.map] = None]
  /\ lost' = lost \ {main.map}
  /\ UNCHANGED <<os, csv, target, own, watching, watcher, counters, pak>>

WriteSidecar ==
  /\ At("cut")
  /\ Go("fix")
  /\ sidecar' \in {sidecar, [sidecar EXCEPT ![main.map] = main.ver]}
  /\ UNCHANGED <<os, csv, target, own, lost, watching, watcher, counters, pak>>

\* ... a temporary file is renamed over it (Windows).
ReplaceSidecar ==
  /\ At("sidecar") /\ os = "windows"
  /\ Go("idle")
  /\ sidecar' = [sidecar EXCEPT ![main.map] = main.ver]
  /\ lost' = lost \ {main.map}
  /\ UNCHANGED <<os, csv, target, own, watching, watcher, counters, pak>>

\* The result of that write is ignored.
SidecarFails ==
  /\ At("sidecar")
  /\ Go(Noted)
  /\ UNCHANGED <<os, files, watching, watcher, counters, pak>>

\* fix_bsp on the file with this content, if it is a sound one; the caller
\* goes on at `next` when it returns.
MainFixes(sound, next) ==
  /\ Go(next)
  /\ IF sound THEN FixBegin(Main, main.map) ELSE UNCHANGED pak
  /\ UNCHANGED <<os, files, watching, watcher, counters>>

FixInstalled == At("fix") /\ MainFixes(target[main.map] # None, "idle")
FixTarget == At("fixTarget") /\ MainFixes(target[main.map] # None, "fixOwn")
FixOwn == At("fixOwn") /\ MainFixes(own[main.map] = Whole, "idle")

-----------------------------------------------------------------------------
(* watch_map_for_casefix and its thread.                                   *)

\* Mutation: one watcher too many.
MayWatchOneMore(m) == m \notin watching /\ Cardinality(watching) <= MaxWatch

MayWatch(m) == m \notin watching /\ Cardinality(watching) < MaxWatch

OnDisk(m) == target[m] # None \/ own[m] # 0

Watch ==
  /\ At("watch")
  /\ IF OnDisk(main.map)
       THEN Go("fixTarget") /\ UNCHANGED watching
       ELSE IF MayWatch(main.map)
              THEN Go("spawn") /\ watching' = watching \cup {main.map}
              ELSE Go("idle") /\ UNCHANGED watching
  /\ UNCHANGED <<os, files, watcher, counters, pak>>

Spawn ==
  /\ At("spawn")
  /\ Go("idle")
  /\ watcher' = [watcher EXCEPT ![main.map] = Started]
  /\ UNCHANGED <<os, files, watching, counters, pak>>

SpawnFails ==
  /\ At("spawn")
  /\ Go("idle")
  /\ watching' = watching \ {main.map}
  /\ UNCHANGED <<os, files, watcher, counters, pak>>

WatcherAt(m, step) == watcher[m].at = step /\ Free(m)

\* Mutation: whatever is there resets the countdown.
AfterErrorFresh(w) == [w EXCEPT !.idle = 0]

\* A partial file keeps the watcher polling.
AfterError(w) == w

\* One candidate, its size now and whether it is sound: w is the watcher so
\* far in this poll, `next` where it goes on.
Look(m, w, which, size, sound, next) ==
  IF size # None /\ size = w[which] /\ sound
    THEN /\ watcher' = [watcher EXCEPT ![m] = [w EXCEPT !.at = "cleanup"]]
         /\ FixBegin(m, m)
    ELSE /\ watcher' = [watcher EXCEPT ![m] =
              [CASE size = None -> w
                 [] size # None /\ size # w[which] -> [w EXCEPT !.idle = 0, ![which] = size]
                 [] size # None /\ size = w[which] -> AfterError(w) EXCEPT !.at = next]]
         /\ UNCHANGED pak

\* Half a second later, the map itself ...
PollTarget(m) ==
  /\ WatcherAt(m, "poll") /\ watcher[m].idle < MaxIdle
  /\ Look(m, [watcher[m] EXCEPT !.idle = @ + 1], "target", target[m], TRUE, "own")
  /\ UNCHANGED <<os, files, main, watching, counters>>

\* ... and the one the game is downloading.
PollOwn(m) ==
  /\ WatcherAt(m, "own")
  /\ Look(m, watcher[m], "own", IF own[m] = 0 THEN None ELSE own[m], own[m] = Whole, "poll")
  /\ UNCHANGED <<os, files, main, watching, counters>>

GiveUp(m) ==
  /\ WatcherAt(m, "poll") /\ watcher[m].idle >= MaxIdle
  /\ watcher' = [watcher EXCEPT ![m].at = "cleanup"]
  /\ UNCHANGED <<os, files, main, watching, counters, pak>>

Cleanup(m) ==
  /\ WatcherAt(m, "cleanup")
  /\ watcher' = [watcher EXCEPT ![m] = Asleep]
  /\ watching' = watching \ {m}
  /\ UNCHANGED <<os, files, main, counters, pak>>

-----------------------------------------------------------------------------
(* The game, the player, the launcher.                                     *)

\* The map of the server is downloaded by the game where there is none.
Grow(m) ==
  /\ At("idle") /\ m = main.map
  /\ target[m] = None /\ own[m] < Whole
  /\ own' = [own EXCEPT ![m] = @ + 1]
  /\ UNCHANGED <<os, csv, target, sidecar, lost, main, watching, watcher, counters, pak>>

Delete(m) ==
  /\ At("idle") /\ target[m] # None /\ asks < MaxAsks
  /\ target' = [target EXCEPT ![m] = None]
  /\ asks' = asks + 1
  /\ UNCHANGED <<os, csv, own, sidecar, lost, main, watching, watcher, troubles, pak>>

\* The game ends, with all its threads, and is started again.
Crash ==
  /\ troubles < MaxTroubles
  /\ \/ main.at # "idle" \/ watching # {} \/ ~Free(Main)
  /\ troubles' = troubles + 1
  /\ Go("idle")
  /\ watching' = {}
  /\ watcher' = [m \in Maps |-> Asleep]
  /\ FixersDie(Fixers \ {Sweep})
  /\ UNCHANGED <<os, files, asks>>

\* The launcher's sweep comes to the next sound file of either directory.
SweepFile(m) ==
  /\ os = "linux" /\ troubles < MaxTroubles
  /\ target[m] # None \/ own[m] = Whole
  /\ FixBegin(Sweep, m)
  /\ troubles' = troubles + 1
  /\ UNCHANGED <<os, files, main, watching, watcher, asks>>

-----------------------------------------------------------------------------

MainStep ==
  \/ Ensure \/ Accepted \/ Install \/ InstallFails
  \/ CutSidecar \/ WriteSidecar \/ ReplaceSidecar \/ SidecarFails
  \/ FixInstalled \/ FixTarget \/ FixOwn \/ Watch \/ Spawn \/ SpawnFails

WatcherStep(m) == PollTarget(m) \/ PollOwn(m) \/ GiveUp(m) \/ Cleanup(m)

FixerStep(x) ==
  /\ FixStep(x)
  /\ UNCHANGED <<os, files, main, watching, watcher, counters>>

Next ==
  \/ \E m \in Maps, v \in Versions : ServerInfo(m, v)
  \/ MainStep
  \/ \E m \in Maps : WatcherStep(m) \/ Grow(m) \/ Delete(m) \/ SweepFile(m)
  \/ \E x \in Fixers : FixerStep(x)
  \/ Crash

\* The watcher threads go on while the game runs; nobody has to ask,
\* download, delete or crash.
Fairness == \A m \in Maps : WF_vars(WatcherStep(m) \/ FixerStep(m))

Spec == Init /\ [][Next]_vars /\ Fairness

-----------------------------------------------------------------------------

\* A sidecar that is believed is true: when ensure_map returns early because
\* "we already installed exactly this version", that version is the map on
\* the disk, and it is after each installation, unless the map was last
\* replaced without its sidecar, because the game ended or the write failed
\* between the two.
MapAsAsked ==
  main.at \in {"accepted", "sidecar", "cut", "fix"} =>
    target[main.map] = main.ver \/ (main.at = "accepted" /\ main.map \in lost)

\* A loose file is whole after a step, and still the player's if it was.
LooseKept ==
  \A a \in Assets :
    /\ loose'[a] # Half
    /\ loose[a] = Players => loose'[a] = Players

\* Loose files appear whole, whoever extracts the same one at the same time
\* and whenever the game ends, and those the player had stay.
LooseFilesSafe == [][LooseKept]_vars

\* A watcher ends with the map's entries extracted, or after its last poll and
\* without having seen the whole file.
ServedAtEnd ==
  \A m \in Maps :
    watcher[m].at = "cleanup" /\ Free(m) =>
      \/ Fixed(m)
      \/ watcher[m].idle = MaxIdle /\ watcher[m].own # Whole /\ watcher[m].target = None

\* A watcher ends, and has done its work when it does: a file that never becomes
\* sound does not keep it, and one that is whole is not given up.
WatchersFinish ==
  /\ \A m \in Maps : (watcher[m].at # "none") ~> (watcher[m].at = "none")
  /\ []ServedAtEnd
=============================================================================
