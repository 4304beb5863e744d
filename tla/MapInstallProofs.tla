-------------------------- MODULE MapInstallProofs --------------------------
(***************************************************************************)
(* For any maps, assets and versions, any packs that share entries, and    *)
(* any number of joins, deletions, sweeps and crashes: loose files appear  *)
(* whole and the player's stay, a sidecar that is believed is true, and    *)
(* the watchers are as few as they should be and leave nothing undone.     *)
(***************************************************************************)
EXTENDS MapInstall, FiniteSetTheorems, TLAPS

-----------------------------------------------------------------------------
(* The case fix.                                                           *)

\* A fixer that is not idle has entries to do, of a map.
AtWork ==
  \A x \in Fixers : fix[x].at # "idle" => fix[x].map \in Maps /\ fix[x].todo # {}

\* From the check on, the entry's loose file is not one the player had.
NotPlayers ==
  \A x \in Fixers :
    fix[x].at \in {"create", "write", "rename"} => loose[Entry(x)] # Players

\* What is about to be renamed is complete: nobody else writes this name.
PartWhole ==
  \A x \in Fixers : fix[x].at = "rename" => parts[PartName(x, Entry(x))] \in Maps

LooseWhole == \A a \in Assets : loose[a] # Half

PakInv == PakTypeOK /\ AtWork /\ NotPlayers /\ PartWhole /\ LooseWhole

FixTypes == [at : {"idle", "check", "create", "write", "rename"},
             map : Maps \cup {None}, todo : SUBSET Assets]

LEMMA PakInitially == PakInit => PakInv
  BY ContentsAssumption DEF PakInit, PakInv, PakTypeOK, AtWork, NotPlayers,
     PartWhole, LooseWhole, Resting

LEMMA EntryToDo ==
  ASSUME PakInv, NEW x \in Fixers, fix[x].at # "idle"
  PROVE  Entry(x) \in fix[x].todo /\ Entry(x) \in Assets /\ fix[x].todo \subseteq Assets
<1>1. fix[x].todo \subseteq Assets /\ fix[x].todo # {}
  BY DEF PakInv, PakTypeOK, AtWork
<1>2. Entry(x) \in fix[x].todo
  BY <1>1 DEF Entry
<1> QED BY <1>1, <1>2

\* A fixer that has become `new` and the others as they were.
Becomes(x, new) ==
  /\ fix' \in [Fixers -> FixTypes]
  /\ fix'[x] = new
  /\ \A y \in Fixers \ {x} : fix'[y] = fix[y] /\ Entry(y)' = Entry(y)

LEMMA SetFixer ==
  ASSUME PakInv, NEW x \in Fixers, NEW new \in FixTypes, fix' = [fix EXCEPT ![x] = new]
  PROVE  Becomes(x, new)
<1>1. fix \in [Fixers -> FixTypes]
  BY DEF PakInv, PakTypeOK, FixTypes
<1>2. /\ fix' \in [Fixers -> FixTypes]
      /\ fix'[x] = new
      /\ \A y \in Fixers \ {x} : fix'[y] = fix[y]
  BY <1>1
<1> QED BY <1>2 DEF Becomes, Entry

LEMMA StepTo ==
  ASSUME PakInv, NEW x \in Fixers, fix[x].at # "idle",
         NEW step \in {"check", "create", "write", "rename"}, To(x, step)
  PROVE  /\ Becomes(x, [at |-> step, map |-> fix[x].map, todo |-> fix[x].todo])
         /\ Entry(x)' = Entry(x)
         /\ fix[x].map \in Maps /\ fix[x].todo # {}
<1> DEFINE new == [at |-> step, map |-> fix[x].map, todo |-> fix[x].todo]
<1>1. fix \in [Fixers -> FixTypes] /\ fix[x] \in FixTypes
  BY DEF PakInv, PakTypeOK, FixTypes
<1>2. [fix[x] EXCEPT !.at = step] = new
  BY <1>1 DEF FixTypes
<1>3. fix' = [fix EXCEPT ![x] = new]
  BY <1>2 DEF To
<1>4. new \in FixTypes
  BY <1>1 DEF FixTypes
<1>5. Becomes(x, new)
  BY <1>3, <1>4, SetFixer
<1>6. fix[x].map \in Maps /\ fix[x].todo # {}
  BY DEF PakInv, AtWork
<1>7. fix'[x].todo = fix[x].todo
  BY <1>5 DEF Becomes
<1> QED BY <1>5, <1>6, <1>7 DEF Entry

LEMMA GoesOn ==
  ASSUME PakInv, NEW x \in Fixers, fix[x].at # "idle",
         NEW left \in SUBSET Assets, Continue(x, left)
  PROVE  \E new \in FixTypes :
           /\ Becomes(x, new)
           /\ new.at \in {"idle", "check"}
           /\ new.at # "idle" => new.map \in Maps /\ new.todo # {}
<1> DEFINE new == IF left = {} THEN Resting
                  ELSE [at |-> "check", map |-> fix[x].map, todo |-> left]
<1>1. fix[x].map \in Maps
  BY DEF PakInv, AtWork
<1>2. fix' = [fix EXCEPT ![x] = new]
  BY DEF Continue
<1>3. /\ new \in FixTypes
      /\ new.at \in {"idle", "check"}
      /\ new.at # "idle" => new.map \in Maps /\ new.todo # {}
  BY <1>1 DEF FixTypes, Resting
<1>4. Becomes(x, new)
  BY <1>2, <1>3, SetFixer
<1> QED BY <1>3, <1>4

\* What is enough for the invariant, when one fixer has changed and it is at
\* a step of no consequence.
LEMMA HarmlessKeeps ==
  ASSUME PakInv, NEW x \in Fixers, NEW new \in FixTypes, Becomes(x, new),
         new.at \in {"idle", "check"},
         new.at # "idle" => new.map \in Maps /\ new.todo # {},
         loose' \in [Assets -> Maps \cup {None, Half, Players}],
         \A a \in Assets : loose'[a] = loose[a] \/ loose'[a] \in Maps,
         parts' \in [Names -> Maps \cup {None, Half}],
         \A y \in Fixers \ {x}, a \in Assets : parts'[<<a, y>>] = parts[<<a, y>>],
         spoilt' \subseteq Assets
  PROVE  PakInv'
<1>1. PakTypeOK' /\ AtWork'
  BY DEF PakInv, PakTypeOK, AtWork, FixTypes, Becomes
<1>2. LooseWhole'
  BY ContentsAssumption DEF PakInv, LooseWhole
<1>3. ASSUME NEW y \in Fixers, fix'[y].at \in {"create", "write", "rename"}
      PROVE  /\ y # x /\ fix[y] = fix'[y] /\ Entry(y)' = Entry(y)
             /\ Entry(y) \in Assets
  <2>1. y # x /\ fix[y] = fix'[y] /\ Entry(y)' = Entry(y)
    BY <1>3 DEF Becomes
  <2> QED BY <1>3, <2>1, EntryToDo
<1>4. NotPlayers'
  BY <1>3, ContentsAssumption DEF PakInv, NotPlayers
<1>5. PartWhole'
  BY <1>3 DEF PakInv, PartWhole, PartName
<1> QED BY <1>1, <1>2, <1>4, <1>5 DEF PakInv

\* A fixer that has gone from one step on its entry to the next.
LEMMA StepKeeps ==
  ASSUME PakInv, NEW x \in Fixers, FixStep(x)
  PROVE  PakInv'
<1>1. fix[x].at # "idle"
  BY DEF FixStep, Check, Refuse, Stop, Create, Write, Abandon, Rename
<1>2. Entry(x) \in fix[x].todo /\ Entry(x) \in Assets /\ fix[x].todo \subseteq Assets
  BY <1>1, EntryToDo
<1>3. PartName(x, Entry(x)) = <<Entry(x), x>> /\ <<Entry(x), x>> \in Names
  BY <1>2 DEF PartName, Names
<1>4. /\ loose \in [Assets -> Maps \cup {None, Half, Players}]
      /\ parts \in [Names -> Maps \cup {None, Half}]
      /\ spoilt \subseteq Assets
  BY DEF PakInv, PakTypeOK
<1>5. ASSUME NEW left \in SUBSET Assets, Continue(x, left),
             loose' \in [Assets -> Maps \cup {None, Half, Players}],
             \A a \in Assets : loose'[a] = loose[a] \/ loose'[a] \in Maps,
             parts' \in [Names -> Maps \cup {None, Half}],
             \A y \in Fixers \ {x}, a \in Assets : parts'[<<a, y>>] = parts[<<a, y>>],
             spoilt' \subseteq Assets
      PROVE  PakInv'
  BY <1>1, <1>5, GoesOn, HarmlessKeeps
<1>6. ASSUME Skip(x),
             loose' \in [Assets -> Maps \cup {None, Half, Players}],
             \A a \in Assets : loose'[a] = loose[a] \/ loose'[a] \in Maps,
             parts' \in [Names -> Maps \cup {None, Half}],
             \A y \in Fixers \ {x}, a \in Assets : parts'[<<a, y>>] = parts[<<a, y>>],
             spoilt' \subseteq Assets
      PROVE  PakInv'
  <2>1. fix[x].todo \ {Entry(x)} \in SUBSET Assets
    BY <1>2
  <2> QED BY <1>5, <1>6, <2>1 DEF Skip
<1>7. ASSUME NEW value \in Maps \cup {None, Half},
             parts' = [parts EXCEPT ![<<Entry(x), x>>] = value]
      PROVE  /\ parts' \in [Names -> Maps \cup {None, Half}]
             /\ \A y \in Fixers \ {x}, a \in Assets : parts'[<<a, y>>] = parts[<<a, y>>]
             /\ parts'[<<Entry(x), x>>] = value
  <2>1. \A n \in Names \ {<<Entry(x), x>>} : parts'[n] = parts[n]
    BY <1>4, <1>7
  <2>2. \A y \in Fixers \ {x}, a \in Assets : <<a, y>> \in Names \ {<<Entry(x), x>>}
    BY DEF Names
  <2> QED BY <1>3, <1>4, <1>7, <2>1, <2>2
<1>8. ASSUME NEW step \in {"create", "write", "rename"}, To(x, step), UNCHANGED loose,
             loose[Entry(x)] # Players,
             parts' \in [Names -> Maps \cup {None, Half}],
             \A y \in Fixers \ {x}, a \in Assets : parts'[<<a, y>>] = parts[<<a, y>>],
             step = "rename" => parts'[<<Entry(x), x>>] \in Maps,
             UNCHANGED spoilt
      PROVE  PakInv'
  <2>1. /\ Becomes(x, [at |-> step, map |-> fix[x].map, todo |-> fix[x].todo])
        /\ Entry(x)' = Entry(x) /\ fix[x].map \in Maps /\ fix[x].todo # {}
    BY <1>1, <1>8, StepTo
  <2>2. PakTypeOK' /\ AtWork'
    BY <1>4, <1>8, <2>1 DEF PakInv, PakTypeOK, AtWork, FixTypes, Becomes
  <2>3. ASSUME NEW y \in Fixers \ {x}, fix'[y].at \in {"create", "write", "rename"}
        PROVE  fix[y] = fix'[y] /\ Entry(y)' = Entry(y) /\ Entry(y) \in Assets
    <3>1. fix[y] = fix'[y] /\ Entry(y)' = Entry(y)
      BY <2>1 DEF Becomes
    <3> QED BY <2>3, <3>1, EntryToDo
  <2>4. NotPlayers'
    BY <1>8, <2>1, <2>3 DEF PakInv, NotPlayers
  <2>5. PartWhole'
    <3> SUFFICES ASSUME NEW y \in Fixers, fix'[y].at = "rename"
                 PROVE  parts'[<<Entry(y)', y>>] \in Maps
      BY DEF PartWhole, PartName
    <3>1. CASE y = x
      BY <1>8, <2>1, <3>1 DEF Becomes
    <3>2. CASE y # x
      BY <1>8, <2>3, <3>2 DEF PakInv, PartWhole, PartName
    <3> QED BY <3>1, <3>2
  <2>6. LooseWhole'
    BY <1>8 DEF PakInv, LooseWhole
  <2> QED BY <2>2, <2>4, <2>5, <2>6 DEF PakInv
<1>9. CASE Check(x)
  <2>1. CASE loose[Entry(x)] = None
    BY <1>4, <1>8, <1>9, <2>1, ContentsAssumption DEF Check
  <2>2. CASE loose[Entry(x)] # None
    BY <1>4, <1>6, <1>9, <2>2 DEF Check
  <2> QED BY <2>1, <2>2
<1>10. CASE Refuse(x)
  BY <1>2, <1>4, <1>6, <1>10 DEF Refuse
<1>11. CASE Stop(x)
  BY <1>2, <1>4, <1>5, <1>11 DEF Stop
<1>12. CASE Create(x)
  <2>1. loose[Entry(x)] # Players
    BY <1>12 DEF Create, PakInv, NotPlayers
  <2> QED BY <1>3, <1>7, <1>8, <1>12, <2>1 DEF Create
<1>13. CASE Write(x)
  <2>1. loose[Entry(x)] # Players /\ fix[x].map \in Maps
    BY <1>13 DEF Write, PakInv, NotPlayers, AtWork
  <2> QED BY <1>3, <1>7, <1>8, <1>13, <2>1 DEF Write
<1>14. CASE Abandon(x)
  BY <1>2, <1>3, <1>4, <1>6, <1>7, <1>14 DEF Abandon
<1>15. CASE Rename(x)
  <2>1. parts[<<Entry(x), x>>] \in Maps
    BY <1>3, <1>15 DEF Rename, PakInv, PartWhole
  <2> QED BY <1>2, <1>3, <1>4, <1>6, <1>7, <1>15, <2>1 DEF Rename
<1> QED BY <1>9, <1>10, <1>11, <1>12, <1>13, <1>14, <1>15 DEF FixStep

\* A fixer that starts looks for its first entry.
LEMMA BeginKeeps ==
  ASSUME PakInv, NEW x \in Fixers, NEW m \in Maps, FixBegin(x, m)
  PROVE  PakInv'
<1> DEFINE new == IF Packs[m] = {} THEN Resting
                  ELSE [at |-> "check", map |-> m, todo |-> Packs[m]]
<1>1. /\ new \in FixTypes
      /\ new.at \in {"idle", "check"}
      /\ new.at # "idle" => new.map \in Maps /\ new.todo # {}
  BY PacksAssumption DEF FixTypes, Resting
<1>2. Becomes(x, new)
  BY <1>1, SetFixer DEF FixBegin
<1> HIDE DEF new
<1> QED BY <1>1, <1>2, HarmlessKeeps DEF FixBegin, PakInv, PakTypeOK

\* Fixers that die rest; the others go on.
LEMMA DyingKeeps ==
  ASSUME PakInv, NEW dead, FixersDie(dead)
  PROVE  PakInv'
<1>1. /\ UNCHANGED <<parts, loose, spoilt>>
      /\ \A x \in Fixers : fix'[x] = Resting \/ (fix'[x] = fix[x] /\ Entry(x)' = Entry(x))
  BY DEF FixersDie, Entry
<1>2. PakTypeOK'
  BY DEF FixersDie, PakInv, PakTypeOK, Resting
<1>3. Resting.at = "idle"
  BY DEF Resting
<1>4. AtWork' /\ NotPlayers' /\ PartWhole' /\ LooseWhole'
  BY <1>1, <1>3 DEF PakInv, AtWork, NotPlayers, PartWhole, LooseWhole, PartName
<1> QED BY <1>2, <1>4 DEF PakInv

LEMMA PakUnchangedKeeps == ASSUME PakInv, UNCHANGED pak PROVE PakInv'
  BY DEF pak, PakInv, PakTypeOK, AtWork, NotPlayers, PartWhole, LooseWhole, Entry, PartName

-----------------------------------------------------------------------------
(* The maps and their sidecars.                                            *)

FileTypes ==
  /\ csv \subseteq Versions
  /\ target \in [Maps -> Versions \cup {None}]
  /\ sidecar \in [Maps -> Versions \cup {None}]
  /\ main \in [at : Mains, map : Maps \cup {None}, ver : Versions \cup {None}]

\* The game's thread is at work on a map, and on a version while it installs.
Installing == {"ensure", "accepted", "install", "sidecar", "cut", "fix"}
MainAtWork ==
  /\ main.at # "idle" => main.map \in Maps
  /\ main.at \in Installing => main.ver \in Versions

\* A sidecar names the map's version, where there is a map, or the map is one
\* of those replaced without it.
SidecarTrue ==
  \A m \in Maps :
    m \in lost \/ sidecar[m] = None \/ target[m] \in {None, sidecar[m]}

FilesInv == FileTypes /\ MainAtWork /\ SidecarTrue /\ MapAsAsked

\* The fixer steps and the watchers' leave all of it alone.
LEMMA FilesUnchangedKeep ==
  ASSUME FilesInv, UNCHANGED <<files, main>>
  PROVE  FilesInv'
  BY DEF FilesInv, files, FileTypes, MainAtWork, SidecarTrue, MapAsAsked, Installing

LEMMA GoTypes ==
  ASSUME FilesInv, NEW step \in Mains, Go(step)
  PROVE  /\ main' \in [at : Mains, map : Maps \cup {None}, ver : Versions \cup {None}]
         /\ main'.at = step /\ main'.map = main.map
         /\ step # "idle" => main'.ver = main.ver
  BY DEF Go, FilesInv, FileTypes

\* A step of the game's thread that touches no map.
LEMMA GoKeeps ==
  ASSUME FilesInv, NEW step \in Mains \ (Installing \ {"install"}), Go(step),
         main.at # "idle" \/ step = "idle",
         step = "install" => main.at = "ensure",
         UNCHANGED <<target, sidecar, lost>>, csv' = csv
  PROVE  FilesInv'
<1>1. /\ main' \in [at : Mains, map : Maps \cup {None}, ver : Versions \cup {None}]
      /\ main'.at = step /\ main'.map = main.map
      /\ step # "idle" => main'.ver = main.ver
  BY GoTypes
<1> QED BY <1>1 DEF FilesInv, FileTypes, MainAtWork, SidecarTrue, MapAsAsked, Installing

LEMMA InstallsKeep ==
  ASSUME FilesInv,
         \/ Install \/ CutSidecar \/ WriteSidecar \/ ReplaceSidecar \/ SidecarFails
  PROVE  FilesInv'
<1>1. main.map \in Maps /\ main.ver \in Versions
  BY DEF Install, CutSidecar, WriteSidecar, ReplaceSidecar, SidecarFails, At,
     FilesInv, MainAtWork, Installing
<1>2. /\ target \in [Maps -> Versions \cup {None}]
      /\ sidecar \in [Maps -> Versions \cup {None}]
      /\ csv \subseteq Versions
  BY DEF FilesInv, FileTypes
<1> USE DEF FilesInv, FileTypes, MainAtWork, SidecarTrue, MapAsAsked, Installing
<1>3. CASE Install
  <2>1. main'.at = "sidecar" /\ main'.map = main.map /\ main'.ver = main.ver
        /\ main' \in [at : Mains, map : Maps \cup {None}, ver : Versions \cup {None}]
    BY <1>3, GoTypes DEF Install, Mains
  <2> QED BY <1>1, <1>2, <1>3, <2>1 DEF Install
<1>4. CASE CutSidecar
  <2>1. main'.at = "cut" /\ main'.map = main.map /\ main'.ver = main.ver
        /\ main' \in [at : Mains, map : Maps \cup {None}, ver : Versions \cup {None}]
    BY <1>4, GoTypes DEF CutSidecar, Mains
  <2> QED BY <1>1, <1>2, <1>4, <2>1 DEF CutSidecar, At
<1>5. CASE WriteSidecar
  <2>1. main'.at = "fix" /\ main'.map = main.map /\ main'.ver = main.ver
        /\ main' \in [at : Mains, map : Maps \cup {None}, ver : Versions \cup {None}]
    BY <1>5, GoTypes DEF WriteSidecar, Mains
  <2>2. target[main.map] = main.ver
    BY <1>5 DEF WriteSidecar, At
  <2> QED BY <1>1, <1>2, <1>5, <2>1, <2>2 DEF WriteSidecar
<1>6. CASE ReplaceSidecar
  <2>1. main'.at = "idle" /\ main'.map = main.map
        /\ main' \in [at : Mains, map : Maps \cup {None}, ver : Versions \cup {None}]
    BY <1>6, GoTypes DEF ReplaceSidecar, Mains
  <2>2. target[main.map] = main.ver
    BY <1>6 DEF ReplaceSidecar, At
  <2> QED BY <1>1, <1>2, <1>6, <2>1, <2>2 DEF ReplaceSidecar
<1>7. CASE SidecarFails
  <2>1. /\ main'.at \in {"fix", "idle"} /\ main'.map = main.map
        /\ main'.at # "idle" => main'.ver = main.ver
        /\ main' \in [at : Mains, map : Maps \cup {None}, ver : Versions \cup {None}]
    BY <1>7, GoTypes DEF SidecarFails, Noted, Mains
  <2>2. target[main.map] = main.ver
    BY <1>7 DEF SidecarFails, At
  <2> QED BY <1>1, <1>2, <1>7, <2>1, <2>2 DEF SidecarFails, files
<1> QED BY <1>3, <1>4, <1>5, <1>6, <1>7

LEMMA EnsureKeeps == ASSUME FilesInv, Ensure PROVE FilesInv'
<1>1. main.at = "ensure" /\ main.map \in Maps /\ main.ver \in Versions
      /\ UNCHANGED <<csv, target, sidecar, lost>>
  BY DEF Ensure, At, FilesInv, MainAtWork, Installing, files
<1>2. CASE Installed(main.map, main.ver)
  <2>1. main'.at = "accepted" /\ main'.map = main.map /\ main'.ver = main.ver
        /\ main' \in [at : Mains, map : Maps \cup {None}, ver : Versions \cup {None}]
    BY <1>2, GoTypes DEF Ensure, Mains
  <2>2. target[main.map] = main.ver \/ main.map \in lost
    BY <1>1, <1>2, VersionsAssumption DEF Installed, FilesInv, SidecarTrue
  <2> QED BY <1>1, <2>1, <2>2 DEF FilesInv, FileTypes, MainAtWork, SidecarTrue, MapAsAsked, Installing
<1>3. CASE ~Installed(main.map, main.ver)
  <2>1. PICK step \in {"install", "watch", "idle"} : Go(step)
    BY <1>3 DEF Ensure, NotInstalled
  <2>2. step \in Mains \ (Installing \ {"install"})
    BY DEF Mains, Installing
  <2> QED BY <1>1, <2>1, <2>2, GoKeeps
<1> QED BY <1>2, <1>3

\* What the game's thread does besides.
LEMMA MainKeeps == ASSUME FilesInv, MainStep PROVE FilesInv'
<1>1. CASE Ensure
  BY <1>1, EnsureKeeps
<1>2. CASE Install \/ CutSidecar \/ WriteSidecar \/ ReplaceSidecar \/ SidecarFails
  BY <1>2, InstallsKeep
<1>3. CASE Accepted \/ InstallFails \/ FixInstalled \/ FixTarget \/ FixOwn \/ Watch
           \/ Spawn \/ SpawnFails
  <2>1. /\ main.at # "idle"
        /\ \E step \in {"watch", "idle", "fixOwn", "fixTarget", "spawn"} : Go(step)
        /\ UNCHANGED <<csv, target, sidecar, lost>>
    BY <1>3 DEF Accepted, InstallFails, FixInstalled, FixTarget, FixOwn, Watch, Spawn,
       SpawnFails, MainFixes, NotInstalled, At, files
  <2>2. {"watch", "idle", "fixOwn", "fixTarget", "spawn"} \subseteq Mains \ (Installing \ {"install"})
    BY DEF Mains, Installing
  <2> QED BY <2>1, <2>2, GoKeeps
<1> QED BY <1>1, <1>2, <1>3 DEF MainStep

LEMMA JoinKeeps ==
  ASSUME FilesInv, NEW m \in Maps, NEW v \in Versions, ServerInfo(m, v)
  PROVE  FilesInv'
<1>1. /\ csv' \subseteq Versions
      /\ main'.at \in {"ensure", "watch", "idle"} /\ main'.map = m /\ main'.ver = v
      /\ main' \in [at : Mains, map : Maps \cup {None}, ver : Versions \cup {None}]
      /\ UNCHANGED <<target, sidecar, lost>>
  BY VersionsAssumption DEF ServerInfo, Checksums, Indexed, NotInstalled, FilesInv, FileTypes, Mains
<1> QED BY <1>1 DEF FilesInv, FileTypes, MainAtWork, SidecarTrue, MapAsAsked, Installing

LEMMA DeleteKeeps == ASSUME FilesInv, NEW m \in Maps, Delete(m) PROVE FilesInv'
  BY DEF Delete, At, FilesInv, FileTypes, MainAtWork, SidecarTrue, MapAsAsked, Installing

-----------------------------------------------------------------------------
(* Together.                                                               *)

Inv == PakInv /\ FilesInv

\* What a step of the system does to the case fix.
PakMoves ==
  \/ UNCHANGED pak
  \/ \E x \in Fixers, m \in Maps : FixBegin(x, m)
  \/ \E x \in Fixers : FixStep(x)
  \/ \E dead \in SUBSET Fixers : FixersDie(dead)

LEMMA MainMovesPak == ASSUME Inv, MainStep PROVE PakMoves
<1> USE DEF PakMoves
<1>1. CASE Ensure \/ Accepted \/ Install \/ InstallFails \/ CutSidecar \/ WriteSidecar
           \/ ReplaceSidecar \/ SidecarFails \/ Watch \/ Spawn \/ SpawnFails
  BY <1>1 DEF Ensure, Accepted, Install, InstallFails, CutSidecar, WriteSidecar,
     ReplaceSidecar, SidecarFails, Watch, Spawn, SpawnFails
<1>2. CASE FixInstalled \/ FixTarget \/ FixOwn
  <2>1. main.map \in Maps /\ Main \in Fixers
    BY <1>2, FixersAssumption DEF FixInstalled, FixTarget, FixOwn, At, Inv, FilesInv, MainAtWork
  <2>2. UNCHANGED pak \/ FixBegin(Main, main.map)
    BY <1>2 DEF FixInstalled, FixTarget, FixOwn, MainFixes
  <2> QED BY <2>1, <2>2
<1> QED BY <1>1, <1>2 DEF MainStep

LEMMA WatcherMovesPak == ASSUME NEW m \in Maps, WatcherStep(m) PROVE PakMoves
<1>1. UNCHANGED pak \/ FixBegin(m, m)
  BY DEF WatcherStep, PollTarget, PollOwn, GiveUp, Cleanup, Look
<1> QED BY <1>1, FixersAssumption DEF PakMoves

LEMMA NextMovesPak == ASSUME Inv, [Next]_vars PROVE PakMoves
<1> USE DEF PakMoves
<1>1. CASE UNCHANGED vars
  BY <1>1 DEF vars
<1>2. CASE \/ \E m \in Maps, v \in Versions : ServerInfo(m, v)
           \/ \E m \in Maps : Grow(m) \/ Delete(m)
  BY <1>2 DEF ServerInfo, Grow, Delete
<1>3. CASE MainStep
  BY <1>3, MainMovesPak
<1>4. ASSUME NEW m \in Maps, WatcherStep(m) PROVE PakMoves
  BY <1>4, WatcherMovesPak
<1>5. ASSUME NEW m \in Maps, SweepFile(m) PROVE PakMoves
  BY <1>5, FixersAssumption DEF SweepFile
<1>6. ASSUME NEW x \in Fixers, FixerStep(x) PROVE PakMoves
  BY <1>6 DEF FixerStep
<1>7. CASE Crash
  BY <1>7 DEF Crash
<1> QED BY <1>1, <1>2, <1>3, <1>4, <1>5, <1>6, <1>7 DEF Next

LEMMA PakKeeps == ASSUME PakInv, PakMoves PROVE PakInv'
  BY PakUnchangedKeeps, BeginKeeps, StepKeeps, DyingKeeps DEF PakMoves

LEMMA NextKeepsFiles == ASSUME FilesInv, [Next]_vars PROVE FilesInv'
<1>1. CASE UNCHANGED vars
  BY <1>1, FilesUnchangedKeep DEF vars, files
<1>2. ASSUME NEW m \in Maps, NEW v \in Versions, ServerInfo(m, v) PROVE FilesInv'
  BY <1>2, JoinKeeps
<1>3. CASE MainStep
  BY <1>3, MainKeeps
<1>4. ASSUME NEW m \in Maps, WatcherStep(m) PROVE FilesInv'
  <2>1. UNCHANGED <<files, main>>
    BY <1>4 DEF WatcherStep, PollTarget, PollOwn, GiveUp, Cleanup
  <2> QED BY <2>1, FilesUnchangedKeep
<1>5. ASSUME NEW m \in Maps, Grow(m) PROVE FilesInv'
  BY <1>5 DEF Grow, FilesInv, FileTypes, MainAtWork, SidecarTrue, MapAsAsked, Installing
<1>6. ASSUME NEW m \in Maps, Delete(m) PROVE FilesInv'
  BY <1>6, DeleteKeeps
<1>7. ASSUME NEW m \in Maps, SweepFile(m) PROVE FilesInv'
  BY <1>7, FilesUnchangedKeep DEF SweepFile
<1>8. ASSUME NEW x \in Fixers, FixerStep(x) PROVE FilesInv'
  BY <1>8, FilesUnchangedKeep DEF FixerStep
<1>9. CASE Crash
  <2>1. Go("idle") /\ UNCHANGED <<csv, target, sidecar, lost>>
    BY <1>9 DEF Crash, files
  <2>2. "idle" \in Mains \ (Installing \ {"install"})
    BY DEF Mains, Installing
  <2> QED BY <2>1, <2>2, GoKeeps
<1> QED BY <1>1, <1>2, <1>3, <1>4, <1>5, <1>6, <1>7, <1>8, <1>9 DEF Next

LEMMA Initially == Init => Inv
<1> SUFFICES ASSUME Init PROVE Inv
  OBVIOUS
<1>1. PakInv
  BY PakInitially DEF Init
<1>2. FilesInv
  BY VersionsAssumption DEF Init, FilesInv, FileTypes, MainAtWork, SidecarTrue, MapAsAsked,
     Installing, Mains
<1> QED BY <1>1, <1>2 DEF Inv

LEMMA NextKeeps == Inv /\ [Next]_vars => Inv'
  BY NextMovesPak, PakKeeps, NextKeepsFiles DEF Inv

\* MapAsAsked: what ensure_map calls installed is on the disk.
THEOREM BelievedIsTrue == Spec => []MapAsAsked
<1>1. Inv => MapAsAsked
  BY DEF Inv, FilesInv
<1> QED BY <1>1, Initially, NextKeeps, PTL DEF Spec

\* One step changes a loose file only by a rename, of a whole file.
LEMMA LooseStep ==
  ASSUME PakInv, PakMoves, NEW a \in Assets
  PROVE  loose'[a] # Half /\ (loose[a] = Players => loose'[a] = Players)
<1>1. PakInv'
  BY PakKeeps
<1>2. loose'[a] # Half
  BY <1>1 DEF PakInv, LooseWhole
<1>3. CASE UNCHANGED loose
  BY <1>2, <1>3
<1>4. ASSUME NEW x \in Fixers, Rename(x)
      PROVE  loose[a] = Players => loose'[a] = Players
  BY <1>4 DEF Rename, PakInv, PakTypeOK, NotPlayers
<1>5. UNCHANGED loose \/ \E x \in Fixers : Rename(x)
  BY DEF PakMoves, pak, FixBegin, FixersDie, FixStep, Check, Refuse, Stop, Create, Write, Abandon
<1> QED BY <1>2, <1>3, <1>4, <1>5

\* LooseFilesSafe: fix_bsp's temporary files make the extraction of an entry
\* one step, and what the player had is never replaced.
THEOREM WholeAndKept == Spec => LooseFilesSafe
<1>1. Inv /\ [Next]_vars => [LooseKept]_vars
  BY NextMovesPak, LooseStep DEF Inv, LooseKept
<1> QED BY <1>1, Initially, NextKeeps, PTL DEF Spec, LooseFilesSafe

-----------------------------------------------------------------------------
(* Types of the rest: the game's downloads, the watchers and the counters. *)

WatcherTypes == [at : {"none", "poll", "own", "cleanup"}, idle : 0 .. MaxIdle,
                 target : Versions \cup {None}, own : (1 .. Whole) \cup {None}]

WatchTyped ==
  /\ watching \subseteq Maps /\ IsFiniteSet(watching) /\ Cardinality(watching) <= MaxWatch
  /\ watcher \in [Maps -> WatcherTypes]

DownloadTyped ==
  /\ os \in {"linux", "windows"} /\ own \in [Maps -> 0 .. Whole] /\ lost \subseteq Maps
  /\ asks \in 0 .. MaxAsks /\ troubles \in 0 .. MaxTroubles

LEMMA RestTypedInitially == Init => WatchTyped /\ DownloadTyped
<1> SUFFICES ASSUME Init PROVE WatchTyped /\ DownloadTyped
  OBVIOUS
<1>1. Cardinality(watching) <= MaxWatch /\ IsFiniteSet(watching)
  BY FS_EmptySet, BoundsAssumption DEF Init
<1>2. Asleep \in WatcherTypes
  BY BoundsAssumption DEF Asleep, WatcherTypes
<1>3. WatchTyped
  BY <1>1, <1>2 DEF Init, WatchTyped
<1>4. DownloadTyped
  BY BoundsAssumption DEF Init, DownloadTyped
<1> QED BY <1>3, <1>4

\* One look at the map keeps the watcher's record in its ranges ...
LEMMA LookAtTarget ==
  ASSUME NEW m \in Maps, NEW w \in WatcherTypes, NEW size \in Versions \cup {None},
         watcher \in [Maps -> WatcherTypes], Look(m, w, "target", size, TRUE, "own")
  PROVE  watcher' \in [Maps -> WatcherTypes]
<1>1. CASE size # None /\ size = w.target
  BY <1>1 DEF Look, WatcherTypes
<1>2. CASE size = None
  BY <1>2 DEF Look, WatcherTypes
<1>3. CASE size # None /\ size # w.target
  <2>1. [w EXCEPT !.idle = 0, !.target = size] \in WatcherTypes
    <3>1. 0 \in 0 .. MaxIdle
      BY BoundsAssumption
    <3>2. [w EXCEPT !.idle = 0] \in WatcherTypes
      BY <3>1 DEF WatcherTypes
    <3>3. [[w EXCEPT !.idle = 0] EXCEPT !.target = size] \in WatcherTypes
      BY <3>2 DEF WatcherTypes
    <3> QED BY <3>3
  <2>2. [[w EXCEPT !.idle = 0, !.target = size] EXCEPT !.at = "own"] \in WatcherTypes
    BY <2>1 DEF WatcherTypes
  <2>3. watcher' = [watcher EXCEPT
                     ![m] = [[w EXCEPT !.idle = 0, !.target = size] EXCEPT !.at = "own"]]
    BY <1>3 DEF Look
  <2> QED BY <2>2, <2>3
<1> QED BY <1>1, <1>2, <1>3

\* ... and so does one at the game's download.
LEMMA LookAtOwn ==
  ASSUME NEW m \in Maps, NEW w \in WatcherTypes, NEW size \in (1 .. Whole) \cup {None},
         NEW sound \in BOOLEAN,
         watcher \in [Maps -> WatcherTypes], Look(m, w, "own", size, sound, "poll")
  PROVE  watcher' \in [Maps -> WatcherTypes]
<1>1. CASE size # None /\ size = w.own /\ sound
  BY <1>1 DEF Look, WatcherTypes
<1>2. CASE size # None /\ size = w.own /\ ~sound
  BY <1>2 DEF Look, AfterError, WatcherTypes
<1>3. CASE size = None
  BY <1>3 DEF Look, WatcherTypes
<1>4. CASE size # None /\ size # w.own
  <2>1. [w EXCEPT !.idle = 0, !.own = size] \in WatcherTypes
    <3>1. 0 \in 0 .. MaxIdle
      BY BoundsAssumption
    <3>2. [w EXCEPT !.idle = 0] \in WatcherTypes
      BY <3>1 DEF WatcherTypes
    <3>3. [[w EXCEPT !.idle = 0] EXCEPT !.own = size] \in WatcherTypes
      BY <3>2 DEF WatcherTypes
    <3> QED BY <3>3
  <2>2. [[w EXCEPT !.idle = 0, !.own = size] EXCEPT !.at = "poll"] \in WatcherTypes
    BY <2>1 DEF WatcherTypes
  <2>3. watcher' = [watcher EXCEPT
                     ![m] = [[w EXCEPT !.idle = 0, !.own = size] EXCEPT !.at = "poll"]]
    BY <1>4 DEF Look
  <2> QED BY <2>2, <2>3
<1> QED BY <1>1, <1>2, <1>3, <1>4

LEMMA WatchKept ==
  ASSUME FilesInv, WatchTyped, DownloadTyped, [Next]_vars
  PROVE  WatchTyped'
<1>1. ASSUME NEW m \in Maps, PollTarget(m) PROVE WatchTyped'
  <2>1. [watcher[m] EXCEPT !.idle = @ + 1] \in WatcherTypes
    BY <1>1, BoundsAssumption DEF PollTarget, WatchTyped, WatcherTypes
  <2>2. target[m] \in Versions \cup {None}
    BY DEF FilesInv, FileTypes
  <2>3. watcher' \in [Maps -> WatcherTypes]
    BY <1>1, <2>1, <2>2, LookAtTarget DEF PollTarget, WatchTyped
  <2> QED BY <1>1, <2>3 DEF PollTarget, WatchTyped
<1>2. ASSUME NEW m \in Maps, PollOwn(m) PROVE WatchTyped'
  <2> DEFINE size == IF own[m] = 0 THEN None ELSE own[m]
  <2>1. size \in (1 .. Whole) \cup {None}
    BY BoundsAssumption DEF DownloadTyped
  <2>2. watcher[m] \in WatcherTypes
    BY DEF WatchTyped
  <2>3. (own[m] = Whole) \in BOOLEAN
    OBVIOUS
  <2>4. watcher' \in [Maps -> WatcherTypes]
    BY <1>2, <2>1, <2>2, <2>3, LookAtOwn DEF PollOwn, WatchTyped
  <2> QED BY <1>2, <2>4 DEF PollOwn, WatchTyped
<1>3. ASSUME NEW m \in Maps, GiveUp(m) PROVE WatchTyped'
  BY <1>3 DEF GiveUp, WatchTyped, WatcherTypes
<1>4. ASSUME NEW m \in Maps, Cleanup(m) PROVE WatchTyped'
  <2>1. Asleep \in WatcherTypes
    BY BoundsAssumption DEF Asleep, WatcherTypes
  <2>2. IsFiniteSet(watching \ {m}) /\ Cardinality(watching \ {m}) <= Cardinality(watching)
    BY FS_Subset DEF WatchTyped
  <2>3. Cardinality(watching \ {m}) <= MaxWatch
    BY <2>2, FS_CardinalityType, BoundsAssumption DEF WatchTyped
  <2> QED BY <1>4, <2>1, <2>2, <2>3 DEF Cleanup, WatchTyped
<1>5. CASE Watch
  <2>1. CASE UNCHANGED watching
    BY <1>5, <2>1 DEF Watch, WatchTyped
  <2>2. CASE MayWatch(main.map) /\ watching' = watching \cup {main.map}
    <3>1. main.map \in Maps
      BY <1>5 DEF Watch, At, FilesInv, MainAtWork
    <3>2. IsFiniteSet(watching') /\ Cardinality(watching') = Cardinality(watching) + 1
      BY <2>2, FS_AddElement DEF MayWatch, WatchTyped
    <3>3. Cardinality(watching) + 1 <= MaxWatch
      BY <2>2, FS_CardinalityType, BoundsAssumption DEF MayWatch, WatchTyped
    <3> QED BY <1>5, <2>2, <3>1, <3>2, <3>3 DEF Watch, WatchTyped
  <2> QED BY <1>5, <2>1, <2>2 DEF Watch
<1>6. CASE Spawn
  <2>1. Started \in WatcherTypes
    BY BoundsAssumption DEF Asleep, Started, WatcherTypes
  <2> QED BY <1>6, <2>1 DEF Spawn, WatchTyped
<1>7. CASE SpawnFails
  <2>1. IsFiniteSet(watching \ {main.map})
        /\ Cardinality(watching \ {main.map}) <= Cardinality(watching)
    BY FS_Subset DEF WatchTyped
  <2>2. Cardinality(watching \ {main.map}) <= MaxWatch
    BY <2>1, FS_CardinalityType, BoundsAssumption DEF WatchTyped
  <2> QED BY <1>7, <2>1, <2>2 DEF SpawnFails, WatchTyped
<1>8. CASE Crash
  <2>1. Asleep \in WatcherTypes
    BY BoundsAssumption DEF Asleep, WatcherTypes
  <2>2. IsFiniteSet({}) /\ Cardinality({}) = 0
    BY FS_EmptySet
  <2> QED BY <1>8, <2>1, <2>2, BoundsAssumption DEF Crash, WatchTyped
<1>9. CASE \/ \E m \in Maps, v \in Versions : ServerInfo(m, v)
           \/ \E m \in Maps : Grow(m) \/ Delete(m) \/ SweepFile(m)
           \/ \E x \in Fixers : FixerStep(x)
           \/ UNCHANGED vars
  <2>1. UNCHANGED <<watching, watcher>>
    BY <1>9 DEF ServerInfo, Grow, Delete, SweepFile, FixerStep, vars
  <2> QED BY <2>1 DEF WatchTyped
<1>10. CASE \/ Ensure \/ Accepted \/ Install \/ InstallFails \/ CutSidecar \/ WriteSidecar
            \/ ReplaceSidecar \/ SidecarFails \/ FixInstalled \/ FixTarget \/ FixOwn
  <2>1. UNCHANGED <<watching, watcher>>
    BY <1>10 DEF Ensure, Accepted, Install, InstallFails, CutSidecar, WriteSidecar, ReplaceSidecar,
       SidecarFails, FixInstalled, FixTarget, FixOwn, MainFixes
  <2> QED BY <2>1 DEF WatchTyped
<1> QED BY <1>1, <1>2, <1>3, <1>4, <1>5, <1>6, <1>7, <1>8, <1>9, <1>10 DEF Next, MainStep, WatcherStep

LEMMA DownloadKept ==
  ASSUME FilesInv, DownloadTyped, [Next]_vars
  PROVE  DownloadTyped'
<1> USE BoundsAssumption
<1>1. ASSUME NEW m \in Maps, NEW v \in Versions, ServerInfo(m, v) PROVE DownloadTyped'
  BY <1>1 DEF ServerInfo, DownloadTyped
<1>2. ASSUME NEW m \in Maps, Grow(m) PROVE DownloadTyped'
  BY <1>2 DEF Grow, counters, DownloadTyped
<1>3. ASSUME NEW m \in Maps, Delete(m) PROVE DownloadTyped'
  BY <1>3 DEF Delete, DownloadTyped
<1>4. ASSUME NEW m \in Maps, SweepFile(m) PROVE DownloadTyped'
  BY <1>4 DEF SweepFile, files, DownloadTyped
<1>5. CASE Crash
  BY <1>5 DEF Crash, files, DownloadTyped
<1>6. ASSUME NEW m \in Maps, WatcherStep(m) PROVE DownloadTyped'
  <2>1. UNCHANGED <<os, files, counters>>
    BY <1>6 DEF WatcherStep, PollTarget, PollOwn, GiveUp, Cleanup
  <2> QED BY <2>1 DEF files, counters, DownloadTyped
<1>7. CASE UNCHANGED vars \/ \E x \in Fixers : FixerStep(x)
  <2>1. UNCHANGED <<os, files, counters>>
    BY <1>7 DEF FixerStep, vars
  <2> QED BY <2>1 DEF files, counters, DownloadTyped
<1>8. CASE MainStep
  <2>1. UNCHANGED <<os, own, counters>>
    BY <1>8 DEF MainStep, Ensure, Accepted, Install, InstallFails, CutSidecar, WriteSidecar,
       ReplaceSidecar, SidecarFails, FixInstalled, FixTarget, FixOwn, MainFixes, Watch, Spawn,
       SpawnFails, files
  <2>2. lost' \subseteq lost \/ (Install /\ lost' = lost \cup {main.map})
    BY <1>8 DEF MainStep, Ensure, Accepted, Install, InstallFails, CutSidecar, WriteSidecar,
       ReplaceSidecar, SidecarFails, FixInstalled, FixTarget, FixOwn, MainFixes, Watch, Spawn,
       SpawnFails, files
  <2>3. Install => main.map \in Maps
    BY DEF Install, At, FilesInv, MainAtWork
  <2> QED BY <2>1, <2>2, <2>3 DEF counters, DownloadTyped
<1> QED BY <1>1, <1>2, <1>3, <1>4, <1>5, <1>6, <1>7, <1>8 DEF Next

\* TypeOK: in particular no more than MaxWatch watcher threads are registered
\* however joins, failed spawns, watchers that end and crashes interleave.
THEOREM MapInstallTyped == Spec => []TypeOK
<1>1. Inv /\ WatchTyped /\ DownloadTyped => TypeOK
  <2> SUFFICES ASSUME Inv, WatchTyped, DownloadTyped PROVE TypeOK
    OBVIOUS
  <2>1. PakTypeOK
    BY DEF Inv, PakInv
  <2>2. FileTypes
    BY DEF Inv, FilesInv
  <2> QED BY <2>1, <2>2 DEF FileTypes, WatchTyped, WatcherTypes, DownloadTyped, TypeOK
<1>2. Inv /\ WatchTyped /\ DownloadTyped /\ [Next]_vars => (WatchTyped /\ DownloadTyped)'
  BY WatchKept, DownloadKept DEF Inv
<1> QED BY <1>1, <1>2, Initially, NextKeeps, RestTypedInitially, PTL DEF Spec

-----------------------------------------------------------------------------
(* What a watcher leaves behind.                                           *)

\* The entry's loose file is there, or its extraction failed.
Settled(a) == loose[a] # None \/ a \in spoilt

\* What a fixer has behind it is settled.
Progress ==
  \A x \in Fixers :
    fix[x].at # "idle" => \A a \in Packs[fix[x].map] \ fix[x].todo : Settled(a)

\* No step unsettles an entry.
LEMMA SettledStays ==
  ASSUME PakInv, PakMoves, NEW a \in Assets, Settled(a)
  PROVE  Settled(a)'
<1>1. CASE UNCHANGED loose
  <2>1. spoilt \subseteq spoilt'
    BY DEF PakMoves, pak, FixBegin, FixersDie, FixStep, Check, Refuse, Stop, Create, Write,
       Abandon, Rename
  <2> QED BY <1>1, <2>1 DEF Settled
<1>2. ASSUME NEW x \in Fixers, Rename(x) PROVE Settled(a)'
  <2>1. parts[PartName(x, Entry(x))] # None /\ UNCHANGED spoilt
    BY <1>2 DEF Rename
  <2>2. loose' = [loose EXCEPT ![Entry(x)] = parts[PartName(x, Entry(x))]]
    BY <1>2 DEF Rename
  <2> QED BY <2>1, <2>2 DEF Settled, PakInv, PakTypeOK
<1>3. UNCHANGED loose \/ \E x \in Fixers : Rename(x)
  BY DEF PakMoves, pak, FixBegin, FixersDie, FixStep, Check, Refuse, Stop, Create, Write, Abandon
<1> QED BY <1>1, <1>2, <1>3

LEMMA FixedStays ==
  ASSUME PakInv, PakMoves, NEW m \in Maps, Fixed(m)
  PROVE  Fixed(m)'
  BY SettledStays, PacksAssumption DEF Fixed, Settled

\* A fixer goes on with its map m, or has settled all of it.
GoesOnOrEnds(x, m) ==
  /\ \A y \in Fixers \ {x} : fix'[y] = fix[y]
  /\ fix'[x].at = "idle" => Fixed(m)'
  /\ fix'[x].at # "idle" => fix'[x].map = m
  /\ fix'[x].at # "idle" => \A a \in Packs[m] \ fix'[x].todo : Settled(a)'

LEMMA ContinueSettles ==
  ASSUME PakInv, Progress, NEW x \in Fixers, FixStep(x), fix[x].at # "idle",
         NEW m \in Maps, m = fix[x].map,
         NEW left \in SUBSET Assets, Continue(x, left),
         \A a \in fix[x].todo \ left : Settled(a)'
  PROVE  GoesOnOrEnds(x, m)
<1> DEFINE new == IF left = {} THEN Resting
                  ELSE [at |-> "check", map |-> fix[x].map, todo |-> left]
<1>1. fix' = [fix EXCEPT ![x] = new] /\ fix \in [Fixers -> FixTypes]
  BY DEF Continue, PakInv, PakTypeOK, FixTypes
<1>2. fix'[x] = new /\ \A y \in Fixers \ {x} : fix'[y] = fix[y]
  BY <1>1
<1>3. Packs[m] \subseteq Assets
  BY PacksAssumption
<1>4. \A a \in Packs[m] \ left : Settled(a)'
  <2>1. PakMoves
    BY DEF PakMoves
  <2> QED BY <1>3, <2>1, SettledStays DEF Progress
<1>5. CASE left = {}
  <2>1. fix'[x].at = "idle"
    BY <1>2, <1>5 DEF Resting
  <2>2. Fixed(m)'
    BY <1>4, <1>5 DEF Fixed, Settled
  <2> QED BY <1>2, <2>1, <2>2 DEF GoesOnOrEnds
<1>6. CASE left # {}
  <2>1. fix'[x].at # "idle" /\ fix'[x].map = m /\ fix'[x].todo = left
    BY <1>2, <1>6
  <2> QED BY <1>2, <1>4, <2>1 DEF GoesOnOrEnds
<1> QED BY <1>5, <1>6

LEMMA StepSettles ==
  ASSUME PakInv, Progress, NEW x \in Fixers, FixStep(x), NEW m \in Maps, m = fix[x].map
  PROVE  fix[x].at # "idle" /\ GoesOnOrEnds(x, m)
<1>1. fix[x].at # "idle"
  BY DEF FixStep, Check, Refuse, Stop, Create, Write, Abandon, Rename
<1>2. PICK e \in Assets : e = Entry(x) /\ e \in fix[x].todo /\ fix[x].todo \subseteq Assets
  BY <1>1, EntryToDo
<1>3. ASSUME Skip(x), Settled(e)' PROVE GoesOnOrEnds(x, m)
  <2>1. Continue(x, fix[x].todo \ {e})
    BY <1>2, <1>3 DEF Skip
  <2>2. PICK left \in SUBSET Assets : left = fix[x].todo \ {e}
    BY <1>2
  <2>3. \A a \in fix[x].todo \ left : a = e
    BY <2>2
  <2>4. Continue(x, left) /\ \A a \in fix[x].todo \ left : Settled(a)'
    BY <1>3, <2>1, <2>2, <2>3
  <2> QED BY <1>1, <2>4, ContinueSettles
<1>4. ASSUME NEW step \in {"check", "create", "write", "rename"}, To(x, step)
      PROVE  GoesOnOrEnds(x, m)
  <2>1. Becomes(x, [at |-> step, map |-> fix[x].map, todo |-> fix[x].todo])
    BY <1>1, <1>4, StepTo
  <2>2. /\ fix'[x].at # "idle" /\ fix'[x].map = m /\ fix'[x].todo = fix[x].todo
        /\ \A y \in Fixers \ {x} : fix'[y] = fix[y]
    BY <2>1 DEF Becomes
  <2>3. \A a \in Packs[m] \ fix[x].todo : a \in Assets /\ Settled(a)
    BY <1>1, PacksAssumption DEF Progress
  <2>4. PakMoves
    BY DEF PakMoves
  <2>5. \A a \in Packs[m] \ fix[x].todo : Settled(a)'
    BY <2>3, <2>4, SettledStays
  <2>6. \A a \in Packs[m] \ fix'[x].todo : Settled(a)'
    BY <2>2, <2>5
  <2> QED BY <2>2, <2>6 DEF GoesOnOrEnds
<1>5. CASE Check(x)
  <2>1. CASE loose[Entry(x)] = None
    BY <1>4, <1>5, <2>1 DEF Check
  <2>2. CASE loose[Entry(x)] # None
    <3>1. Settled(e)'
      BY <1>2, <1>5, <2>2 DEF Check, Settled
    <3> QED BY <1>3, <1>5, <2>2, <3>1 DEF Check
  <2> QED BY <2>1, <2>2
<1>6. CASE Refuse(x) \/ Abandon(x)
  <2>1. Settled(e)'
    BY <1>2, <1>6 DEF Refuse, Abandon, Settled
  <2>2. Skip(x)
    BY <1>6 DEF Refuse, Abandon
  <2> QED BY <1>1, <1>3, <2>1, <2>2
<1>7. CASE Stop(x)
  <2>0. spoilt' = spoilt \cup fix[x].todo
    BY <1>7 DEF Stop
  <2>1. \A a \in fix[x].todo : Settled(a)'
    BY <2>0 DEF Settled
  <2>2. {} \in SUBSET Assets /\ Continue(x, {})
    BY <1>7 DEF Stop
  <2>3. \A a \in fix[x].todo \ {} : Settled(a)'
    BY <2>1
  <2> QED BY <1>1, <2>2, <2>3, ContinueSettles
<1>8. CASE Create(x) \/ Write(x)
  BY <1>4, <1>8 DEF Create, Write
<1>9. CASE Rename(x)
  <2>1. PICK part : part = PartName(x, e)
    OBVIOUS
  <2>2. loose' = [loose EXCEPT ![e] = parts[part]] /\ parts[part] # None
    BY <1>2, <1>9, <2>1 DEF Rename
  <2>3. Settled(e)'
    BY <2>2 DEF Settled, PakInv, PakTypeOK
  <2>4. Skip(x)
    BY <1>9 DEF Rename
  <2> QED BY <1>1, <1>3, <2>3, <2>4
<1> QED BY <1>1, <1>5, <1>6, <1>7, <1>8, <1>9 DEF FixStep

\* One fixer that has begun with a map, or found nothing to do in it.
LEMMA BeginSettles ==
  ASSUME PakInv, NEW x \in Fixers, NEW m \in Maps, FixBegin(x, m)
  PROVE  GoesOnOrEnds(x, m)
<1> DEFINE new == IF Packs[m] = {} THEN Resting
                  ELSE [at |-> "check", map |-> m, todo |-> Packs[m]]
<1>1. fix' = [fix EXCEPT ![x] = new] /\ fix \in [Fixers -> FixTypes]
  BY DEF FixBegin, PakInv, PakTypeOK, FixTypes
<1>2. fix'[x] = new /\ \A y \in Fixers \ {x} : fix'[y] = fix[y]
  BY <1>1
<1>3. CASE Packs[m] = {}
  <2>1. Fixed(m)' /\ fix'[x].at = "idle"
    BY <1>2, <1>3 DEF Fixed, Resting
  <2> QED BY <1>2, <2>1 DEF GoesOnOrEnds
<1>4. CASE Packs[m] # {}
  <2>1. fix'[x].at # "idle" /\ fix'[x].map = m /\ fix'[x].todo = Packs[m]
    BY <1>2, <1>4
  <2> QED BY <1>2, <2>1 DEF GoesOnOrEnds
<1> QED BY <1>3, <1>4

LEMMA ProgressKept == ASSUME PakInv, Progress, PakMoves PROVE Progress'
<1>1. ASSUME NEW x \in Fixers, NEW m \in Maps, GoesOnOrEnds(x, m) PROVE Progress'
  <2> SUFFICES ASSUME NEW y \in Fixers, fix'[y].at # "idle",
                      NEW a \in Packs[fix'[y].map] \ fix'[y].todo
               PROVE  Settled(a)'
    BY DEF Progress
  <2>1. CASE y = x
    BY <1>1, <2>1 DEF GoesOnOrEnds
  <2>2. CASE y # x
    <3>1. fix'[y] = fix[y]
      BY <1>1, <2>2 DEF GoesOnOrEnds
    <3>2. fix[y].map \in Maps /\ a \in Packs[fix[y].map] \ fix[y].todo
      BY <3>1 DEF PakInv, AtWork
    <3>3. a \in Assets /\ Settled(a)
      BY <3>1, <3>2, PacksAssumption DEF Progress
    <3> QED BY <3>3, SettledStays
  <2> QED BY <2>1, <2>2
<1>2. ASSUME NEW x \in Fixers, FixStep(x) PROVE Progress'
  <2>1. fix[x].at # "idle"
    BY <1>2 DEF FixStep, Check, Refuse, Stop, Create, Write, Abandon, Rename
  <2>2. PICK m \in Maps : m = fix[x].map
    BY <2>1 DEF PakInv, AtWork
  <2> QED BY <1>1, <1>2, <2>2, StepSettles
<1>3. ASSUME NEW x \in Fixers, NEW m \in Maps, FixBegin(x, m) PROVE Progress'
  BY <1>1, <1>3, BeginSettles
<1>4. ASSUME NEW dead \in SUBSET Fixers, FixersDie(dead) PROVE Progress'
  <2>1. /\ UNCHANGED <<loose, spoilt>>
        /\ \A y \in Fixers : fix'[y] = Resting \/ fix'[y] = fix[y]
    BY <1>4 DEF FixersDie
  <2>2. Resting.at = "idle"
    BY DEF Resting
  <2> QED BY <2>1, <2>2 DEF Progress, Settled
<1>5. CASE UNCHANGED pak
  BY <1>5 DEF pak, Progress, Settled
<1> QED BY <1>2, <1>3, <1>4, <1>5 DEF PakMoves

\* Only Linux has watchers, one per registered map; the one to be started is
\* registered, for a map that is not there.
Registered(m) == watcher[m].at # "none" => m \in watching /\ os = "linux"

AboutToSpawn ==
  /\ main.at = "spawn" =>
       main.map \in watching /\ watcher[main.map].at = "none" /\ target[main.map] = None
  /\ main.at \in {"watch", "spawn"} => os = "linux"

\* A watcher fixes its own map, when it is done with polling.
FixesItsMap(m) == fix[m].at # "idle" => fix[m].map = m /\ watcher[m].at = "cleanup"

\* The game's thread is about to extract the map's entries, or does.
MainFixing(m) ==
  \/ main.map = m /\ main.at \in {"sidecar", "cut", "fix"}
  \/ fix[Main].at # "idle" /\ fix[Main].map = m

\* A map that comes while it is watched comes from the game's thread, which
\* extracts its entries itself ...
Handed(m) == watcher[m].at # "none" /\ target[m] # None => Fixed(m) \/ MainFixing(m)

\* ... and stays until it has.
SeenThere(m) ==
  watcher[m].at \in {"poll", "own"} /\ watcher[m].target # None =>
    Fixed(m) \/ (target[m] # None /\ watcher[m].idle = 0)

\* A whole download does not shrink, and is looked at once more.
SeenWhole(m) ==
  watcher[m].at # "none" /\ watcher[m].own = Whole =>
    own[m] = Whole /\ (watcher[m].at = "poll" => watcher[m].idle = 0)

\* ServedAtEnd, of one map.
Served(m) ==
  watcher[m].at = "cleanup" /\ Free(m) =>
    \/ Fixed(m)
    \/ watcher[m].idle = MaxIdle /\ watcher[m].own # Whole /\ watcher[m].target = None

WatcherRight(m) ==
  Registered(m) /\ FixesItsMap(m) /\ Handed(m) /\ SeenThere(m) /\ SeenWhole(m) /\ Served(m)

WatchInv ==
  /\ Inv /\ Progress /\ WatchTyped /\ DownloadTyped
  /\ AboutToSpawn /\ \A m \in Maps : WatcherRight(m)

LEMMA WatchInvInitially == Init => WatchInv
<1> SUFFICES ASSUME Init PROVE WatchInv
  OBVIOUS
<1>1. Inv /\ WatchTyped /\ DownloadTyped
  BY Initially, RestTypedInitially
<1>2. AboutToSpawn
  BY DEF Init, AboutToSpawn
<1>3. Asleep.at = "none" /\ Resting.at = "idle"
  BY DEF Asleep, Resting
<1>4. Maps \subseteq Fixers
  BY FixersAssumption
<1>5. Progress /\ \A m \in Maps : FixesItsMap(m)
  BY <1>3, <1>4 DEF Init, PakInit, Progress, FixesItsMap
<1>6. ASSUME NEW m \in Maps
      PROVE  Registered(m) /\ Handed(m) /\ SeenThere(m) /\ SeenWhole(m) /\ Served(m)
  BY <1>3 DEF Init, Registered, Handed, SeenThere, SeenWhole, Served
<1> QED BY <1>1, <1>2, <1>5, <1>6 DEF WatchInv, WatcherRight

LEMMA PakUnchangedFixes == ASSUME UNCHANGED pak, NEW m \in Maps PROVE Fixed(m)' <=> Fixed(m)
  BY DEF pak, Fixed

\* The files of the map rest, and so do its watcher and the case fix.
LEMMA RestingMap ==
  ASSUME WatchInv, NEW m \in Maps, UNCHANGED pak,
         UNCHANGED <<os, watcher>>, m \in watching' \/ watcher[m].at = "none", UNCHANGED own,
         target'[m] = target[m],
         MainFixing(m) => MainFixing(m)'
  PROVE  WatcherRight(m)'
<1> USE DEF WatchInv, WatcherRight
<1>1. Fixed(m)' <=> Fixed(m)
  BY PakUnchangedFixes
<1>2. fix' = fix
  BY DEF pak
<1>3. Registered(m)' /\ FixesItsMap(m)'
  BY <1>2 DEF Registered, FixesItsMap
<1>4. Handed(m)'
  BY <1>1 DEF Handed
<1>5. SeenThere(m)' /\ SeenWhole(m)'
  BY <1>1 DEF SeenThere, SeenWhole
<1>6. Served(m)'
  BY <1>1, <1>2 DEF Served, Free
<1> QED BY <1>3, <1>4, <1>5, <1>6

\* A step of one fixer, or its beginning, while the rest of the map rests.
LEMMA FixerRight ==
  ASSUME WatchInv, PakMoves, NEW m \in Maps, NEW x \in Fixers, NEW n \in Maps,
         GoesOnOrEnds(x, n), fix[x].at # "idle" => fix[x].map = n,
         x = m => fix[x].at # "idle",
         UNCHANGED <<os, files, watching, watcher>>,
         MainFixing(m) => MainFixing(m)' \/ Fixed(m)'
  PROVE  WatcherRight(m)'
<1> USE DEF WatchInv, WatcherRight, files
<1>1. Fixed(m) => Fixed(m)'
  BY FixedStays DEF Inv
<1>2. /\ \A y \in Fixers \ {x} : fix'[y] = fix[y]
      /\ fix'[x].at = "idle" => Fixed(n)'
      /\ fix'[x].at # "idle" => fix'[x].map = n
  BY DEF GoesOnOrEnds
<1>3. m \in Fixers /\ Main \in Fixers /\ m # Main
  BY FixersAssumption
<1>4. Registered(m)'
  BY DEF Registered
<1>5. FixesItsMap(m)'
  BY <1>2, <1>3 DEF FixesItsMap
<1>7. Handed(m)'
  BY <1>1 DEF Handed
<1>8. SeenThere(m)' /\ SeenWhole(m)'
  BY <1>1 DEF SeenThere, SeenWhole
<1>9. Served(m)'
  BY <1>1, <1>2, <1>3 DEF Served, Free, FixesItsMap
<1> QED BY <1>4, <1>5, <1>7, <1>8, <1>9

LEMMA FixerStepRight ==
  ASSUME WatchInv, PakMoves, NEW x \in Fixers, FixerStep(x), NEW m \in Maps
  PROVE  WatcherRight(m)'
<1>1. FixStep(x) /\ UNCHANGED <<os, files, main, watching, watcher>>
  BY DEF FixerStep
<1>2. fix[x].at # "idle"
  BY <1>1 DEF FixStep, Check, Refuse, Stop, Create, Write, Abandon, Rename
<1>3. PICK n \in Maps : n = fix[x].map
  BY <1>2 DEF WatchInv, Inv, PakInv, AtWork
<1>4. GoesOnOrEnds(x, n)
  BY <1>1, <1>3, StepSettles DEF WatchInv, Inv
<1>5. MainFixing(m) => MainFixing(m)' \/ Fixed(m)'
  <2>1. x # Main => fix'[Main] = fix[Main]
    BY <1>4, FixersAssumption DEF GoesOnOrEnds
  <2>2. x = Main => /\ fix'[Main].at = "idle" => Fixed(n)'
                    /\ fix'[Main].at # "idle" => fix'[Main].map = n
    BY <1>4 DEF GoesOnOrEnds
  <2> QED BY <1>1, <1>3, <2>1, <2>2 DEF MainFixing
<1> QED BY <1>1, <1>2, <1>3, <1>4, <1>5, FixerRight

\* The game's thread begins to fix the map it is at.
LEMMA MainFixesRight ==
  ASSUME WatchInv, PakMoves, FixInstalled \/ FixTarget \/ FixOwn, NEW m \in Maps
  PROVE  AboutToSpawn' /\ WatcherRight(m)'
<1>1. /\ fix[Main].at = "idle" /\ main'.at \in {"idle", "fixOwn"} /\ main'.map = main.map
      /\ main.at \in {"fix", "fixTarget", "fixOwn"}
      /\ UNCHANGED <<os, files, watching, watcher>>
  BY DEF FixInstalled, FixTarget, FixOwn, At, Free, MainFixes, Go
<1>2. PICK n \in Maps : n = main.map
  BY <1>1 DEF WatchInv, Inv, FilesInv, MainAtWork
<1>3. main.at = "fix" => FixBegin(Main, n)
  <2> SUFFICES ASSUME main.at = "fix" PROVE FixBegin(Main, n)
    OBVIOUS
  <2>1. target[n] = main.ver /\ main.ver \in Versions
    BY <1>2 DEF WatchInv, Inv, FilesInv, MapAsAsked, MainAtWork, Installing
  <2>2. target[main.map] # None
    BY <1>2, <2>1, VersionsAssumption
  <2> QED BY <1>2, <2>2 DEF FixInstalled, FixTarget, FixOwn, At, MainFixes
<1>4. AboutToSpawn'
  BY <1>1 DEF AboutToSpawn
<1>5. CASE FixBegin(Main, n)
  <2>1. GoesOnOrEnds(Main, n)
    BY <1>5, BeginSettles, FixersAssumption DEF WatchInv, Inv
  <2>2. MainFixing(m) => MainFixing(m)' \/ Fixed(m)'
    <3>1. (fix'[Main].at = "idle" => Fixed(n)') /\ (fix'[Main].at # "idle" => fix'[Main].map = n)
      BY <2>1 DEF GoesOnOrEnds
    <3> QED BY <1>1, <1>2, <3>1 DEF MainFixing
  <2>3. WatcherRight(m)'
    BY <1>1, <2>1, <2>2, FixerRight, FixersAssumption
  <2> QED BY <1>4, <2>3
<1>6. CASE ~FixBegin(Main, n)
  <2>1. UNCHANGED pak
    BY <1>2, <1>6 DEF FixInstalled, FixTarget, FixOwn, MainFixes
  <2>2. main.at # "fix"
    BY <1>3, <1>6
  <2>3. ~MainFixing(m)
    BY <1>1, <2>2 DEF MainFixing
  <2>4. WatcherRight(m)'
    BY <1>1, <2>1, <2>3, RestingMap DEF files, WatchInv, WatcherRight, Registered
  <2> QED BY <1>4, <2>4
<1> QED BY <1>5, <1>6

\* The game's thread asks, looks, installs and notes.
LEMMA MainRight ==
  ASSUME WatchInv, NEW m \in Maps,
         \/ Ensure \/ Accepted \/ Install \/ InstallFails
         \/ CutSidecar \/ WriteSidecar \/ ReplaceSidecar \/ SidecarFails
  PROVE  AboutToSpawn' /\ WatcherRight(m)'
<1>1. /\ UNCHANGED <<os, own, watching, watcher, pak>> /\ main'.map = main.map
      /\ main'.at = "watch" => os = "linux"
      /\ main'.at # "spawn"
  BY DEF Ensure, Accepted, Install, InstallFails, CutSidecar, WriteSidecar, ReplaceSidecar,
     SidecarFails, Go, NotInstalled, Noted, files
<1>2. AboutToSpawn'
  BY <1>1 DEF AboutToSpawn
<1>3. CASE Install
  <2>1. main'.at = "sidecar" /\ \A n \in Maps \ {main.map} : target'[n] = target[n]
    BY <1>3 DEF Install, Go, WatchInv, Inv, FilesInv, FileTypes
  <2>2. main.at = "install"
    BY <1>3 DEF Install, At
  <2>3. CASE main.map # m
    <3>1. MainFixing(m) => MainFixing(m)'
      BY <1>1, <2>3 DEF MainFixing, pak
    <3> QED BY <1>1, <1>2, <2>1, <2>3, <3>1, RestingMap DEF WatchInv, WatcherRight, Registered
  <2>4. CASE main.map = m
    <3>1. MainFixing(m)'
      BY <1>1, <2>1, <2>4 DEF MainFixing
    <3>2. target'[m] # None
      BY <1>3, <2>2, <2>4, VersionsAssumption
      DEF Install, WatchInv, Inv, FilesInv, FileTypes, MainAtWork, Installing
    <3>3. fix' = fix /\ (Fixed(m)' <=> Fixed(m))
      BY <1>1, PakUnchangedFixes DEF pak
    <3>4. Registered(m)' /\ FixesItsMap(m)' /\ SeenWhole(m)'
      BY <1>1, <3>3 DEF WatchInv, WatcherRight, Registered, FixesItsMap, SeenWhole
    <3>5. Handed(m)'
      BY <3>1 DEF Handed
    <3>6. SeenThere(m)' /\ Served(m)'
      BY <1>1, <3>2, <3>3 DEF WatchInv, WatcherRight, SeenThere, Served, Free
    <3> QED BY <1>2, <3>4, <3>5, <3>6 DEF WatcherRight
  <2> QED BY <2>3, <2>4
<1>4. CASE os = "windows"
  <2>1. watcher[m].at = "none"
    BY <1>4 DEF WatchInv, WatcherRight, Registered
  <2>2. fix' = fix /\ fix[m].at = "idle"
    BY <1>1, <2>1 DEF pak, WatchInv, WatcherRight, FixesItsMap
  <2> QED BY <1>1, <1>2, <2>1, <2>2
       DEF WatcherRight, Registered, FixesItsMap, Handed, SeenThere, SeenWhole, Served
<1>5. CASE os = "linux" /\ ~Install
  <2>1. UNCHANGED target
    BY <1>5 DEF Ensure, Accepted, InstallFails, CutSidecar, WriteSidecar, ReplaceSidecar,
       SidecarFails, files
  <2>2. main.at \in {"sidecar", "cut", "fix"} => main'.at \in {"sidecar", "cut", "fix"}
    BY <1>5 DEF Ensure, Accepted, InstallFails, CutSidecar, WriteSidecar, ReplaceSidecar,
       SidecarFails, Go, Noted, At
  <2>3. MainFixing(m) => MainFixing(m)'
    BY <1>1, <2>2 DEF MainFixing, pak
  <2> QED BY <1>1, <1>2, <2>1, <2>3, RestingMap DEF WatchInv, WatcherRight, Registered
<1>6. os \in {"linux", "windows"}
  BY DEF WatchInv, DownloadTyped
<1> QED BY <1>3, <1>4, <1>5, <1>6

\* The game's thread finds the map missing and has a watcher started.
LEMMA SpawningRight ==
  ASSUME WatchInv, WatchTyped', NEW m \in Maps, Watch \/ Spawn \/ SpawnFails
  PROVE  AboutToSpawn' /\ WatcherRight(m)'
<1>1. /\ main.at \in {"watch", "spawn"} /\ UNCHANGED <<os, target, own, pak>>
      /\ main'.map = main.map /\ main'.at \in {"fixTarget", "spawn", "idle"}
  BY DEF Watch, Spawn, SpawnFails, At, Go, files
<1>2. os = "linux"
  BY <1>1 DEF WatchInv, AboutToSpawn
<1>3. PICK n \in Maps : n = main.map
  BY <1>1 DEF WatchInv, Inv, FilesInv, MainAtWork
<1>4. MainFixing(m) => MainFixing(m)'
  BY <1>1 DEF MainFixing, pak
<1>5. watcher \in [Maps -> WatcherTypes]
  BY DEF WatchInv, WatchTyped
<1>6. CASE Watch
  <2>1. UNCHANGED watcher /\ watching \subseteq watching'
    BY <1>6 DEF Watch
  <2>2. WatcherRight(m)'
    BY <1>1, <1>4, <2>1, RestingMap DEF WatchInv, WatcherRight, Registered
  <2>3. AboutToSpawn'
    <3> SUFFICES ASSUME main'.at = "spawn"
                 PROVE  n \in watching' /\ watcher[n].at = "none" /\ target[n] = None
      BY <1>1, <1>2, <1>3, <2>1 DEF AboutToSpawn
    <3>1. ~OnDisk(n) /\ MayWatch(n) /\ watching' = watching \cup {n}
      BY <1>3, <1>6 DEF Watch, Go
    <3>2. target[n] = None /\ n \notin watching /\ n \in watching'
      BY <3>1 DEF OnDisk, MayWatch
    <3>3. watcher[n].at = "none"
      BY <3>2 DEF WatchInv, WatcherRight, Registered
    <3> QED BY <3>2, <3>3
  <2> QED BY <2>2, <2>3
<1>7. CASE SpawnFails
  <2>1. UNCHANGED watcher /\ watching' = watching \ {n} /\ main'.at = "idle" /\ main.at = "spawn"
    BY <1>3, <1>7 DEF SpawnFails, Go, At
  <2>2. watcher[n].at = "none"
    BY <1>3, <2>1 DEF WatchInv, AboutToSpawn
  <2>3. m \in watching' \/ watcher[m].at = "none"
    BY <2>1, <2>2 DEF WatchInv, WatcherRight, Registered
  <2>4. WatcherRight(m)'
    BY <1>1, <1>4, <2>1, <2>3, RestingMap
  <2> QED BY <2>1, <2>4 DEF AboutToSpawn
<1>8. CASE Spawn
  <2>1. watcher' = [watcher EXCEPT ![n] = Started] /\ UNCHANGED watching /\ main'.at = "idle"
        /\ main.at = "spawn"
    BY <1>3, <1>8 DEF Spawn, Go, At
  <2>2. watcher[n].at = "none" /\ n \in watching /\ target[n] = None
    BY <1>3, <2>1 DEF WatchInv, AboutToSpawn
  <2>3. Started.at = "poll" /\ Started.target = None /\ Started.own = None /\ None # Whole
    BY BoundsAssumption DEF Started, Asleep
  <2>4. CASE m = n
    <3>1. watcher'[m] = Started
      BY <1>5, <2>1, <2>4
    <3>2. fix' = fix /\ fix[m].at = "idle"
      BY <1>1, <2>2, <2>4 DEF pak, WatchInv, WatcherRight, FixesItsMap
    <3>3. Registered(m)' /\ FixesItsMap(m)' /\ Handed(m)'
      BY <1>1, <1>2, <2>1, <2>2, <2>4, <3>1, <3>2 DEF Registered, FixesItsMap, Handed
    <3>4. SeenThere(m)' /\ SeenWhole(m)' /\ Served(m)'
      BY <2>3, <3>1 DEF SeenThere, SeenWhole, Served
    <3> QED BY <2>1, <3>3, <3>4 DEF AboutToSpawn, WatcherRight
  <2>5. CASE m # n
    <3>1. watcher'[m] = watcher[m] /\ fix' = fix /\ (Fixed(m)' <=> Fixed(m))
      BY <1>1, <1>5, <2>1, <2>5, PakUnchangedFixes DEF pak
    <3>2. Registered(m)' /\ FixesItsMap(m)' /\ Handed(m)'
      BY <1>1, <1>4, <2>1, <3>1 DEF WatchInv, WatcherRight, Registered, FixesItsMap, Handed
    <3>3. SeenThere(m)' /\ SeenWhole(m)' /\ Served(m)'
      BY <1>1, <3>1 DEF WatchInv, WatcherRight, SeenThere, SeenWhole, Served, Free
    <3> QED BY <2>1, <3>2, <3>3 DEF AboutToSpawn, WatcherRight
  <2> QED BY <2>4, <2>5
<1> QED BY <1>6, <1>7, <1>8

\* The server's message, the game's own download, the player.
LEMMA OthersRight ==
  ASSUME WatchInv, NEW m \in Maps, NEW n \in Maps,
         (\E v \in Versions : ServerInfo(n, v)) \/ Grow(n) \/ Delete(n)
  PROVE  AboutToSpawn' /\ WatcherRight(m)'
<1>1. /\ main.at = "idle" /\ fix[Main].at = "idle"
      /\ UNCHANGED <<os, watching, watcher, pak>>
      /\ main'.at \in {"ensure", "watch", "idle"} /\ (main'.at = "watch" => os = "linux")
  BY DEF ServerInfo, Grow, Delete, At, Free, NotInstalled
<1>2. AboutToSpawn'
  BY <1>1 DEF AboutToSpawn
<1>3. ~MainFixing(m)
  BY <1>1 DEF MainFixing
<1>4. m \in watching' \/ watcher[m].at = "none"
  BY <1>1 DEF WatchInv, WatcherRight, Registered
<1>5. CASE \E v \in Versions : ServerInfo(n, v)
  <2>1. UNCHANGED <<target, own>>
    BY <1>5 DEF ServerInfo
  <2> QED BY <1>1, <1>2, <1>3, <1>4, <2>1, RestingMap
<1>6. fix' = fix /\ (Fixed(m)' <=> Fixed(m))
  BY <1>1, PakUnchangedFixes DEF pak
<1>7. Registered(m)' /\ FixesItsMap(m)' /\ Served(m)'
  BY <1>1, <1>6 DEF WatchInv, WatcherRight, Registered, FixesItsMap, Served, Free
<1>8. CASE Grow(n)
  <2>1. own' = [own EXCEPT ![n] = @ + 1] /\ own[n] < Whole /\ UNCHANGED target
    BY <1>8 DEF Grow
  <2>2. Handed(m)' /\ SeenThere(m)'
    BY <1>1, <1>3, <1>6, <2>1 DEF WatchInv, WatcherRight, Handed, SeenThere
  <2>3. own[m] = Whole => own'[m] = Whole
    BY <2>1, BoundsAssumption DEF WatchInv, DownloadTyped
  <2>4. SeenWhole(m)'
    BY <1>1, <2>3 DEF WatchInv, WatcherRight, SeenWhole
  <2> QED BY <1>2, <1>7, <2>2, <2>4 DEF WatcherRight
<1>9. CASE Delete(n)
  <2>1. target' = [target EXCEPT ![n] = None] /\ UNCHANGED own
    BY <1>9 DEF Delete
  <2>2. target'[m] # None => target[m] # None
    BY <2>1 DEF WatchInv, Inv, FilesInv, FileTypes
  <2>3. watcher[m].at # "none" /\ target[m] # None => Fixed(m)
    BY <1>3 DEF WatchInv, WatcherRight, Handed
  <2>4. Handed(m)'
    BY <1>1, <1>6, <2>2, <2>3 DEF Handed
  <2>5. SeenThere(m)' /\ SeenWhole(m)'
    BY <1>1, <1>6, <2>1, <2>3 DEF WatchInv, WatcherRight, SeenThere, SeenWhole
  <2> QED BY <1>2, <1>7, <2>4, <2>5 DEF WatcherRight
<1> QED BY <1>5, <1>8, <1>9

\* The launcher's sweep is a fixer of its own.
LEMMA SweepRight ==
  ASSUME WatchInv, PakMoves, NEW m \in Maps, NEW n \in Maps, SweepFile(n)
  PROVE  AboutToSpawn' /\ WatcherRight(m)'
<1>1. FixBegin(Sweep, n) /\ UNCHANGED <<os, files, main, watching, watcher>>
  BY DEF SweepFile
<1>2. Sweep \in Fixers /\ Sweep # Main /\ Sweep # m /\ Main \in Fixers
  BY FixersAssumption
<1>3. GoesOnOrEnds(Sweep, n)
  BY <1>1, <1>2, BeginSettles DEF WatchInv, Inv
<1>4. fix[Sweep].at = "idle"
  BY <1>1 DEF FixBegin, Free
<1>5. MainFixing(m) => MainFixing(m)'
  BY <1>1, <1>2, <1>3 DEF MainFixing, GoesOnOrEnds
<1>6. WatcherRight(m)'
  BY <1>1, <1>2, <1>3, <1>4, <1>5, FixerRight
<1> QED BY <1>1, <1>6 DEF WatchInv, AboutToSpawn, files

\* The watchers end with the game.
LEMMA CrashRight ==
  ASSUME WatchInv, NEW m \in Maps, Crash
  PROVE  AboutToSpawn' /\ WatcherRight(m)'
<1>1. main'.at = "idle" /\ watcher'[m] = Asleep
  BY DEF Crash, Go
<1>2. m \in Fixers \ {Sweep}
  BY FixersAssumption
<1>3. fix'[m] = Resting
  BY <1>2 DEF Crash, FixersDie
<1>4. Asleep.at = "none" /\ Resting.at = "idle"
  BY DEF Asleep, Resting
<1>5. AboutToSpawn'
  BY <1>1 DEF AboutToSpawn
<1> QED BY <1>1, <1>3, <1>4, <1>5
     DEF WatcherRight, Registered, FixesItsMap, Handed, SeenThere, SeenWhole, Served

\* A step of another map's watcher.
LEMMA OtherWatcherRight ==
  ASSUME WatchInv, PakMoves, NEW n \in Maps, WatcherStep(n), NEW m \in Maps \ {n}
  PROVE  WatcherRight(m)'
<1>1. /\ UNCHANGED <<os, files, main>> /\ watching' \in {watching, watching \ {n}}
      /\ UNCHANGED pak \/ FixBegin(n, n)
  BY DEF WatcherStep, PollTarget, PollOwn, GiveUp, Cleanup, Look
<1>2. watcher'[m] = watcher[m]
  BY DEF WatcherStep, PollTarget, PollOwn, GiveUp, Cleanup, Look, WatchInv, WatchTyped
<1>3. m \in Fixers /\ n \in Fixers /\ Main \in Fixers /\ n # Main
  BY FixersAssumption
<1>4. fix'[m] = fix[m] /\ fix'[Main] = fix[Main]
  <2>1. CASE UNCHANGED pak
    BY <2>1 DEF pak
  <2>2. CASE FixBegin(n, n)
    BY <1>3, <2>2, BeginSettles DEF GoesOnOrEnds, WatchInv, Inv
  <2> QED BY <1>1, <2>1, <2>2
<1>5. Fixed(m) => Fixed(m)'
  BY FixedStays DEF WatchInv, Inv
<1>6. MainFixing(m) => MainFixing(m)'
  BY <1>1, <1>4 DEF MainFixing
<1>7. Registered(m)' /\ FixesItsMap(m)' /\ Handed(m)'
  BY <1>1, <1>2, <1>4, <1>5, <1>6 DEF WatchInv, WatcherRight, Registered, FixesItsMap, Handed, files
<1>8. SeenThere(m)' /\ SeenWhole(m)' /\ Served(m)'
  BY <1>1, <1>2, <1>4, <1>5 DEF WatchInv, WatcherRight, SeenThere, SeenWhole, Served, Free, files
<1> QED BY <1>7, <1>8 DEF WatcherRight

\* A watcher that has found its file fixes it; the one that has not has looked
\* at its size.
LEMMA LooksFixing ==
  ASSUME WatchInv, NEW m \in Maps, NEW w \in WatcherTypes,
         watcher[m].at # "none",
         watcher' = [watcher EXCEPT ![m] = [w EXCEPT !.at = "cleanup"]], FixBegin(m, m),
         w.own # Whole \/ own[m] = Whole, UNCHANGED <<os, files, main, watching>>
  PROVE  WatcherRight(m)'
<1>1. GoesOnOrEnds(m, m) /\ m \in Fixers /\ Main \in Fixers /\ m # Main
  BY BeginSettles, FixersAssumption DEF WatchInv, Inv
<1>2. /\ fix'[Main] = fix[Main]
      /\ fix'[m].at = "idle" => Fixed(m)'
      /\ fix'[m].at # "idle" => fix'[m].map = m
  BY <1>1 DEF GoesOnOrEnds
<1>3. watcher'[m] = [w EXCEPT !.at = "cleanup"] /\ watcher'[m].at = "cleanup"
      /\ watcher'[m].own = w.own
  BY DEF WatchInv, WatchTyped, WatcherTypes
<1>4. Fixed(m) => Fixed(m)'
  BY <1>1, FixedStays DEF WatchInv, Inv, PakMoves
<1>5. MainFixing(m) => MainFixing(m)'
  BY <1>2 DEF MainFixing
<1>6. Registered(m)' /\ FixesItsMap(m)' /\ Handed(m)'
  BY <1>2, <1>3, <1>4, <1>5 DEF WatchInv, WatcherRight, Registered, FixesItsMap, Handed, files
<1>7. SeenThere(m)' /\ SeenWhole(m)'
  BY <1>3 DEF SeenThere, SeenWhole, files
<1>8. Served(m)'
  BY <1>2 DEF Served, Free
<1> QED BY <1>6, <1>7, <1>8 DEF WatcherRight

\* A watcher that goes on polling, as `new`.
LEMMA PollsOn ==
  ASSUME WatchInv, NEW m \in Maps, NEW new, watcher[m].at # "none", Free(m),
         watcher' = [watcher EXCEPT ![m] = new], new.at \in {"poll", "own"}, UNCHANGED pak,
         new.target # None => Fixed(m) \/ (target[m] # None /\ new.idle = 0),
         new.own = Whole => own[m] = Whole /\ (new.at = "poll" => new.idle = 0),
         UNCHANGED <<os, files, main, watching>>
  PROVE  WatcherRight(m)'
<1>1. watcher'[m] = new
  BY DEF WatchInv, WatchTyped
<1>2. fix' = fix /\ (Fixed(m)' <=> Fixed(m)) /\ (MainFixing(m)' <=> MainFixing(m))
  BY PakUnchangedFixes DEF pak, MainFixing
<1>3. Registered(m)' /\ FixesItsMap(m)' /\ Handed(m)'
  BY <1>1, <1>2 DEF WatchInv, WatcherRight, Registered, FixesItsMap, Handed, files, Free
<1>4. SeenThere(m)' /\ SeenWhole(m)' /\ Served(m)'
  BY <1>1, <1>2 DEF SeenThere, SeenWhole, Served, files
<1> QED BY <1>3, <1>4 DEF WatcherRight

LEMMA PollTargetRight ==
  ASSUME WatchInv, NEW m \in Maps, PollTarget(m)
  PROVE  WatcherRight(m)'
<1> DEFINE w == [watcher[m] EXCEPT !.idle = @ + 1]
<1>1. /\ watcher[m].at = "poll" /\ Free(m) /\ watcher[m].idle < MaxIdle
      /\ Look(m, w, "target", target[m], TRUE, "own")
      /\ UNCHANGED <<os, files, main, watching, counters>>
  BY DEF PollTarget, WatcherAt
<1>2. watcher[m] \in WatcherTypes
  BY DEF WatchInv, WatchTyped
<1>3. /\ w \in WatcherTypes /\ w.at = "poll" /\ w.target = watcher[m].target /\ w.own = watcher[m].own
  BY <1>1, <1>2, BoundsAssumption DEF WatcherTypes
<1>4. w.own = Whole => own[m] = Whole
  BY <1>1, <1>3 DEF WatchInv, WatcherRight, SeenWhole
<1>5. w.target # None => Fixed(m) \/ target[m] # None
  BY <1>1, <1>3 DEF WatchInv, WatcherRight, SeenThere
<1> HIDE DEF w
<1>6. CASE target[m] # None /\ target[m] = w.target
  <2>1. watcher' = [watcher EXCEPT ![m] = [w EXCEPT !.at = "cleanup"]]
    BY <1>1, <1>6 DEF Look
  <2>2. FixBegin(m, m)
    BY <1>1, <1>6 DEF Look
  <2> QED BY <1>1, <1>3, <1>4, <2>1, <2>2, LooksFixing
<1>7. CASE target[m] = None
  <2>1. watcher' = [watcher EXCEPT ![m] = [w EXCEPT !.at = "own"]] /\ UNCHANGED pak
    BY <1>1, <1>7 DEF Look
  <2>2. /\ [w EXCEPT !.at = "own"].at = "own" /\ [w EXCEPT !.at = "own"].target = w.target
        /\ [w EXCEPT !.at = "own"].own = w.own
    BY <1>3 DEF WatcherTypes
  <2> QED BY <1>1, <1>4, <1>5, <1>7, <2>1, <2>2, PollsOn
<1>8. CASE target[m] # None /\ target[m] # w.target
  <2> DEFINE new == [[w EXCEPT !.idle = 0, !.target = target[m]] EXCEPT !.at = "own"]
  <2>1. watcher' = [watcher EXCEPT ![m] = new] /\ UNCHANGED pak
    BY <1>1, <1>8 DEF Look
  <2>2. new.at = "own" /\ new.idle = 0 /\ new.own = w.own
    BY <1>3 DEF WatcherTypes
  <2> HIDE DEF new
  <2> QED BY <1>1, <1>4, <1>8, <2>1, <2>2, PollsOn
<1> QED BY <1>6, <1>7, <1>8

LEMMA PollOwnRight ==
  ASSUME WatchInv, NEW m \in Maps, PollOwn(m)
  PROVE  WatcherRight(m)'
<1>1. PICK w \in WatcherTypes : w = watcher[m]
  BY DEF WatchInv, WatchTyped
<1>2. PICK size : size = IF own[m] = 0 THEN None ELSE own[m]
  OBVIOUS
<1>3. PICK sound \in BOOLEAN : sound = (own[m] = Whole)
  OBVIOUS
<1>4. /\ w.at = "own" /\ Free(m)
      /\ Look(m, w, "own", size, sound, "poll")
      /\ UNCHANGED <<os, files, main, watching, counters>>
  BY <1>1, <1>2, <1>3 DEF PollOwn, WatcherAt
<1>5. w.own = Whole => own[m] = Whole
  BY <1>1, <1>4 DEF WatchInv, WatcherRight, SeenWhole
<1>6. w.target # None => Fixed(m) \/ (target[m] # None /\ w.idle = 0)
  BY <1>1, <1>4 DEF WatchInv, WatcherRight, SeenThere
<1>7. own[m] = Whole => size = Whole /\ size # None
  BY <1>2, BoundsAssumption
<1>8. CASE size # None /\ size = w.own /\ sound
  <2>1. watcher' = [watcher EXCEPT ![m] = [w EXCEPT !.at = "cleanup"]]
    BY <1>4, <1>8 DEF Look
  <2>2. FixBegin(m, m)
    BY <1>4, <1>8 DEF Look
  <2> QED BY <1>1, <1>4, <1>5, <2>1, <2>2, LooksFixing
<1>9. CASE size = None \/ (size = w.own /\ ~sound)
  <2>1. watcher' = [watcher EXCEPT ![m] = [w EXCEPT !.at = "poll"]] /\ UNCHANGED pak
    BY <1>4, <1>9 DEF Look, AfterError
  <2>2. /\ [w EXCEPT !.at = "poll"].at = "poll" /\ [w EXCEPT !.at = "poll"].target = w.target
        /\ [w EXCEPT !.at = "poll"].own = w.own /\ [w EXCEPT !.at = "poll"].idle = w.idle
    BY DEF WatcherTypes
  <2>3. w.own # Whole
    BY <1>3, <1>5, <1>7, <1>9
  <2> QED BY <1>1, <1>4, <1>6, <2>1, <2>2, <2>3, PollsOn
<1>10. CASE size # None /\ size # w.own
  <2> DEFINE new == [[w EXCEPT !.idle = 0, !.own = size] EXCEPT !.at = "poll"]
  <2>1. watcher' = [watcher EXCEPT ![m] = new] /\ UNCHANGED pak
    BY <1>4, <1>10 DEF Look
  <2>2. new.at = "poll" /\ new.idle = 0 /\ new.target = w.target /\ new.own = size
    BY DEF WatcherTypes
  <2>3. size = Whole => own[m] = Whole
    BY <1>2, <1>10
  <2> HIDE DEF new
  <2> QED BY <1>1, <1>4, <1>6, <2>1, <2>2, <2>3, PollsOn
<1> QED BY <1>8, <1>9, <1>10

\* The watcher that takes a step.
LEMMA WatcherStepRight ==
  ASSUME WatchInv, NEW m \in Maps, WatcherStep(m)
  PROVE  WatcherRight(m)'
<1>1. CASE PollTarget(m)
  BY <1>1, PollTargetRight
<1>2. CASE PollOwn(m)
  BY <1>2, PollOwnRight
<1>3. CASE GiveUp(m)
  <2>1. PICK w \in WatcherTypes : w = watcher[m]
    BY DEF WatchInv, WatchTyped
  <2>2. /\ w.at = "poll" /\ w.idle = MaxIdle /\ Free(m)
        /\ watcher' = [watcher EXCEPT ![m].at = "cleanup"]
        /\ UNCHANGED <<os, files, main, watching, pak>>
    BY <1>3, <2>1, BoundsAssumption DEF GiveUp, WatcherAt, WatcherTypes
  <2>3. watcher'[m] = [w EXCEPT !.at = "cleanup"]
    BY <2>1, <2>2 DEF WatchInv, WatchTyped
  <2>4. /\ watcher'[m].at = "cleanup" /\ watcher'[m].idle = w.idle
        /\ watcher'[m].target = w.target /\ watcher'[m].own = w.own
    BY <2>3 DEF WatcherTypes
  <2>5. w.own # Whole
    BY <2>1, <2>2, BoundsAssumption DEF WatchInv, WatcherRight, SeenWhole
  <2>6. w.target # None => Fixed(m)
    BY <2>1, <2>2, BoundsAssumption DEF WatchInv, WatcherRight, SeenThere
  <2>7. fix' = fix /\ (Fixed(m)' <=> Fixed(m)) /\ (MainFixing(m)' <=> MainFixing(m))
    BY <2>2, PakUnchangedFixes DEF pak, MainFixing
  <2>8. Registered(m)' /\ FixesItsMap(m)' /\ Handed(m)'
    BY <2>1, <2>2, <2>4, <2>7 DEF WatchInv, WatcherRight, Registered, FixesItsMap, Handed, files, Free
  <2>9. SeenThere(m)' /\ SeenWhole(m)' /\ Served(m)'
    BY <2>2, <2>4, <2>5, <2>6, <2>7 DEF SeenThere, SeenWhole, Served
  <2> QED BY <2>8, <2>9 DEF WatcherRight
<1>4. CASE Cleanup(m)
  <2>1. watcher'[m] = Asleep /\ UNCHANGED pak /\ fix[m].at = "idle"
    BY <1>4 DEF Cleanup, WatcherAt, Free, WatchInv, WatchTyped
  <2>2. Asleep.at = "none"
    BY DEF Asleep
  <2> QED BY <2>1, <2>2
       DEF pak, WatcherRight, Registered, FixesItsMap, Handed, SeenThere, SeenWhole, Served
<1> QED BY <1>1, <1>2, <1>3, <1>4 DEF WatcherStep

LEMMA WatcherKeepsMain ==
  ASSUME WatchInv, NEW n \in Maps, WatcherStep(n)
  PROVE  AboutToSpawn'
<1>1. UNCHANGED <<os, target, main>>
  BY DEF WatcherStep, PollTarget, PollOwn, GiveUp, Cleanup, files
<1>2. ASSUME main.at = "spawn"
      PROVE  main.map \in watching' /\ watcher'[main.map].at = "none"
  <2>1. main.map \in Maps /\ main.map \in watching /\ watcher[main.map].at = "none"
    BY <1>2 DEF WatchInv, AboutToSpawn, Inv, FilesInv, MainAtWork
  <2>2. watcher[n].at # "none"
    BY DEF WatcherStep, PollTarget, PollOwn, GiveUp, Cleanup, WatcherAt
  <2>3. watching' \in {watching, watching \ {n}} /\ watcher'[main.map] = watcher[main.map]
    BY <2>1, <2>2
    DEF WatcherStep, PollTarget, PollOwn, GiveUp, Cleanup, Look, WatchInv, WatchTyped
  <2> QED BY <2>1, <2>2, <2>3
<1> QED BY <1>1, <1>2 DEF WatchInv, AboutToSpawn

LEMMA WatchInvKept == WatchInv /\ [Next]_vars => WatchInv'
<1> SUFFICES ASSUME WatchInv, [Next]_vars PROVE WatchInv'
  OBVIOUS
<1>1. Inv' /\ WatchTyped' /\ DownloadTyped'
  BY NextKeeps, WatchKept, DownloadKept DEF WatchInv, Inv
<1>2. PakMoves /\ Progress'
  BY NextMovesPak, ProgressKept DEF WatchInv, Inv
<1>3. ASSUME NEW m \in Maps PROVE AboutToSpawn' /\ WatcherRight(m)'
  <2>1. CASE Ensure \/ Accepted \/ Install \/ InstallFails
             \/ CutSidecar \/ WriteSidecar \/ ReplaceSidecar \/ SidecarFails
    BY <2>1, MainRight
  <2>2. CASE FixInstalled \/ FixTarget \/ FixOwn
    BY <1>2, <2>2, MainFixesRight
  <2>3. CASE Watch \/ Spawn \/ SpawnFails
    BY <1>1, <2>3, SpawningRight
  <2>4. ASSUME NEW n \in Maps, (\E v \in Versions : ServerInfo(n, v)) \/ Grow(n) \/ Delete(n)
        PROVE  AboutToSpawn' /\ WatcherRight(m)'
    BY <2>4, OthersRight
  <2>5. ASSUME NEW n \in Maps, SweepFile(n) PROVE AboutToSpawn' /\ WatcherRight(m)'
    BY <1>2, <2>5, SweepRight
  <2>6. CASE Crash
    BY <2>6, CrashRight
  <2>7. ASSUME NEW x \in Fixers, FixerStep(x) PROVE AboutToSpawn' /\ WatcherRight(m)'
    <3>1. AboutToSpawn'
      BY <2>7 DEF FixerStep, WatchInv, AboutToSpawn, files
    <3> QED BY <1>2, <2>7, <3>1, FixerStepRight
  <2>8. ASSUME NEW n \in Maps, WatcherStep(n) PROVE AboutToSpawn' /\ WatcherRight(m)'
    <3>1. AboutToSpawn'
      BY <2>8, WatcherKeepsMain
    <3>2. CASE n = m
      BY <2>8, <3>1, <3>2, WatcherStepRight
    <3>3. CASE n # m
      BY <1>2, <2>8, <3>1, <3>3, OtherWatcherRight
    <3> QED BY <3>2, <3>3
  <2>9. CASE UNCHANGED vars
    <3>1. UNCHANGED <<os, main, target, own, watching, watcher, pak>>
      BY <2>9 DEF vars, files
    <3>2. AboutToSpawn'
      BY <3>1 DEF WatchInv, AboutToSpawn
    <3>3. MainFixing(m) => MainFixing(m)'
      BY <3>1 DEF MainFixing, pak
    <3>4. WatcherRight(m)'
      BY <3>1, <3>3, RestingMap DEF WatchInv, WatcherRight, Registered
    <3> QED BY <3>2, <3>4
  <2> QED BY <2>1, <2>2, <2>3, <2>4, <2>5, <2>6, <2>7, <2>8, <2>9 DEF Next, MainStep
<1>4. AboutToSpawn'
  <2>1. CASE main'.at = "idle"
    BY <2>1 DEF AboutToSpawn
  <2>2. CASE main'.at # "idle"
    <3>1. main'.map \in Maps
      BY <1>1, <2>2 DEF Inv, FilesInv, MainAtWork
    <3> QED BY <1>3, <3>1
  <2> QED BY <2>1, <2>2
<1> QED BY <1>1, <1>2, <1>3, <1>4 DEF WatchInv

\* ServedAtEnd, the safe half of WatchersFinish: a watcher is done, or has
\* waited in vain.
THEOREM WatchersServe == Spec => []ServedAtEnd
<1>1. WatchInv => ServedAtEnd
  BY DEF WatchInv, WatcherRight, Served, ServedAtEnd
<1> QED BY <1>1, WatchInvInitially, WatchInvKept, PTL DEF Spec
=============================================================================
