------------------------------- MODULE PakFix -------------------------------
(***************************************************************************)
(* The case fix for the pakfiles of maps (bhopfix-core/src/pakfix.rs):     *)
(* entries whose names have capitals are written as lower-case loose files *)
(* under cstrike/download.  It runs on the game's main thread, on watcher  *)
(* threads of the hook library and in the launcher's sweep, all at once;   *)
(* MapInstall says who starts it on which file.                            *)
(*                                                                         *)
(* An asset is the path of a loose file.  The content of a loose file is   *)
(* told by the map it was taken from.                                      *)
(***************************************************************************)
EXTENDS Naturals, FiniteSets

CONSTANTS
  Maps,     \* map names
  Assets,   \* paths of loose files
  Packs,    \* per map: its stored entries with capitals, at the right roots
  Fixers,   \* whoever may run fix_bsp
  None,     \* no file
  Half,     \* a file that is not completely written
  Players   \* a file the player had there before

ASSUME PacksAssumption == Packs \in [Maps -> SUBSET Assets]
ASSUME ContentsAssumption ==
  /\ {None, Half, Players} \cap Maps = {}
  /\ None # Half /\ None # Players /\ Half # Players

VARIABLES
  fix,      \* per fixer: its step, the map and the entries still to do
  parts,    \* temporary files, by name
  loose,    \* per asset: the loose file
  spoilt    \* history: assets some extraction of which has failed

pak == <<fix, parts, loose, spoilt>>

Resting == [at |-> "idle", map |-> None, todo |-> {}]
Names == Assets \X Fixers

PakTypeOK ==
  /\ fix \in [Fixers -> [at : {"idle", "check", "create", "write", "rename"},
                         map : Maps \cup {None}, todo : SUBSET Assets]]
  /\ parts \in [Names -> Maps \cup {None, Half}]
  /\ loose \in [Assets -> Maps \cup {None, Half, Players}]
  /\ spoilt \subseteq Assets

PakInit ==
  /\ fix = [x \in Fixers |-> Resting]
  /\ parts = [n \in Names |-> None]
  /\ loose \in [Assets -> {None, Players}]
  /\ spoilt = {}

Free(x) == fix[x].at = "idle"

\* The entry of the central directory that is next.
Entry(x) == CHOOSE a \in fix[x].todo : TRUE

\* Mutation: the temporary name is made of the destination alone.
PartNameShared(x, a) == <<a, CHOOSE y \in Fixers : TRUE>>

\* The temporary name has the process and a serial number in it.
PartName(x, a) == <<a, x>>

-----------------------------------------------------------------------------

\* fix_bsp has read a sound BSP of map m and begins with its directory.
FixBegin(x, m) ==
  /\ Free(x)
  /\ fix' = [fix EXCEPT ![x] = IF Packs[m] = {} THEN Resting
                               ELSE [at |-> "check", map |-> m, todo |-> Packs[m]]]
  /\ UNCHANGED <<parts, loose, spoilt>>

To(x, step) == fix' = [fix EXCEPT ![x].at = step]

\* On to what is left of the directory, or back to the caller.
Continue(x, left) ==
  fix' = [fix EXCEPT ![x] = IF left = {} THEN Resting
                            ELSE [at |-> "check", map |-> fix[x].map, todo |-> left]]

Skip(x) == Continue(x, fix[x].todo \ {Entry(x)})

\* dest.exists().
Check(x) ==
  /\ fix[x].at = "check"
  /\ IF loose[Entry(x)] = None THEN To(x, "create") ELSE Skip(x)
  /\ UNCHANGED <<parts, loose, spoilt>>

\* The entry is compressed or damaged: it is left out.
Refuse(x) ==
  /\ fix[x].at = "create"
  /\ Skip(x)
  /\ spoilt' = spoilt \cup {Entry(x)}
  /\ UNCHANGED <<parts, loose>>

\* The directory is cut short or the write budget is used up.
Stop(x) ==
  /\ fix[x].at = "check"
  /\ Continue(x, {})
  /\ spoilt' = spoilt \cup fix[x].todo
  /\ UNCHANGED <<parts, loose>>

\* fs::write creates or truncates the temporary file ...
Create(x) ==
  /\ fix[x].at = "create"
  /\ To(x, "write")
  /\ parts' = [parts EXCEPT ![PartName(x, Entry(x))] = Half]
  /\ UNCHANGED <<loose, spoilt>>

\* ... and fills it.
Write(x) ==
  /\ fix[x].at = "write"
  /\ To(x, "rename")
  /\ parts' = [parts EXCEPT ![PartName(x, Entry(x))] = fix[x].map]
  /\ UNCHANGED <<loose, spoilt>>

\* The disk is full, or the rename fails: the temporary file is removed.
Abandon(x) ==
  /\ fix[x].at \in {"write", "rename"}
  /\ Skip(x)
  /\ parts' = [parts EXCEPT ![PartName(x, Entry(x))] = None]
  /\ spoilt' = spoilt \cup {Entry(x)}
  /\ UNCHANGED loose

Rename(x) ==
  LET part == PartName(x, Entry(x))
  IN  /\ fix[x].at = "rename"
      /\ parts[part] # None
      /\ loose' = [loose EXCEPT ![Entry(x)] = parts[part]]
      /\ parts' = [parts EXCEPT ![part] = None]
      /\ Skip(x)
      /\ UNCHANGED spoilt

FixStep(x) ==
  Check(x) \/ Refuse(x) \/ Stop(x) \/ Create(x) \/ Write(x) \/ Abandon(x) \/ Rename(x)

\* The process of these fixers ends; what they wrote stays.
FixersDie(dead) ==
  /\ fix' = [x \in Fixers |-> IF x \in dead THEN Resting ELSE fix[x]]
  /\ UNCHANGED <<parts, loose, spoilt>>

-----------------------------------------------------------------------------

\* Every entry of the map is there, or its extraction failed.
Fixed(m) == \A a \in Packs[m] : loose[a] # None \/ a \in spoilt
=============================================================================
