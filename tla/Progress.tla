------------------------------- MODULE Progress -------------------------------
(***************************************************************************)
(* What survives the game: cleared levels and settings, held in            *)
(* room.progress and in one JSON file (persistence/progressStore.ts), and  *)
(* the handlers that save them (registerHandlers.ts).                      *)
(*                                                                         *)
(* A save computes the whole next progress, writes it to a temporary file, *)
(* renames that file onto the progress file and only then changes the      *)
(* room.  Nothing serialises two saves.  A temporary file is named after   *)
(* the millisecond, so that saves started within one millisecond share it. *)
(* The server runs with the levels locked, as in production.               *)
(***************************************************************************)
EXTENDS Naturals, FiniteSets

CONSTANTS
  LastLevel,     \* levels are 1..LastLevel
  Fields,        \* the settings a host changes
  Options,       \* their values
  Default,       \* the value of every setting in defaultSettings
  Torn,          \* a file that is not JSON
  Empty,         \* a file that was just truncated
  MaxSaves,      \* bound on the saves of a behaviour
  MaxInFlight    \* bound on the saves that overlap

ASSUME DefaultAssumption == Default \in Options
ASSUME BoundAssumption == {LastLevel, MaxSaves, MaxInFlight} \subseteq Nat

VARIABLES
  phase,      \* "waiting", "levelSelect", "playing", "over" or "stopping"
  level,      \* the level that is played, 0 for none
  passed,     \* whether it was cleared
  progress,   \* room.progress; room.settings is its settings
  saves,      \* saves under way
  count,      \* saves started so far
  overlapped, \* history: the saves of this process that ran beside another one
  path,       \* the inode at each temporary path, 0 for no file
  target,     \* the inode of progress.json
  data        \* what each inode holds; 0 is the inode of synchronous writes

gameVars == <<phase, level, passed>>
fileVars == <<path, target, data>>
saveVars == <<saves, count, overlapped>>
progressVars == <<gameVars, progress, saveVars, fileVars>>

Levels == 1..LastLevel
Content == [cleared : SUBSET Levels, settings : [Fields -> Options]]

\* fallbackProgress
Fallback == [cleared |-> {}, settings |-> [f \in Fields |-> Default]]

ProgressInit ==
  /\ phase = "waiting" /\ level = 0 /\ passed = FALSE
  /\ progress = Fallback
  /\ saves = {} /\ count = 0 /\ overlapped = {}
  /\ path = [n \in 1..MaxSaves |-> 0]
  /\ target = 0
  /\ data = [i \in 0..MaxSaves |-> IF i = 0 THEN Fallback ELSE Empty]

-----------------------------------------------------------------------------
(* One save: writeFile of a temporary file, then rename. *)

\* A handler calls saveProgress; another save of the same millisecond has the
\* same temporary path.
BeginSave(change, content) ==
  /\ count < MaxSaves /\ Cardinality(saves) < MaxInFlight
  /\ count' = count + 1
  /\ \E name \in {count + 1} \cup {s.name : s \in {t \in saves : t.id = count}} :
       saves' = saves \cup {[id |-> count + 1, change |-> change, content |-> content,
                             name |-> name, stage |-> "opening", inode |-> 0]}
  /\ overlapped' = IF saves = {} THEN overlapped
                   ELSE overlapped \cup {count + 1} \cup {s.id : s \in saves}
  /\ UNCHANGED progress

\* Fault: the progress file itself is truncated and written.
OpenTarget(s) ==
  /\ s.stage = "opening"
  /\ saves' = (saves \ {s}) \cup {[s EXCEPT !.stage = "writing", !.inode = target]}
  /\ data' = [data EXCEPT ![target] = Empty]
  /\ path' = [path EXCEPT ![s.name] = target]
  /\ UNCHANGED <<gameVars, progress, count, overlapped, target>>

Open(s) ==
  LET inode == IF path[s.name] = 0 THEN s.id ELSE path[s.name]
  IN  /\ s.stage = "opening"
      /\ saves' = (saves \ {s}) \cup {[s EXCEPT !.stage = "writing", !.inode = inode]}
      /\ data' = [data EXCEPT ![inode] = Empty]
      /\ path' = [path EXCEPT ![s.name] = inode]
      /\ UNCHANGED <<gameVars, progress, count, overlapped, target>>

\* What was written to the inode before may be longer and leave its tail.
Write(s) ==
  /\ s.stage = "writing"
  /\ saves' = (saves \ {s}) \cup {[s EXCEPT !.stage = "renaming"]}
  /\ \E d \in {s.content} \cup (IF data[s.inode] \in {Empty, s.content} THEN {} ELSE {Torn}) :
       data' = [data EXCEPT ![s.inode] = d]
  /\ UNCHANGED <<gameVars, progress, count, overlapped, path, target>>

RenameSave(s) ==
  /\ s.stage = "renaming"
  /\ path[s.name] # 0
  /\ target' = path[s.name]
  /\ path' = [path EXCEPT ![s.name] = 0]
  /\ saves' = (saves \ {s}) \cup {[s EXCEPT !.stage = "renamed"]}
  /\ UNCHANGED <<gameVars, progress, count, overlapped, data>>

\* The handler goes on after its await.
Resume(s) ==
  /\ s.stage = "renamed"
  /\ phase # "stopping"
  /\ progress' = s.content
  /\ saves' = saves \ {s}
  /\ UNCHANGED <<gameVars, count, overlapped, fileVars>>

\* The disk is full, or the temporary file is gone: the handler reports it
\* and leaves the room alone.
SaveFails(s) ==
  /\ s.stage \in {"opening", "renaming"}
  /\ saves' = saves \ {s}
  /\ UNCHANGED <<gameVars, progress, count, overlapped, fileVars>>

-----------------------------------------------------------------------------
(* Handlers. *)

\* Fault: the other settings are taken from the defaults.
SettingsUpdateResets(f, v) ==
  /\ phase = "waiting"
  /\ BeginSave(f, [progress EXCEPT !.settings = [Fallback.settings EXCEPT ![f] = v]])
  /\ UNCHANGED <<gameVars, fileVars>>

\* settings:update of the host: the phase is checked before the save.
SettingsUpdate(f, v) ==
  /\ phase = "waiting"
  /\ BeginSave(f, [progress EXCEPT !.settings[f] = v])
  /\ UNCHANGED <<gameVars, fileVars>>

GameStart ==
  /\ phase = "waiting"
  /\ phase' = "levelSelect"
  /\ UNCHANGED <<level, passed, progress, saveVars, fileVars>>

Play(l) ==
  /\ phase' = "playing"
  /\ level' = l
  /\ passed' = FALSE
  /\ UNCHANGED <<progress, saveVars, fileVars>>

\* isLevelUnlocked
IsUnlocked(l) == l = 1 \/ l - 1 \in progress.cleared

HostSelectLevel(l) == phase = "levelSelect" /\ IsUnlocked(l) /\ Play(l)

\* autoSelectRandomLevel when the host takes too long.
AutoSelect(l) == phase = "levelSelect" /\ Play(l)

\* afterRevealIfNeeded of a level that is cleared: withClearedLevel is saved.
ClearLevel ==
  /\ phase = "playing"
  /\ phase' = "over"
  /\ passed' = TRUE
  /\ BeginSave("cleared", [progress EXCEPT !.cleared = @ \cup {level}])
  /\ UNCHANGED <<level, fileVars>>

FailLevel ==
  /\ phase = "playing"
  /\ phase' = "over"
  /\ UNCHANGED <<level, passed, progress, saveVars, fileVars>>

Retry == phase = "over" /\ Play(level)

\* game:next asks for a victory, not for its save.
NextLevel == phase = "over" /\ passed /\ level < LastLevel /\ Play(level + 1)

BackToWaiting ==
  /\ phase \in {"levelSelect", "playing", "over"}
  /\ phase' = "waiting"
  /\ level' = 0
  /\ passed' = FALSE
  /\ UNCHANGED <<progress, saveVars, fileVars>>

-----------------------------------------------------------------------------
(* The process. *)

\* SIGTERM: flushSync writes the room's progress over whatever is there;
\* saves under way go on until the process exits.
Shutdown ==
  /\ phase # "stopping"
  /\ phase' = "stopping"
  /\ level' = 0 /\ passed' = FALSE
  /\ data' = [data EXCEPT ![0] = progress]
  /\ target' = 0
  /\ UNCHANGED <<progress, saveVars, path>>

\* load: a file that cannot be parsed counts as no progress.
Load == IF data[target] \in Content THEN data[target] ELSE Fallback

\* The process exits or crashes at any point, and a new one starts.
ServerRestart ==
  /\ phase' = "waiting" /\ level' = 0 /\ passed' = FALSE
  /\ progress' = Load
  /\ saves' = {} /\ overlapped' = {}
  /\ path' = [n \in 1..MaxSaves |-> 0]
  /\ UNCHANGED <<count, target, data>>

ProgressNext ==
  \/ \E f \in Fields, v \in Options : SettingsUpdate(f, v)
  \/ GameStart \/ ClearLevel \/ FailLevel \/ Retry \/ NextLevel \/ BackToWaiting
  \/ \E l \in Levels : HostSelectLevel(l) \/ AutoSelect(l)
  \/ \E s \in saves : Open(s) \/ Write(s) \/ RenameSave(s) \/ Resume(s) \/ SaveFails(s)
  \/ Shutdown \/ ServerRestart

ProgressSpec == ProgressInit /\ [][ProgressNext]_progressVars

-----------------------------------------------------------------------------
(* Properties. *)

\* Types of the variables, and the bound on the names of saves.
ProgressTypeOK ==
  /\ phase \in {"waiting", "levelSelect", "playing", "over", "stopping"}
  /\ level \in 0..LastLevel /\ passed \in BOOLEAN
  /\ progress \in Content
  /\ count \in 0..MaxSaves /\ overlapped \subseteq 1..count
  /\ saves \subseteq
       [id : 1..count, change : Fields \cup {"cleared"}, content : Content, name : 1..count,
        stage : {"opening", "writing", "renaming", "renamed"}, inode : 0..count]
  /\ path \in [1..MaxSaves -> 0..count]
  /\ target \in 0..count
  /\ data \in [0..MaxSaves -> Content \cup {Torn, Empty}]

\* A process that dies at any instant and starts again finds the progress the
\* room had, or the one a save was just about to tell the room.  Nothing is
\* promised of a file that a save left which ran beside another save.
CrashLosesNothing ==
  /\ ProgressTypeOK
  /\ \/ target \in overlapped
     \/ Load = progress
     \/ \E s \in saves : s.stage = "renamed" /\ s.content = Load

\* A level once shown as cleared stays cleared, over saves, failures of the
\* disk, shutdowns and crashes: only saves that ran beside each other undo it,
\* in the room when one of them goes on, or by what they left for a restart.
ClearedStaysCleared ==
  [][\/ progress.cleared \subseteq progress'.cleared
     \/ \E s \in saves : s.id \in overlapped /\ Resume(s)
     \/ target \in overlapped /\ ServerRestart]_progressVars

\* A handler that goes on after its save changes only what it was asked to
\* change, however long it waited and whatever was refused, failed or flushed
\* meanwhile, unless another save ran beside it.
OnlyItsOwnChange ==
  [][\A s \in saves : s.id \notin overlapped /\ Resume(s) =>
       /\ s.change # "cleared" => progress'.cleared = progress.cleared
       /\ \A f \in Fields \ {s.change} : progress'.settings[f] = progress.settings[f]]_progressVars

\* What the room was told stays, cleared levels whatever happens and settings
\* until they are changed themselves, but for saves that ran beside each other.
KeepsWhatItTold == ClearedStaysCleared /\ OnlyItsOwnChange

=============================================================================
