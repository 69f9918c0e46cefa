------------------------- MODULE ServerProcessProofs -------------------------
(***************************************************************************)
(* Proofs about the server process and its files of scores, for any        *)
(* number of games, seconds and restarts.  Every step of the process is,   *)
(* for the files, one of the steps of FilesNext; FilesInv is preserved by  *)
(* each of them and by the end of the process at any moment.  ThreadsInv   *)
(* says which threads there may be at each place of main.                  *)
(***************************************************************************)
EXTENDS ServerProcess, TLAPS

\* A process that ends leaves the files as they are.
FilesCut == Cut /\ UNCHANGED <<second, ended, endedAt, file, tmp, served>>

FilesNext ==
    \/ EndMatch \/ Open \/ Fill \/ Rename \/ ReadScores \/ Clock
    \/ FilesCut
    \/ UNCHANGED fileVars

\* What is being written is the latest game; its temporary file is its own from the
\* moment it is opened, and whole or short when it is renamed.
WriterInv ==
    /\ writer.step # "idle" => writer.match = ended
    /\ writer.step \in {"fill", "rename"} => tmp[writer.path].match = writer.match
    /\ writer.step = "rename" => tmp[writer.path].text # "cut"
    /\ writer.step # "idle" /\ writer.path # Last => endedAt[writer.match] = writer.path

\* Every game that has ended did so at some second.
EndedInv == \A m \in Matches : m <= ended => endedAt[m] \in Seconds

ServedInv == served.match <= file[Last].match

FilesInv == WriterInv /\ EndedInv /\ ServedInv /\ ReadsAreFinished /\ MatchesAreFiled

Forward ==
    /\ \A p \in Paths : file'[p].match >= file[p].match
    /\ served'.match >= served.match

-----------------------------------------------------------------------------
(* Types of the files *)

LEMMA PathTypes == Last \in Paths /\ Seconds \subseteq Paths /\ Seconds \cup {0} = Paths
  BY DEF Paths, Last, Seconds

LEMMA ContentTypes ==
  ASSUME NEW c \in Contents
  PROVE  c.match \in Nat /\ (c # NoFile => c.match \in Matches /\ c.text # "none")
  BY FileBounds DEF Contents, NoFile, Matches

LEMMA WriterTypes ==
  ASSUME FilesTypeOK, writer # Idle
  PROVE  /\ writer.step \in {"open", "fill", "rename"}
         /\ writer.match \in Matches
         /\ writer.path \in Paths
         /\ writer = [step |-> writer.step, match |-> writer.match, path |-> writer.path]
  BY DEF FilesTypeOK, Writers

LEMMA IdleStep ==
  ASSUME FilesTypeOK
  PROVE  writer = Idle <=> writer.step = "idle"
  BY DEF FilesTypeOK, Writers, Idle

\* The writer after a file: the second file of the same game, or idle.
LEMMA NextFileTypes ==
  ASSUME FilesTypeOK, writer # Idle
  PROVE  \/ /\ writer.path = Last
            /\ NextFile(writer) = [step |-> "open", match |-> writer.match,
                                   path |-> endedAt[writer.match]]
            /\ NextFile(writer) \in Writers
         \/ writer.path # Last /\ NextFile(writer) = Idle
<1>1. CASE writer.path = Last
  <2>1. NextFile(writer) = [step |-> "open", match |-> writer.match, path |-> endedAt[writer.match]]
    BY <1>1, WriterTypes DEF NextFile, MatchFile
  <2>2. endedAt[writer.match] \in Paths
    BY WriterTypes, PathTypes DEF FilesTypeOK
  <2> QED  BY <1>1, <2>1, <2>2, WriterTypes DEF Writers
<1>2. CASE writer.path # Last
  BY <1>2 DEF NextFile
<1> QED  BY <1>1, <1>2

LEMMA IdleIsWriter == Idle \in Writers
  BY DEF Writers

\* Every step of the files keeps their types.
LEMMA FilesTypes ==
  ASSUME FilesTypeOK, WriterInv, FilesNext
  PROVE  FilesTypeOK'
<1>1. CASE EndMatch
  <2>1. ended + 1 \in Matches
    BY <1>1, FileBounds DEF EndMatch, FilesTypeOK, Matches
  <2>2. ended' \in 0..MaxMatches
    BY <1>1, FileBounds DEF EndMatch, FilesTypeOK
  <2>3. endedAt' \in [Matches -> Seconds \cup {0}]
    BY <1>1, <2>1 DEF EndMatch, FilesTypeOK
  <2>4. writer' \in Writers
    BY <1>1, <2>1, PathTypes DEF EndMatch, Writers
  <2> QED  BY <1>1, <2>2, <2>3, <2>4 DEF EndMatch, FilesTypeOK
<1>2. CASE Open
  <2>1. writer # Idle
    BY <1>2 DEF Open, Idle
  <2>2. [match |-> writer.match, text |-> "cut"] \in Contents
    BY <2>1, WriterTypes DEF Contents
  <2>3. tmp' \in [Paths -> Contents]
    BY <1>2, <2>2 DEF Open, FilesTypeOK
  <2>4. [writer EXCEPT !.step = "fill"] \in Writers
    BY <2>1, WriterTypes DEF Writers
  <2>5. writer' \in Writers
    BY <1>2, <2>1, <2>4, NextFileTypes, IdleIsWriter DEF Open, OpenFailed
  <2> QED  BY <1>2, <2>3, <2>5 DEF Open, FilesTypeOK
<1>3. CASE Fill
  <2>1. writer # Idle
    BY <1>3 DEF Fill, Idle
  <2>2. PICK text \in {"whole", "short"} : tmp' = [tmp EXCEPT ![writer.path].text = text]
    BY <1>3 DEF Fill
  <2>3. [writer EXCEPT !.step = "rename"] \in Writers
    BY <2>1, WriterTypes DEF Writers
  <2>4. tmp[writer.path] \in Contents /\ tmp[writer.path].match \in Matches
    BY <1>3, <2>1, WriterTypes DEF Fill, WriterInv, FilesTypeOK
  <2>5. tmp[writer.path] \in [match : Matches, text : {"cut", "short", "whole"}]
    BY <2>4, FileBounds DEF Contents, NoFile, Matches
  <2>6. [tmp[writer.path] EXCEPT !.text = text] \in Contents
    BY <2>5 DEF Contents
  <2>7. tmp' = [tmp EXCEPT ![writer.path] = [tmp[writer.path] EXCEPT !.text = text]]
    BY <2>2
  <2>8. tmp' \in [Paths -> Contents]
    BY <2>6, <2>7 DEF FilesTypeOK
  <2> QED
    BY <1>3, <2>3, <2>8 DEF Fill, FilesTypeOK
<1>4. CASE Rename
  <2>1. writer # Idle
    BY <1>4 DEF Rename, Idle
  <2>2. NoFile \in Contents
    BY DEF Contents
  <2>3. file' \in [Paths -> Contents] /\ tmp' \in [Paths -> Contents]
    BY <1>4, <2>1, <2>2, WriterTypes DEF Rename, FilesTypeOK
  <2>4. writer' \in Writers
    BY <1>4, <2>1, NextFileTypes, IdleIsWriter DEF Rename
  <2> QED  BY <1>4, <2>3, <2>4 DEF Rename, FilesTypeOK
<1>5. CASE ReadScores
  BY <1>5, PathTypes DEF ReadScores, PathRead, FilesTypeOK
<1>6. CASE Clock
  BY <1>6, FileBounds DEF Clock, FilesTypeOK, Seconds
<1>7. CASE FilesCut
  BY <1>7, IdleIsWriter DEF FilesCut, Cut, FilesTypeOK
<1>8. CASE UNCHANGED fileVars
  BY <1>8 DEF fileVars, FilesTypeOK
<1> QED  BY <1>1, <1>2, <1>3, <1>4, <1>5, <1>6, <1>7, <1>8 DEF FilesNext

-----------------------------------------------------------------------------
(* The invariant of the files *)

LEMMA EndMatchKeeps ==
  ASSUME FilesTypeOK, FilesInv, EndMatch
  PROVE  FilesInv' /\ Forward
<1>1. ended + 1 \in Matches /\ ended \in Nat
  BY FileBounds DEF EndMatch, FilesTypeOK, Matches
<1>2. UNCHANGED <<file, tmp, served>> /\ ended' = ended + 1
  BY DEF EndMatch
<1>3. endedAt'[ended + 1] = second /\ second \in Seconds
  BY <1>1 DEF EndMatch, FilesTypeOK
<1>4. \A m \in Matches : m # ended + 1 => endedAt'[m] = endedAt[m]
  BY DEF EndMatch, FilesTypeOK
<1>5. writer' = [step |-> "open", match |-> ended + 1, path |-> Last]
  BY DEF EndMatch
<1>6. WriterInv'
  BY <1>2, <1>5 DEF WriterInv
<1>7. EndedInv'
  BY <1>1, <1>2, <1>3, <1>4 DEF EndedInv, FilesInv, Matches
<1>8. ServedInv' /\ ReadsAreFinished'
  BY <1>2 DEF ServedInv, ReadsAreFinished, FilesInv
<1>9. \A p \in Paths : file[p] \in Contents /\ file[p].match <= ended
  BY DEF FilesInv, MatchesAreFiled, FilesTypeOK
<1>10. \A p \in Paths : file'[p].match <= ended'
  BY <1>1, <1>2, <1>9, ContentTypes
<1>11. ASSUME NEW s \in Seconds, file'[s] # NoFile
       PROVE  endedAt'[file'[s].match] = s
  <2>1. file[s] \in Contents /\ file[s].match <= ended /\ file[s] # NoFile
    BY <1>2, <1>9, <1>11, PathTypes
  <2>2. file[s].match \in Matches /\ file[s].match # ended + 1
    BY <1>1, <2>1, ContentTypes
  <2> QED  BY <1>2, <1>4, <2>1, <2>2 DEF FilesInv, MatchesAreFiled
<1>12. Forward
  BY <1>2, <1>9, ContentTypes DEF Forward, FilesTypeOK
<1> QED  BY <1>6, <1>7, <1>8, <1>10, <1>11, <1>12 DEF FilesInv, MatchesAreFiled

\* A writer that goes on to the next file keeps its invariant.
LEMMA NextFileKeeps ==
  ASSUME FilesTypeOK, WriterInv, EndedInv, writer # Idle,
         writer' = NextFile(writer), ended' = ended, endedAt' = endedAt
  PROVE  WriterInv'
<1>1. CASE writer.path = Last
  <2>1. writer' = [step |-> "open", match |-> writer.match, path |-> endedAt[writer.match]]
    BY <1>1, NextFileTypes
  <2>2. writer.match = ended
    BY WriterTypes DEF WriterInv
  <2> QED  BY <2>1, <2>2 DEF WriterInv
<1>2. CASE writer.path # Last
  <2>1. writer'.step = "idle"
    BY <1>2, NextFileTypes DEF Idle
  <2> QED  BY <2>1 DEF WriterInv
<1> QED  BY <1>1, <1>2

\* Where neither the games nor the published files change, only the writer matters.
LEMMA UnpublishedKeeps ==
  ASSUME FilesTypeOK, FilesInv, WriterInv', UNCHANGED <<ended, endedAt, file, served>>
  PROVE  FilesInv' /\ Forward
<1>1. \A p \in Paths : file[p] \in Contents /\ file[p].match \in Nat
  BY ContentTypes DEF FilesTypeOK
<1>2. served.match \in Nat
  BY ContentTypes DEF FilesTypeOK
<1>3. Forward
  BY <1>1, <1>2 DEF Forward
<1> QED  BY <1>3 DEF FilesInv, EndedInv, ServedInv, ReadsAreFinished, MatchesAreFiled

LEMMA OpenKeeps ==
  ASSUME FilesTypeOK, FilesInv, Open
  PROVE  FilesInv' /\ Forward
<1>1. writer # Idle /\ writer.step = "open"
  BY DEF Open, Idle
<1>2. CASE /\ tmp' = [tmp EXCEPT ![writer.path] = [match |-> writer.match, text |-> "cut"]]
           /\ writer' = [writer EXCEPT !.step = "fill"]
  <2>1. /\ writer'.step = "fill"
        /\ writer'.match = writer.match
        /\ writer'.path = writer.path
    BY <1>1, <1>2, WriterTypes
  <2>2. tmp'[writer.path].match = writer.match
    BY <1>1, <1>2, WriterTypes DEF FilesTypeOK
  <2>3. WriterInv'
    BY <1>1, <2>1, <2>2 DEF FilesInv, WriterInv, Open
  <2> QED  BY <2>3, UnpublishedKeeps DEF Open
<1>3. CASE writer' = NextFile(writer)
  BY <1>1, <1>3, NextFileKeeps, UnpublishedKeeps DEF FilesInv, Open
<1> QED  BY <1>2, <1>3 DEF Open, OpenFailed

LEMMA FillKeeps ==
  ASSUME FilesTypeOK, FilesInv, Fill
  PROVE  FilesInv' /\ Forward
<1>1. writer # Idle /\ writer.step = "fill"
  BY DEF Fill, Idle
<1>2. PICK text \in {"whole", "short"} : tmp' = [tmp EXCEPT ![writer.path].text = text]
  BY DEF Fill
<1>3. tmp[writer.path] \in Contents /\ writer.path \in Paths
  BY <1>1, WriterTypes DEF FilesTypeOK
<1>4. /\ tmp'[writer.path].match = tmp[writer.path].match
      /\ tmp'[writer.path].text = text
  BY <1>2, <1>3 DEF FilesTypeOK, Contents, NoFile
<1>5. /\ writer'.step = "rename"
      /\ writer'.match = writer.match
      /\ writer'.path = writer.path
  BY <1>1, WriterTypes DEF Fill
<1>6. WriterInv'
  BY <1>1, <1>4, <1>5 DEF FilesInv, WriterInv, Fill
<1> QED  BY <1>6, UnpublishedKeeps DEF Fill

LEMMA RenameKeeps ==
  ASSUME FilesTypeOK, FilesInv, Rename
  PROVE  FilesInv' /\ Forward
<1>1. writer # Idle /\ writer.step = "rename"
  BY DEF Rename, Idle
<1>2. writer.match \in Matches /\ writer.match = ended /\ writer.path \in Paths
  BY <1>1, WriterTypes DEF FilesInv, WriterInv
<1>3. WriterInv'
  BY <1>1, NextFileKeeps DEF FilesInv, Rename
<1>4. CASE UNCHANGED <<file, tmp>>
  BY <1>3, <1>4, UnpublishedKeeps DEF Rename
<1>5. CASE file' = [file EXCEPT ![writer.path] = tmp[writer.path]]
  <2>1. /\ tmp[writer.path] \in Contents
        /\ tmp[writer.path].match = ended
        /\ tmp[writer.path].text # "cut"
    BY <1>1, <1>2 DEF FilesInv, WriterInv, FilesTypeOK
  <2>2. file'[writer.path] = tmp[writer.path]
    BY <1>2, <1>5 DEF FilesTypeOK
  <2>3. \A p \in Paths : p # writer.path => file'[p] = file[p]
    BY <1>5 DEF FilesTypeOK
  <2>4. UNCHANGED <<ended, endedAt, served>> /\ ended \in Nat
    BY FileBounds DEF Rename, FilesTypeOK
  <2>5. \A p \in Paths : /\ file[p].match \in Nat
                         /\ file[p].match <= ended
                         /\ file[p].text # "cut"
    BY ContentTypes DEF FilesInv, MatchesAreFiled, ReadsAreFinished, FilesTypeOK
  <2>6. \A p \in Paths : file'[p].match >= file[p].match /\ file'[p].match <= ended
    BY <2>1, <2>2, <2>3, <2>4, <2>5
  <2>7. served.match \in Nat /\ served.match <= file[Last].match
    BY ContentTypes DEF FilesInv, ServedInv, FilesTypeOK
  <2>8. ServedInv'
    BY <2>1, <2>2, <2>3, <2>4, <2>5, <2>6, <2>7, PathTypes DEF ServedInv
  <2>9. ReadsAreFinished'
    BY <2>1, <2>2, <2>3, <2>4, <2>5 DEF FilesInv, ReadsAreFinished
  <2>10. \A s \in Seconds : file'[s] # NoFile => endedAt'[file'[s].match] = s
    <3> SUFFICES ASSUME NEW s \in Seconds, file'[s] # NoFile
                 PROVE  endedAt[file'[s].match] = s
      BY <2>4
    <3>1. s \in Paths /\ s # Last
      BY PathTypes DEF Last, Seconds
    <3>2. CASE s = writer.path
      BY <1>1, <1>2, <2>1, <2>2, <3>1, <3>2 DEF FilesInv, WriterInv
    <3>3. CASE s # writer.path
      BY <2>3, <3>1, <3>3 DEF FilesInv, MatchesAreFiled
    <3> QED  BY <3>2, <3>3
  <2>11. Forward
    BY <2>4, <2>6, <2>7 DEF Forward
  <2>12. MatchesAreFiled'
    BY <2>4, <2>6, <2>10 DEF MatchesAreFiled
  <2>13. EndedInv'
    BY <2>4 DEF FilesInv, EndedInv
  <2> QED  BY <1>3, <2>8, <2>9, <2>11, <2>12, <2>13 DEF FilesInv
<1> QED  BY <1>4, <1>5 DEF Rename

LEMMA ReadKeeps ==
  ASSUME FilesTypeOK, FilesInv, ReadScores
  PROVE  FilesInv' /\ Forward
<1>1. served' = file[Last] /\ UNCHANGED <<ended, endedAt, file, tmp, writer>>
  BY DEF ReadScores, PathRead
<1>2. \A p \in Paths : file[p] \in Contents /\ file[p].match \in Nat
  BY ContentTypes DEF FilesTypeOK
<1>3. WriterInv' /\ EndedInv' /\ MatchesAreFiled'
  BY <1>1 DEF FilesInv, WriterInv, EndedInv, MatchesAreFiled
<1>4. ServedInv' /\ ReadsAreFinished'
  BY <1>1, <1>2, PathTypes DEF FilesInv, ServedInv, ReadsAreFinished
<1>5. Forward
  BY <1>1, <1>2 DEF Forward, FilesInv, ServedInv
<1> QED  BY <1>3, <1>4, <1>5 DEF FilesInv

\* Every step of the files, the end of the process among them, keeps the invariant
\* and goes forward.
LEMMA FilesKeep ==
  ASSUME FilesTypeOK, FilesInv, FilesNext
  PROVE  FilesInv' /\ Forward
<1>1. CASE Clock
  <2>1. WriterInv'
    BY <1>1 DEF Clock, FilesInv, WriterInv
  <2> QED  BY <1>1, <2>1, UnpublishedKeeps DEF Clock
<1>2. CASE FilesCut
  <2>1. WriterInv'
    BY <1>2 DEF FilesCut, Cut, Idle, WriterInv
  <2> QED  BY <1>2, <2>1, UnpublishedKeeps DEF FilesCut
<1>3. CASE UNCHANGED fileVars
  <2>1. WriterInv'
    BY <1>3 DEF fileVars, FilesInv, WriterInv
  <2> QED  BY <1>3, <2>1, UnpublishedKeeps DEF fileVars
<1> QED
  BY <1>1, <1>2, <1>3, EndMatchKeeps, OpenKeeps, FillKeeps, RenameKeeps, ReadKeeps DEF FilesNext

-----------------------------------------------------------------------------
(* The threads *)

\* At each place of main: the threads not yet started, and those joined.  The game
\* thread writes, or nobody does.
ThreadsInv ==
    /\ main \in {"start", "context", "admin", "threads"} =>
            net = "none" /\ game = "none" /\ chat = "none"
    /\ main \in {"joinNet", "joinGame", "stopIo", "stopAdmin", "destroyed"} =>
            chat \notin {"running", "locked"}
    /\ main \in {"joinGame", "stopIo", "stopAdmin", "destroyed"} => net # "running"
    /\ main \in {"stopIo", "stopAdmin", "destroyed"} => game # "running"
    /\ main \in {"start", "context", "admin", "destroyed"} => admin # "up"
    /\ main = "ended" => net = "none" /\ game = "none" /\ chat = "none" /\ admin = "none"
    /\ game # "running" => writer = Idle

Control ==
    /\ main \in Places
    /\ gRunning \in BOOLEAN /\ ioStopped \in BOOLEAN /\ asked \in BOOLEAN
    /\ net \in {"none", "running", "done"}
    /\ game \in {"none", "running", "done"}
    /\ chat \in {"none", "running", "locked", "done"}
    /\ admin \in {"none", "up", "stopped"}
    /\ sleeper \in {"none", "asleep", "done"}
    /\ signals \in 0..1
    /\ restarts \in 0..MaxRestarts

LEMMA TypeOKSplits == TypeOK <=> FilesTypeOK /\ Control
  BY DEF TypeOK, Control

\* For the files, every step of the process is one of theirs.
LEMMA NextIsFilesNext ==
  ASSUME Next
  PROVE  FilesNext
<1>1. CASE MainThread
  BY <1>1 DEF MainThread, CreateContext, OpenSockets, StartAdmin, StartThreads, JoinChat,
              JoinNet, JoinGame, StopIo, StopAdmin, Return, Die, FilesCut, FilesNext
<1>2. CASE Signal \/ PostShutdown \/ Wake \/ Restart
  BY <1>2 DEF Signal, PostShutdown, Wake, Restart, FilesNext
<1>3. CASE SecondSignal \/ Killed
  BY <1>3 DEF SecondSignal, Killed, Die, FilesCut, FilesNext
<1>4. CASE NetworkThread \/ GameEnds \/ ChatEnds \/ ChatLocksUp \/ Fails
  BY <1>4 DEF NetworkThread, GameEnds, ChatEnds, ChatLocksUp, Fails, NetworkFails,
              GameFails, ChatFails, FilesNext
<1>5. CASE GameEndsMatch \/ GameWrites \/ GetScores \/ TimePasses
  BY <1>5 DEF GameEndsMatch, GameWrites, WriteScores, GetScores, TimePasses, FilesNext
<1> QED  BY <1>1, <1>2, <1>3, <1>4, <1>5 DEF Next

LEMMA ControlInit == Init => Control /\ ThreadsInv
<1> SUFFICES ASSUME Init PROVE Control /\ ThreadsInv
  OBVIOUS
<1>1. signals \in 0..1 /\ restarts \in 0..MaxRestarts
  BY RestartBound DEF Init, ProcessInit
<1>2. gRunning \in BOOLEAN /\ ioStopped \in BOOLEAN /\ asked \in BOOLEAN
  BY DEF Init, ProcessInit
<1>3. Control
  BY <1>1, <1>2 DEF Init, ProcessInit, Control, Places
<1>4. ThreadsInv
  BY DEF Init, ProcessInit, FilesInit, ThreadsInv
<1> QED  BY <1>3, <1>4

\* Dying empties everything.
LEMMA DieKeeps ==
  ASSUME Control, Die
  PROVE  Control' /\ ThreadsInv'
<1>1. Control'
  BY DEF Die, Control, Places
<1>2. ThreadsInv'
  BY DEF Die, Cut, ThreadsInv
<1> QED  BY <1>1, <1>2

LEMMA MainKeeps ==
  ASSUME Control, ThreadsInv, MainThread
  PROVE  Control' /\ ThreadsInv'
<1>1. CASE CreateContext
  BY <1>1 DEF CreateContext, Go, fileVars, threads, Control, ThreadsInv, Places
<1>2. CASE OpenSockets
  BY <1>2 DEF OpenSockets, Go, fileVars, threads, Control, ThreadsInv, Places
<1>3. CASE StartAdmin
  BY <1>3 DEF StartAdmin, Go, fileVars, Control, ThreadsInv, Places
<1>4. CASE StartThreads
  BY <1>4 DEF StartThreads, Go, fileVars, Control, ThreadsInv, Places
<1>5. CASE JoinChat
  BY <1>5 DEF JoinChat, Go, fileVars, threads, Control, ThreadsInv, Places
<1>6. CASE JoinNet
  BY <1>6 DEF JoinNet, Waited, Go, fileVars, threads, Control, ThreadsInv, Places
<1>7. CASE JoinGame
  BY <1>7 DEF JoinGame, Waited, Go, fileVars, threads, Control, ThreadsInv, Places
<1>8. CASE StopIo
  BY <1>8 DEF StopIo, Go, fileVars, threads, Control, ThreadsInv, Places
<1>9. CASE StopAdmin
  BY <1>9 DEF StopAdmin, AdminStopped, Go, fileVars, Control, ThreadsInv, Places
<1>10. CASE Return
  BY <1>10, DieKeeps DEF Return
<1> QED
  BY <1>1, <1>2, <1>3, <1>4, <1>5, <1>6, <1>7, <1>8, <1>9, <1>10 DEF MainThread

LEMMA RequestKeeps ==
  ASSUME Control, ThreadsInv, Signal \/ PostShutdown \/ Wake \/ Restart
  PROVE  Control' /\ ThreadsInv'
<1>1. CASE Signal
  <2>1. gRunning' \in BOOLEAN /\ ioStopped' \in BOOLEAN /\ asked' \in BOOLEAN
    BY <1>1 DEF Signal, Stop, HasContext, Control
  <2> QED  BY <1>1, <2>1 DEF Signal, threads, fileVars, Control, ThreadsInv
<1>2. CASE PostShutdown
  BY <1>2 DEF PostShutdown, control, fileVars, Control, ThreadsInv
<1>3. CASE Wake
  <2>1. gRunning' \in BOOLEAN /\ ioStopped' \in BOOLEAN /\ asked' \in BOOLEAN
    BY <1>3 DEF Wake, Stop, HasContext, Control
  <2> QED  BY <1>3, <2>1 DEF Wake, fileVars, Control, ThreadsInv
<1>4. CASE Restart
  <2>1. restarts' \in 0..MaxRestarts /\ signals' \in 0..1
    BY <1>4, RestartBound DEF Restart, Control
  <2>2. gRunning' \in BOOLEAN /\ ioStopped' \in BOOLEAN /\ asked' \in BOOLEAN
    BY <1>4 DEF Restart
  <2>3. UNCHANGED <<net, game, chat, admin, sleeper, writer>>
    BY <1>4 DEF Restart, threads, fileVars
  <2>4. Control'
    BY <1>4, <2>1, <2>2, <2>3 DEF Restart, Control, Places
  <2>5. ThreadsInv'
    BY <1>4, <2>3 DEF Restart, ThreadsInv
  <2> QED  BY <2>4, <2>5
<1> QED  BY <1>1, <1>2, <1>3, <1>4

LEMMA ThreadsKeep ==
  ASSUME Control, ThreadsInv,
         NetworkThread \/ GameEnds \/ ChatEnds \/ ChatLocksUp \/ Fails
  PROVE  Control' /\ ThreadsInv'
<1>1. CASE NetworkThread \/ NetworkFails
  BY <1>1 DEF NetworkThread, NetworkFails, control, fileVars, Control, ThreadsInv
<1>2. CASE GameEnds \/ GameFails
  BY <1>2 DEF GameEnds, GameFails, control, fileVars, Control, ThreadsInv
<1>3. CASE ChatEnds \/ ChatFails \/ ChatLocksUp
  BY <1>3 DEF ChatEnds, ChatFails, ChatLocksUp, control, fileVars, Control, ThreadsInv
<1> QED  BY <1>1, <1>2, <1>3 DEF Fails

\* Only a running game thread touches the writer.
LEMMA FileStepsKeep ==
  ASSUME Control, ThreadsInv, GameEndsMatch \/ GameWrites \/ GetScores \/ TimePasses
  PROVE  Control' /\ ThreadsInv'
<1>1. UNCHANGED <<control, threads>>
  BY DEF GameEndsMatch, GameWrites, GetScores, TimePasses
<1>2. game # "running" => UNCHANGED writer
  BY DEF GameEndsMatch, GameWrites, GetScores, ReadScores, TimePasses, Clock
<1> QED  BY <1>1, <1>2 DEF control, threads, Control, ThreadsInv

LEMMA NextKeeps ==
  ASSUME Control, ThreadsInv, [Next]_vars
  PROVE  Control' /\ ThreadsInv'
<1>1. CASE UNCHANGED vars
  BY <1>1 DEF vars, control, threads, fileVars, Control, ThreadsInv
<1>2. CASE SecondSignal \/ Killed
  BY <1>2, DieKeeps DEF SecondSignal, Killed
<1>3. CASE MainThread
  BY <1>3, MainKeeps
<1>4. CASE Signal \/ PostShutdown \/ Wake \/ Restart
  BY <1>4, RequestKeeps
<1>5. CASE NetworkThread \/ GameEnds \/ ChatEnds \/ ChatLocksUp \/ Fails
  BY <1>5, ThreadsKeep
<1>6. CASE GameEndsMatch \/ GameWrites \/ GetScores \/ TimePasses
  BY <1>6, FileStepsKeep
<1> QED  BY <1>1, <1>2, <1>3, <1>4, <1>5, <1>6 DEF Next

-----------------------------------------------------------------------------
(* Theorems *)

IInv == TypeOK /\ FilesInv /\ ThreadsInv

LEMMA InvInit == Init => IInv
<1> SUFFICES ASSUME Init PROVE IInv
  OBVIOUS
<1>1. NoFile \in Contents /\ Idle \in Writers
  BY IdleIsWriter DEF Contents
<1>2. FilesTypeOK
  BY <1>1, FileBounds DEF Init, FilesInit, FilesTypeOK, Seconds
<1>3. WriterInv
  BY DEF Init, FilesInit, Idle, WriterInv
<1>4. EndedInv
  BY DEF Init, FilesInit, EndedInv, Matches
<1>5. ServedInv /\ ReadsAreFinished /\ MatchesAreFiled
  BY PathTypes DEF Init, FilesInit, NoFile, ServedInv, ReadsAreFinished, MatchesAreFiled
<1> QED  BY <1>2, <1>3, <1>4, <1>5, ControlInit, TypeOKSplits DEF IInv, FilesInv

LEMMA InvNext == IInv /\ [Next]_vars => IInv' /\ Forward
<1> SUFFICES ASSUME IInv, [Next]_vars PROVE IInv' /\ Forward
  OBVIOUS
<1>1. FilesNext
  BY NextIsFilesNext DEF vars, FilesNext
<1>2. FilesTypeOK' /\ FilesInv' /\ Forward
  BY <1>1, FilesTypes, FilesKeep, TypeOKSplits DEF IInv, FilesInv
<1>3. Control' /\ ThreadsInv'
  BY NextKeeps, TypeOKSplits DEF IInv
<1>4. TypeOK'
  BY <1>2, <1>3 DEF TypeOK, Control
<1> QED  BY <1>2, <1>3, <1>4 DEF IInv

LEMMA InvAlways == Spec => []IInv
<1>1. IInv /\ [Next]_vars => IInv'
  BY InvNext
<1> QED  BY InvInit, <1>1, PTL DEF Spec

\* Every variable of the process and of the files keeps its type.
THEOREM TypeCorrect == Spec => []TypeOK
<1>1. IInv => TypeOK
  BY DEF IInv
<1> QED  BY InvAlways, <1>1, PTL

\* Wherever the process is cut, and whichever step of the writing fails, no text
\* whose writing was not over is a file of scores or an answer of the admin API.
THEOREM OnlyFinishedReads == Spec => []ReadsAreFinished
<1>1. IInv => ReadsAreFinished
  BY DEF IInv, FilesInv
<1> QED  BY InvAlways, <1>1, PTL

\* The file named after a second holds a game that ended at that second.
THEOREM EachMatchFiled == Spec => []MatchesAreFiled
<1>1. IInv => MatchesAreFiled
  BY DEF IInv, FilesInv
<1> QED  BY InvAlways, <1>1, PTL

\* Through failures, crashes and restarts no file and no answer goes back to an
\* earlier game.
THEOREM FilesNeverGoBack == Spec => FilesMoveForward
<1>1. IInv /\ [Next]_vars => [Forward]_fileVars
  BY InvNext
<1> QED  BY InvAlways, <1>1, PTL DEF Spec, FilesMoveForward, Forward

\* main gives up its components only when no thread that uses them runs.
THEOREM ThreadsGoFirst == Spec => []DestroyedLast
<1>1. IInv => DestroyedLast
  BY DEF IInv, ThreadsInv, DestroyedLast
<1> QED  BY InvAlways, <1>1, PTL

=============================================================================
