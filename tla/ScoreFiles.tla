----------------------------- MODULE ScoreFiles -----------------------------
(***************************************************************************)
(* The files of scores.  When a game ends the game thread writes its       *)
(* scores to data/last_match_scores.json, then to data/match_<id>.json,    *)
(* where the id is the second at which it ended: each of them into a       *)
(* temporary file of its own, which is then renamed.  The admin API serves *)
(* the first one.                                                          *)
(*                                                                         *)
(* Opening, filling and renaming are separate steps, each may fail, and    *)
(* the process may die between any two of them (Cut); what it has written  *)
(* by then stays, and the next process finds it.  A machine that loses its *)
(* power, which may lose more, is not modelled.  Of the text of a file the *)
(* model keeps whose scores they are and how far the writing has come.     *)
(***************************************************************************)
EXTENDS Integers

CONSTANTS
    MaxMatches,  \* bound: games that end
    MaxSeconds   \* bound: the clock

ASSUME FileBounds == MaxMatches \in Nat /\ MaxSeconds \in Nat \ {0}

\* Games are numbered in the order in which they end.
Matches == 1..MaxMatches
Seconds == 1..MaxSeconds

\* The path of last_match_scores.json; that of match_<s>.json is s.
Last == 0
Paths == {Last} \cup Seconds

NoFile == [match |-> 0, text |-> "none"]

\* "cut": the writing has begun; "short": it is over, and the disk was full;
\* "whole": all of it is there.
Contents == [match : Matches, text : {"cut", "short", "whole"}] \cup {NoFile}

VARIABLES
    second,   \* std::time(nullptr)
    ended,    \* the number of games that have ended
    endedAt,  \* game |-> its matchId
    file,     \* path |-> content
    tmp,      \* path |-> content of path.tmp
    writer,   \* what the game thread is writing, and how far it is
    served    \* the last answer to GET /admin/scores

fileVars == <<second, ended, endedAt, file, tmp, writer, served>>

Idle == [step |-> "idle", match |-> 0, path |-> Last]

Writers == [step : {"open", "fill", "rename"}, match : Matches, path : Paths] \cup {Idle}

FilesTypeOK ==
    /\ second \in Seconds
    /\ ended \in 0..MaxMatches
    /\ endedAt \in [Matches -> Seconds \cup {0}]
    /\ file \in [Paths -> Contents]
    /\ tmp \in [Paths -> Contents]
    /\ writer \in Writers
    /\ served \in Contents

FilesInit ==
    /\ second = 1
    /\ ended = 0
    /\ endedAt = [m \in Matches |-> 0]
    /\ file = [p \in Paths |-> NoFile]
    /\ tmp = [p \in Paths |-> NoFile]
    /\ writer = Idle
    /\ served = NoFile

-----------------------------------------------------------------------------
(* GameManager::broadcastGameEvents and ScoreFileWriter::writeMatchScores     *)

\* A game has ended, and its scores are collected.  The clock is read once.
EndMatch ==
    /\ writer = Idle
    /\ ended < MaxMatches
    /\ ended' = ended + 1
    /\ endedAt' = [endedAt EXCEPT ![ended + 1] = second]
    /\ writer' = [step |-> "open", match |-> ended + 1, path |-> Last]
    /\ UNCHANGED <<second, file, tmp, served>>

\* Regression: the clock is read again for the name of the second file.
MatchFileNow(m) == second

MatchFile(m) == endedAt[m]

\* writeMatchScores has returned; the caller ignores whether it says true.
NextFile(w) ==
    IF w.path = Last THEN [w EXCEPT !.step = "open", !.path = MatchFile(w.match)] ELSE Idle

\* Regression: a temporary file that cannot be opened is renamed all the same.
OpenFailedOn(w) == [w EXCEPT !.step = "rename"]

OpenFailed(w) == NextFile(w)

\* The temporary file is emptied if one was left, or cannot be opened.
Open ==
    /\ writer.step = "open"
    /\ \/ /\ tmp' = [tmp EXCEPT ![writer.path] = [match |-> writer.match, text |-> "cut"]]
          /\ writer' = [writer EXCEPT !.step = "fill"]
       \/ /\ writer' = OpenFailed(writer)
          /\ UNCHANGED tmp
    /\ UNCHANGED <<second, ended, endedAt, file, served>>

\* Whether all of the text reached the disk is not asked.
Fill ==
    /\ writer.step = "fill"
    /\ \E text \in {"whole", "short"} : tmp' = [tmp EXCEPT ![writer.path].text = text]
    /\ writer' = [writer EXCEPT !.step = "rename"]
    /\ UNCHANGED <<second, ended, endedAt, file, served>>

\* std::filesystem::rename replaces the file in one step, or throws.
Rename ==
    /\ writer.step = "rename"
    /\ \/ /\ file' = [file EXCEPT ![writer.path] = tmp[writer.path]]
          /\ tmp' = [tmp EXCEPT ![writer.path] = NoFile]
       \/ UNCHANGED <<file, tmp>>
    /\ writer' = NextFile(writer)
    /\ UNCHANGED <<second, ended, endedAt, served>>

WriteScores == Open \/ Fill \/ Rename

\* The process dies: the game thread does not come to its next step.
Cut == writer' = Idle

-----------------------------------------------------------------------------
(* AdminAPI, GET /admin/scores, and the clock                                *)

\* Regression: the handler reads the file that is being written.
PathReadTmp == tmp[Last]

\* What the handler opened it reads to its end: a rename leaves it the old file.
PathRead == file[Last]

ReadScores ==
    /\ served' = PathRead
    /\ UNCHANGED <<second, ended, endedAt, file, tmp, writer>>

Clock ==
    /\ second < MaxSeconds
    /\ second' = second + 1
    /\ UNCHANGED <<ended, endedAt, file, tmp, writer, served>>

-----------------------------------------------------------------------------
(* Properties *)

\* "atomically if possible": whenever the process dies, and whatever fails, the
\* admin API never serves, and no file of scores is, a text whose writing was
\* not over.
ReadsAreFinished ==
    /\ served.text # "cut"
    /\ \A p \in Paths : file[p].text # "cut"

\* A file named after a second holds the scores of a game that ended at that
\* second, and each file those of a game that has ended.
MatchesAreFiled ==
    /\ \A p \in Paths : file[p].match <= ended
    /\ \A s \in Seconds : file[s] # NoFile => endedAt[file[s].match] = s

\* No file ever goes back to an earlier game, nor do the answers of the API:
\* what an earlier process, or a failed rename, left behind is never published
\* in the place of something newer.
FilesMoveForward ==
    [][ /\ \A p \in Paths : file'[p].match >= file[p].match
        /\ served'.match >= served.match ]_fileVars

=============================================================================
