---------------------------- MODULE ServerProcess ----------------------------
(***************************************************************************)
(* The life of the server process: main, the three threads it starts and   *)
(* joins one after another, the HTTP thread of the admin API, the handler  *)
(* of SIGINT and SIGTERM, and the detached threads that POST /shutdown     *)
(* leaves behind; with what the game thread writes to disk (ScoreFiles),   *)
(* and what the next process finds there.                                  *)
(*                                                                         *)
(* A signal handler is one step: that it locks the io_context's mutex and  *)
(* writes to a stream, which a handler must not do, is left out.  The      *)
(* five seconds for which waitForThreadWithTimeout looks at joinable(),    *)
(* which stays true until the join, change nothing: the join that follows  *)
(* has no limit of time.  What locks the chat thread up is in Chat; here   *)
(* it just may happen.                                                     *)
(***************************************************************************)
EXTENDS ScoreFiles

CONSTANT MaxRestarts   \* bound: processes after the first

ASSUME RestartBound == MaxRestarts \in Nat

VARIABLES
    main,       \* where main is; "ended" once the process is gone
    gRunning,   \* g_running
    ioStopped,  \* the io_context has been stopped
    net,        \* the network thread
    game,       \* the game thread
    chat,       \* the chat thread
    admin,      \* the admin API and its thread
    sleeper,    \* the threads that POST /shutdown detached
    signals,    \* how often the handler of signals was called
    asked,      \* a stop was asked for when there was something to stop
    restarts

control == <<main, gRunning, ioStopped, signals, asked, restarts>>
threads == <<net, game, chat, admin, sleeper>>
vars    == <<control, threads, fileVars>>

Places == {"start", "context", "admin", "threads", "joinChat", "joinNet", "joinGame",
           "stopIo", "stopAdmin", "destroyed", "ended"}

TypeOK ==
    /\ FilesTypeOK
    /\ main \in Places
    /\ gRunning \in BOOLEAN /\ ioStopped \in BOOLEAN /\ asked \in BOOLEAN
    /\ net \in {"none", "running", "done"}
    /\ game \in {"none", "running", "done"}
    /\ chat \in {"none", "running", "locked", "done"}
    /\ admin \in {"none", "up", "stopped"}
    /\ sleeper \in {"none", "asleep", "done"}
    /\ signals \in 0..1
    /\ restarts \in 0..MaxRestarts

ProcessInit ==
    /\ main = "start"
    /\ gRunning = TRUE
    /\ ioStopped = FALSE
    /\ net = "none" /\ game = "none" /\ chat = "none" /\ admin = "none" /\ sleeper = "none"
    /\ signals = 0
    /\ asked = FALSE

Init == FilesInit /\ ProcessInit /\ restarts = 0

Go(from, to) ==
    /\ main = from
    /\ main' = to

-----------------------------------------------------------------------------
(* main *)

\* g_io_context_ptr is set first.
CreateContext ==
    /\ Go("start", "context")
    /\ UNCHANGED <<gRunning, ioStopped, signals, asked, restarts, threads, fileVars>>

\* The sockets of the game and of the chat; one that cannot be opened throws, and
\* main returns.
OpenSockets ==
    /\ Go("context", "admin") \/ Go("context", "destroyed")
    /\ UNCHANGED <<gRunning, ioStopped, signals, asked, restarts, threads, fileVars>>

\* The server goes on without the admin API if that cannot be started.  Its thread
\* is assumed to listen by the time somebody stops it.
StartAdmin ==
    /\ Go("admin", "threads")
    /\ admin' \in {"none", "up"}
    /\ UNCHANGED <<gRunning, ioStopped, signals, asked, restarts, net, game, chat, sleeper, fileVars>>

StartThreads ==
    /\ Go("threads", "joinChat")
    /\ net' = "running" /\ game' = "running" /\ chat' = "running"
    /\ UNCHANGED <<gRunning, ioStopped, signals, asked, restarts, admin, sleeper, fileVars>>

JoinChat ==
    /\ chat = "done"
    /\ Go("joinChat", "joinNet")
    /\ UNCHANGED <<gRunning, ioStopped, signals, asked, restarts, threads, fileVars>>

\* Regression: the wait for a thread really ends after five seconds, and main goes
\* on as it does today when the network thread's wait says false.
WaitTimesOut(t) == TRUE

\* waitForThreadWithTimeout ends in a join.
Waited(t) == t = "done"

JoinNet ==
    /\ Waited(net)
    /\ Go("joinNet", "joinGame")
    /\ UNCHANGED <<gRunning, ioStopped, signals, asked, restarts, threads, fileVars>>

JoinGame ==
    /\ Waited(game)
    /\ Go("joinGame", "stopIo")
    /\ UNCHANGED <<gRunning, ioStopped, signals, asked, restarts, threads, fileVars>>

\* shutdownServers: the io_context, whose thread has been joined by now, then the
\* admin API, with a join of its thread.
StopIo ==
    /\ Go("stopIo", "stopAdmin")
    /\ ioStopped' = TRUE
    /\ UNCHANGED <<gRunning, signals, asked, restarts, threads, fileVars>>

AdminStopped(a) == IF a = "up" THEN "stopped" ELSE a

\* The components go out of scope after it.
StopAdmin ==
    /\ Go("stopAdmin", "destroyed")
    /\ admin' = AdminStopped(admin)
    /\ UNCHANGED <<gRunning, ioStopped, signals, asked, restarts, net, game, chat, sleeper, fileVars>>

\* The process is gone, and its threads with it, wherever they are.
Die ==
    /\ main # "ended"
    /\ main' = "ended"
    /\ net' = "none" /\ game' = "none" /\ chat' = "none" /\ admin' = "none" /\ sleeper' = "none"
    /\ Cut
    /\ UNCHANGED <<gRunning, ioStopped, signals, asked, restarts>>
    /\ UNCHANGED <<second, ended, endedAt, file, tmp, served>>

Return == main = "destroyed" /\ Die

MainThread ==
    \/ CreateContext \/ OpenSockets \/ StartAdmin \/ StartThreads
    \/ JoinChat \/ JoinNet \/ JoinGame \/ StopIo \/ StopAdmin
    \/ Return

-----------------------------------------------------------------------------
(* Requests to stop *)

HasContext == main # "start"

\* Regression: only the flag is cleared.
StopFlagOnly == gRunning' = FALSE /\ UNCHANGED ioStopped

\* The flag is cleared, and the io_context stopped if there is one.
Stop == gRunning' = FALSE /\ ioStopped' = (ioStopped \/ HasContext)

\* The first signal.  Once the components are destroyed g_io_context_ptr points to
\* nothing: the call may do nothing, or end the process (Die).
Signal ==
    /\ main # "ended"
    /\ signals = 0
    /\ signals' = 1
    /\ Stop
    /\ asked' = HasContext
    /\ UNCHANGED <<main, restarts, threads, fileVars>>

\* The second signal calls exit.
SecondSignal == signals = 1 /\ Die

\* POST /admin/shutdown answers, and leaves a thread that sleeps for two seconds.
PostShutdown ==
    /\ admin = "up"
    /\ sleeper' = "asleep"
    /\ UNCHANGED <<control, net, game, chat, admin, fileVars>>

\* GameManager::requestShutdown.  As with a signal, anything may come of it once
\* the components are destroyed.
Wake ==
    /\ sleeper = "asleep"
    /\ sleeper' = "done"
    /\ Stop
    /\ asked' = HasContext
    /\ UNCHANGED <<main, signals, restarts, net, game, chat, admin, fileVars>>

\* The system kills the process, or an exception ends it.
Killed == Die

\* What is left on the disk is what the next process starts with.
Restart ==
    /\ main = "ended"
    /\ restarts < MaxRestarts
    /\ restarts' = restarts + 1
    /\ main' = "start" /\ gRunning' = TRUE /\ ioStopped' = FALSE
    /\ signals' = 0 /\ asked' = FALSE
    /\ UNCHANGED <<threads, fileVars>>

-----------------------------------------------------------------------------
(* The threads *)

\* io_context::run returns when it is stopped; receiving never runs out of work.
NetworkThread ==
    /\ net = "running"
    /\ ioStopped
    /\ net' = "done"
    /\ UNCHANGED <<control, game, chat, admin, sleeper, fileVars>>

LoopEnds == ~gRunning

\* GameManager::run looks at the flag between two ticks, and never in one: a tick
\* in which games end writes their files to the last.
GameEnds ==
    /\ game = "running"
    /\ writer = Idle
    /\ LoopEnds
    /\ game' = "done"
    /\ UNCHANGED <<control, net, chat, admin, sleeper, fileVars>>

GameEndsMatch == game = "running" /\ EndMatch /\ UNCHANGED <<control, threads>>

GameWrites == game = "running" /\ WriteScores /\ UNCHANGED <<control, threads>>

\* runChatThread looks at the flag after each poll of 100 ms.
ChatEnds ==
    /\ chat = "running"
    /\ LoopEnds
    /\ chat' = "done"
    /\ UNCHANGED <<control, net, game, admin, sleeper, fileVars>>

\* ChatManager waits for the mutex it holds (module Chat).
ChatLocksUp ==
    /\ chat = "running"
    /\ chat' = "locked"
    /\ UNCHANGED <<control, net, game, admin, sleeper, fileVars>>

\* Each thread catches its exceptions and ends, the chat's also on an error of
\* poll: the flag and the other threads learn nothing of it.
NetworkFails ==
    /\ net = "running"
    /\ net' = "done"
    /\ UNCHANGED <<control, game, chat, admin, sleeper, fileVars>>

GameFails ==
    /\ game = "running"
    /\ writer = Idle
    /\ game' = "done"
    /\ UNCHANGED <<control, net, chat, admin, sleeper, fileVars>>

ChatFails ==
    /\ chat = "running"
    /\ chat' = "done"
    /\ UNCHANGED <<control, net, game, admin, sleeper, fileVars>>

Fails == NetworkFails \/ GameFails \/ ChatFails

GetScores == admin = "up" /\ ReadScores /\ UNCHANGED <<control, threads>>

TimePasses == Clock /\ UNCHANGED <<control, threads>>

Next ==
    \/ MainThread
    \/ Signal \/ SecondSignal \/ PostShutdown \/ Wake \/ Killed \/ Restart
    \/ NetworkThread \/ GameEnds \/ GameEndsMatch \/ GameWrites \/ ChatEnds
    \/ ChatLocksUp \/ Fails
    \/ GetScores \/ TimePasses

Spec == Init /\ [][Next]_vars

\* The threads run, disks answer, sleepers wake.  Nobody has to send a signal, and
\* no game has to end.
Fairness ==
    /\ WF_vars(MainThread)
    /\ WF_vars(NetworkThread)
    /\ WF_vars(GameEnds)
    /\ WF_vars(GameWrites)
    /\ WF_vars(ChatEnds)
    /\ WF_vars(Wake)

FairSpec == Spec /\ Fairness

-----------------------------------------------------------------------------
(* Properties *)

\* "Arrêt propre": when main gives up the components, by an orderly stop or by an
\* exception of its start, no thread that uses them is running and no file of
\* scores is half way.  (The detached threads of POST /shutdown are not waited for.)
DestroyedLast ==
    main = "destroyed" =>
        /\ net # "running" /\ game # "running" /\ chat \notin {"running", "locked"}
        /\ admin # "up"
        /\ writer = Idle

\* A stop that is asked for when there is an io_context, by signal or over HTTP,
\* comes to its end, whichever thread has failed, unless the chat thread has locked
\* itself up.  (A signal before that leaves the network thread running, and main
\* waiting for it.)
StopsWhenAsked == asked ~> main = "ended" \/ chat = "locked"

=============================================================================
