----------------------------- MODULE PollThread -----------------------------
(***************************************************************************)
(* The life of the poll thread (src/V4l2Driver.cpp): createPollThread,     *)
(* pausePollThread, resumePollThread, stopPollThread and the destructors   *)
(* on one side, threadLoop on the other.  V4l2Driver models what the       *)
(* thread does with a snapshot of poll(); here that is one step,           *)
(* "callback", and the protocol around it is in full.                      *)
(*                                                                         *)
(* The client is the session's thread: the session creates the driver, may *)
(* give up at any point of its setup (the early returns of TestingDecoder  *)
(* and TestingEncoder, which destroy the driver without deinit), may pause *)
(* and resume (V4l2Decoder::pause, resume) and ends with deinit.           *)
(*                                                                         *)
(* A section under mPollThreadLock is one step.  wait() has no predicate,  *)
(* so the thread may also wake up with nobody asking for it.               *)
(***************************************************************************)
EXTENDS Naturals

CONSTANTS
    MaxPauses,  \* bound on the pauses of a session
    MaxWakes    \* bound on the spurious wake-ups of a pause

ASSUME PollThreadAssumption == MaxPauses \in Nat /\ MaxWakes \in Nat

VARIABLES
    pc,                 \* where the session is
    tpc,                \* where the poll thread is
    mThreadRunning,
    mPollThreadExit,
    mPollThreadPaused,
    mBufferQueued,
    joinable,           \* mPollThread is set and its thread not joined
    deinitCalled,       \* history: the session went through deinit
    pauses,             \* history: pauses so far
    polls,              \* history: poll()s begun during the last pause
    wakes               \* history: spurious wake-ups of the last pause

flagVars == <<mThreadRunning, mPollThreadExit, mPollThreadPaused,
              mBufferQueued>>
historyVars == <<deinitCalled, pauses, polls, wakes>>
vars == <<pc, tpc, flagVars, joinable, historyVars>>

SessionPc == {"open", "creating", "setup", "running", "joining", "stopped",
              "destroyed", "terminated"}
ThreadPc == {"none", "starting", "head", "polling", "callback",
             "errorCallback", "pauseCheck", "waiting", "leaving", "gone"}

TypeOK ==
    /\ pc \in SessionPc
    /\ tpc \in ThreadPc
    /\ mThreadRunning \in BOOLEAN
    /\ mPollThreadExit \in BOOLEAN
    /\ mPollThreadPaused \in BOOLEAN
    /\ mBufferQueued \in BOOLEAN
    /\ joinable \in BOOLEAN
    /\ deinitCalled \in BOOLEAN
    /\ pauses \in Nat
    /\ polls \in Nat
    /\ wakes \in Nat

\* init has opened the device; the constructor has cleared the flags.
Init ==
    /\ pc = "open"
    /\ tpc = "none"
    /\ mThreadRunning = FALSE
    /\ mPollThreadExit = FALSE
    /\ mPollThreadPaused = FALSE
    /\ mBufferQueued = FALSE
    /\ joinable = FALSE
    /\ deinitCalled = FALSE
    /\ pauses = 0
    /\ polls = 0
    /\ wakes = 0

-----------------------------------------------------------------------------
\* The session.

\* createPollThread starts the thread ...
CreatePollThread ==
    /\ pc = "open"
    /\ pc' = "creating"
    /\ tpc' = "starting"
    /\ joinable' = TRUE
    /\ UNCHANGED <<flagVars, historyVars>>

\* ... and waits a second for it to run.
ThreadSeenRunning ==
    /\ pc = "creating"
    /\ mThreadRunning
    /\ pc' = "setup"
    /\ UNCHANGED <<tpc, flagVars, joinable, historyVars>>

\* registerCallbacks and the other calls between init and the loop.
SetupDone ==
    /\ pc = "setup"
    /\ pc' = "running"
    /\ UNCHANGED <<tpc, flagVars, joinable, historyVars>>

\* queueBuf: the first VIDIOC_QBUF that succeeds lets the thread poll.
QueueBuf ==
    /\ pc = "running"
    /\ mBufferQueued' = TRUE
    /\ UNCHANGED <<pc, tpc, joinable, historyVars>>
    /\ UNCHANGED <<mThreadRunning, mPollThreadExit, mPollThreadPaused>>

PausePollThread ==
    /\ pc = "running"
    /\ pauses < MaxPauses
    /\ mPollThreadPaused' = TRUE
    /\ pauses' = pauses + 1
    /\ polls' = IF mPollThreadPaused THEN polls ELSE 0
    /\ wakes' = IF mPollThreadPaused THEN wakes ELSE 0
    /\ UNCHANGED <<pc, tpc, joinable, deinitCalled>>
    /\ UNCHANGED <<mThreadRunning, mPollThreadExit, mBufferQueued>>

\* Mutant: the flag is cleared without a notify_one().
ResumeSilently ==
    /\ pc = "running"
    /\ mPollThreadPaused' = FALSE
    /\ UNCHANGED <<pc, tpc, joinable, historyVars>>
    /\ UNCHANGED <<mThreadRunning, mPollThreadExit, mBufferQueued>>

ResumePollThread ==
    /\ pc = "running"
    /\ mPollThreadPaused' = FALSE
    /\ tpc' = IF tpc = "waiting" THEN "head" ELSE tpc
    /\ UNCHANGED <<pc, joinable, historyVars>>
    /\ UNCHANGED <<mThreadRunning, mPollThreadExit, mBufferQueued>>

\* Mutant: a thread that has left its loop by itself is not joined.
StopRunningOnly ==
    /\ pc = "running"
    /\ mPollThreadExit' = TRUE
    /\ deinitCalled' = TRUE
    /\ pc' = IF mThreadRunning THEN "joining" ELSE "stopped"
    /\ UNCHANGED <<tpc, joinable, pauses, polls, wakes>>
    /\ UNCHANGED <<mThreadRunning, mPollThreadPaused, mBufferQueued>>

\* deinit: stopPollThread raises the flag, whether or not the thread is paused.
StopPollThread ==
    /\ pc = "running"
    /\ mPollThreadExit' = TRUE
    /\ deinitCalled' = TRUE
    /\ pc' = "joining"
    /\ UNCHANGED <<tpc, joinable, pauses, polls, wakes>>
    /\ UNCHANGED <<mThreadRunning, mPollThreadPaused, mBufferQueued>>

\* Mutant: the thread is detached.
Detach ==
    /\ pc = "joining"
    /\ joinable' = FALSE
    /\ pc' = "stopped"
    /\ UNCHANGED <<tpc, flagVars, historyVars>>

\* join() returns; mPollThread is reset.
Join ==
    /\ pc = "joining"
    /\ tpc = "gone"
    /\ joinable' = FALSE
    /\ pc' = "stopped"
    /\ UNCHANGED <<tpc, flagVars, historyVars>>

\* The session returns and the driver is destroyed, after deinit or, when a
\* call of the setup has failed or the thread was not seen running in time,
\* without.  Destroying a std::thread that is still joinable terminates the
\* process.
Destroy ==
    /\ pc \in {"open", "creating", "setup", "stopped"}
    /\ pc' = IF joinable THEN "terminated" ELSE "destroyed"
    /\ UNCHANGED <<tpc, flagVars, joinable, historyVars>>

Session ==
    \/ CreatePollThread \/ ThreadSeenRunning \/ SetupDone \/ QueueBuf
    \/ PausePollThread \/ ResumePollThread \/ StopPollThread \/ Join
    \/ Destroy

-----------------------------------------------------------------------------
\* threadLoop.

Alive == pc # "terminated"

ThreadBegins ==
    /\ Alive
    /\ tpc = "starting"
    /\ mThreadRunning' = TRUE
    /\ tpc' = "head"
    /\ UNCHANGED <<pc, mPollThreadExit, mPollThreadPaused, mBufferQueued>>
    /\ UNCHANGED <<joinable, historyVars>>

CallPoll ==
    /\ tpc' = "polling"
    /\ polls' = IF mPollThreadPaused THEN polls + 1 ELSE polls

\* Mutant: the thread polls before there is a buffer.
HeadWithoutBuffer ==
    /\ Alive
    /\ tpc = "head"
    /\ \/ mPollThreadExit /\ tpc' = "leaving" /\ UNCHANGED polls
       \/ ~mPollThreadExit /\ CallPoll
    /\ UNCHANGED <<pc, flagVars, joinable, deinitCalled, pauses, wakes>>

\* Mutant: the wait for a first buffer does not look at mPollThreadExit.
HeadBufferFirst ==
    /\ Alive
    /\ tpc = "head"
    /\ mBufferQueued
    /\ \/ mPollThreadExit /\ tpc' = "leaving" /\ UNCHANGED polls
       \/ ~mPollThreadExit /\ CallPoll
    /\ UNCHANGED <<pc, flagVars, joinable, deinitCalled, pauses, wakes>>

\* while (!mPollThreadExit); until there is a buffer the thread only sleeps.
LoopHead ==
    /\ Alive
    /\ tpc = "head"
    /\ \/ mPollThreadExit /\ tpc' = "leaving" /\ UNCHANGED polls
       \/ ~mPollThreadExit /\ mBufferQueued /\ CallPoll
    /\ UNCHANGED <<pc, flagVars, joinable, deinitCalled, pauses, wakes>>

\* poll() returns: with something to handle, with an error, or after a second.
PollReturns ==
    /\ Alive
    /\ tpc = "polling"
    /\ tpc' \in {"callback", "errorCallback", "pauseCheck"}
    /\ UNCHANGED <<pc, flagVars, joinable, historyVars>>

Callback ==
    /\ Alive
    /\ \/ tpc = "callback" /\ tpc' = "pauseCheck"
       \/ tpc = "errorCallback" /\ tpc' = "leaving"
    /\ UNCHANGED <<pc, flagVars, joinable, historyVars>>

\* Mutant: mPauser is not waited for.
CheckPauseOnly ==
    /\ Alive
    /\ tpc = "pauseCheck"
    /\ tpc' = "head"
    /\ UNCHANGED <<pc, flagVars, joinable, historyVars>>

\* Under mPollThreadLock, which mPauser.wait() gives back.
CheckPause ==
    /\ Alive
    /\ tpc = "pauseCheck"
    /\ tpc' = IF mPollThreadPaused THEN "waiting" ELSE "head"
    /\ UNCHANGED <<pc, flagVars, joinable, historyVars>>

SpuriousWake ==
    /\ Alive
    /\ tpc = "waiting"
    /\ wakes < MaxWakes
    /\ wakes' = wakes + 1
    /\ tpc' = "head"
    /\ UNCHANGED <<pc, flagVars, joinable, deinitCalled, pauses, polls>>

ThreadEnds ==
    /\ Alive
    /\ tpc = "leaving"
    /\ mThreadRunning' = FALSE
    /\ tpc' = "gone"
    /\ UNCHANGED <<pc, mPollThreadExit, mPollThreadPaused, mBufferQueued>>
    /\ UNCHANGED <<joinable, historyVars>>

Thread ==
    \/ ThreadBegins \/ LoopHead \/ PollReturns \/ Callback \/ CheckPause
    \/ ThreadEnds

Finished == pc \in {"destroyed", "terminated"} /\ UNCHANGED vars

Next == Session \/ Thread \/ SpuriousWake \/ Finished

Spec == Init /\ [][Next]_vars

\* The operating system runs the thread, and join() returns when it has ended.
\* Nothing obliges a session to end, nor a waiting thread to wake by itself.
FairSpec == Spec /\ WF_vars(Thread) /\ WF_vars(Join)

-----------------------------------------------------------------------------
\* Properties.

\* No resume is lost: the thread waits only while it is paused, so whoever
\* resumes it finds it either waiting, and wakes it, or not yet waiting.
WaitsOnlyPaused == tpc = "waiting" => mPollThreadPaused

\* A pause takes hold: after pausePollThread has returned the thread polls at
\* most once more, and once for each spurious wake-up, wait() having no
\* predicate.
PauseTakesHold == mPollThreadPaused => polls <= 1 + wakes

\* The thread runs from init on, before registerCallbacks: it must not call
\* back until the session is past its setup.
CallbacksRegistered ==
    tpc \in {"callback", "errorCallback"}
        => pc \in {"running", "joining"}

\* A driver is destroyed, and its file descriptor closed, only when its thread
\* can no longer use it.
DriverOutlivesThread ==
    pc \in {"stopped", "destroyed"} => tpc \in {"none", "gone"}

\* deinit is enough: a session that went through it, whatever the state of the
\* thread then, does not terminate the process.
DeinitIsEnough == deinitCalled => pc # "terminated"

\* Liveness: stopPollThread returns, unless the thread is paused.
StopReturns == (pc = "joining" /\ ~mPollThreadPaused) ~> (pc = "stopped")

-----------------------------------------------------------------------------
\* The inductive invariant.

\* A thread at the head of its loop still has a poll of its allowance left.
PollAllowance ==
    mPollThreadPaused =>
        polls + (IF tpc = "head" THEN 1 ELSE 0) <= 1 + wakes

\* joinable, the history of deinit and the place of the thread follow the
\* session.
ThreadFollowsSession ==
    /\ joinable <=> pc \in {"creating", "setup", "running", "joining",
                            "terminated"}
    /\ pc = "open" => tpc = "none"
    /\ tpc = "none" => pc \in {"open", "destroyed"} /\ ~mThreadRunning
    /\ tpc = "starting" => pc \in {"creating", "terminated"} /\ ~mThreadRunning
    /\ pc = "stopped" => tpc = "gone"
    /\ pc = "destroyed" => tpc \in {"none", "gone"}
    /\ deinitCalled => pc \in {"joining", "stopped", "destroyed"}
    /\ pc \in {"joining", "stopped"} => deinitCalled

\* Nothing is paused and no buffer queued before the loop of the session; the
\* thread is beyond its first sleep only when there is one.
QuietUntilBuffer ==
    /\ mBufferQueued \/ mPollThreadPaused
        => pc \in {"running", "joining", "stopped", "destroyed"}
    /\ tpc \in {"polling", "callback", "errorCallback", "pauseCheck",
                "waiting"} => mBufferQueued

PollThreadInv ==
    /\ TypeOK
    /\ ThreadFollowsSession
    /\ QuietUntilBuffer
    /\ WaitsOnlyPaused
    /\ PollAllowance
=============================================================================
