----------------------------- MODULE DriverLife -----------------------------
(***************************************************************************)
(* The life of a V4l2Driver: DeviceOpening before the poll thread is made  *)
(* and after it has been joined, PollThread in between.  A session that    *)
(* gives up in its setup returns without deinit.                           *)
(***************************************************************************)
EXTENDS PollThread, DeviceOpening

lifeVars == <<vars, openingVars>>

LifeInit == Init /\ OpeningInit

InitOpens == pc = "open" /\ Opening /\ UNCHANGED vars

\* Mutant: the descriptors are closed before the thread is stopped.
CloseBeforeJoin == pc = "joining" /\ CloseAll /\ UNCHANGED vars

DeinitCloses == pc = "stopped" /\ CloseAll /\ UNCHANGED vars

\* The thread is made once the device is open, and the driver destroyed when
\* init has failed, when it gives up, or when deinit is through.
InTurn ==
    /\ pc = "open" /\ pc' = "creating" => opening = "ready"
    /\ pc = "open" /\ pc' = "destroyed" => opening \in {"ready", "failed"}
    /\ pc = "stopped" /\ pc' = "destroyed" => opening = "closed"

Life(Step) == Step /\ InTurn /\ UNCHANGED openingVars

LifeNext == InitOpens \/ DeinitCloses \/ Life(Next)

\* The fairness of PollThread.
LifeSpec ==
    /\ LifeInit /\ [][LifeNext]_lifeVars
    /\ WF_lifeVars(Life(Thread)) /\ WF_lifeVars(Life(Join))

-----------------------------------------------------------------------------
\* While the thread may use the device, in poll() or from a callback, the
\* device is open: its descriptor is closed after the join, never reused for
\* something else under the thread.
ThreadPollsOpenDevice ==
    tpc \notin {"none", "gone"} => mFd \in held

\* No descriptor is lost on the way - the devices that do not match are closed
\* - and after deinit none is held.  (A session that gives up in its setup
\* keeps its own: nothing closes them before the process ends.)
DescriptorsKept ==
    /\ held \subseteq {mFd, mHeapFd}
    /\ pc = "destroyed" /\ deinitCalled => held = {}

-----------------------------------------------------------------------------
\* The inductive invariant: PollThread's, DeviceOpening's, and that the two go
\* in turn.
InTurnInv ==
    /\ opening \in {"open", "match", "formats", "heap"} => pc = "open"
    /\ opening = "closed" => pc \in {"stopped", "destroyed"}
    /\ pc \in {"creating", "setup", "running", "joining", "terminated"}
           => opening = "ready"
    /\ pc = "destroyed" /\ deinitCalled => opening = "closed"
    /\ pc = "stopped" => opening \in {"ready", "closed"}

LifeInv ==
    PollThreadInv /\ OpeningTypeOK /\ OpeningInv /\ InTurnInv
=============================================================================
