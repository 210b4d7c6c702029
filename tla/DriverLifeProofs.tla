-------------------------- MODULE DriverLifeProofs --------------------------
(***************************************************************************)
(* The safety properties of DriverLife, for any devices, formats, pauses   *)
(* and spurious wake-ups: LifeInv is inductive.  Its part about the thread *)
(* is PollThreadInv, which opening and closing do not touch.               *)
(***************************************************************************)
EXTENDS DriverLife, TLAPS

-----------------------------------------------------------------------------
\* The poll thread: PollThreadInv is inductive.

USE DEF SessionPc, ThreadPc

\* The initial states satisfy the invariant.
LEMMA InitInv == Init => PollThreadInv
  <1> SUFFICES ASSUME Init PROVE PollThreadInv
    OBVIOUS
  <1>1. TypeOK
    BY DEF Init, TypeOK
  <1>2. ThreadFollowsSession
    BY DEF Init, ThreadFollowsSession
  <1>3. QuietUntilBuffer /\ WaitsOnlyPaused /\ PollAllowance
    BY DEF Init, QuietUntilBuffer, WaitsOnlyPaused, PollAllowance
  <1> QED
    BY <1>1, <1>2, <1>3 DEF PollThreadInv

\* The steps of the session's thread preserve it.
LEMMA SessionKeepsInv ==
  ASSUME PollThreadInv, Session
  PROVE  PollThreadInv'
  <1> USE PollThreadAssumption
          DEF PollThreadInv, TypeOK, ThreadFollowsSession, QuietUntilBuffer,
              WaitsOnlyPaused, PollAllowance, flagVars, historyVars
  <1>1. CASE CreatePollThread
    BY <1>1 DEF CreatePollThread
  <1>2. CASE ThreadSeenRunning
    BY <1>2 DEF ThreadSeenRunning
  <1>3. CASE SetupDone
    BY <1>3 DEF SetupDone
  <1>4. CASE QueueBuf
    BY <1>4 DEF QueueBuf
  <1>5. CASE PausePollThread
    BY <1>5 DEF PausePollThread
  <1>6. CASE ResumePollThread
    BY <1>6 DEF ResumePollThread
  <1>7. CASE StopPollThread
    BY <1>7 DEF StopPollThread
  <1>8. CASE Join
    BY <1>8 DEF Join
  <1>9. CASE Destroy
    BY <1>9 DEF Destroy
  <1> QED
    BY <1>1, <1>2, <1>3, <1>4, <1>5, <1>6, <1>7, <1>8, <1>9 DEF Session

\* The steps of the poll thread preserve it.
LEMMA ThreadKeepsInv ==
  ASSUME PollThreadInv, Thread \/ SpuriousWake
  PROVE  PollThreadInv'
  <1> USE PollThreadAssumption
          DEF PollThreadInv, TypeOK, ThreadFollowsSession, QuietUntilBuffer,
              WaitsOnlyPaused, PollAllowance, flagVars, historyVars, Alive
  <1>1. CASE ThreadBegins
    BY <1>1 DEF ThreadBegins
  <1>2. CASE LoopHead
    BY <1>2 DEF LoopHead, CallPoll
  <1>3. CASE PollReturns
    BY <1>3 DEF PollReturns
  <1>4. CASE Callback
    BY <1>4 DEF Callback
  <1>5. CASE CheckPause
    BY <1>5 DEF CheckPause
  <1>6. CASE ThreadEnds
    BY <1>6 DEF ThreadEnds
  <1>7. CASE SpuriousWake
    BY <1>7 DEF SpuriousWake
  <1> QED
    BY <1>1, <1>2, <1>3, <1>4, <1>5, <1>6, <1>7 DEF Thread

\* So does every step.
LEMMA NextKeepsInv == PollThreadInv /\ [Next]_vars => PollThreadInv'
  <1> SUFFICES ASSUME PollThreadInv, [Next]_vars
               PROVE  PollThreadInv'
    OBVIOUS
  <1>1. CASE UNCHANGED vars
    BY <1>1 DEF vars, flagVars, historyVars, PollThreadInv, TypeOK,
                ThreadFollowsSession, QuietUntilBuffer, WaitsOnlyPaused,
                PollAllowance
  <1>2. CASE Finished
    BY <1>1, <1>2 DEF Finished, vars, flagVars, historyVars, PollThreadInv,
                TypeOK, ThreadFollowsSession, QuietUntilBuffer,
                WaitsOnlyPaused, PollAllowance
  <1> QED
    BY <1>1, <1>2, SessionKeepsInv, ThreadKeepsInv DEF Next

\* The poll thread, the flags it shares with the session and the thread object
\* stay consistent, however often it is paused (V4l2Driver.cpp).
THEOREM InvariantCorrect == Spec => []PollThreadInv
  BY InitInv, NextKeepsInv, PTL DEF Spec

\* No resume is lost: resumePollThread changes the flag under the lock that the
\* thread holds from its look at the flag until it waits.
THEOREM NoResumeLost == Spec => []WaitsOnlyPaused
  <1>1. PollThreadInv => WaitsOnlyPaused
    BY DEF PollThreadInv
  <1> QED
    BY <1>1, InvariantCorrect, PTL

\* A paused thread begins at most one poll, and one for each spurious wake-up.
THEOREM PauseHolds == Spec => []PauseTakesHold
  <1>1. PollThreadInv => PauseTakesHold
    BY DEF PollThreadInv, TypeOK, PollAllowance, PauseTakesHold
  <1> QED
    BY <1>1, InvariantCorrect, PTL

\* threadLoop calls back only once the session has registered its callbacks:
\* it polls nothing before queueBuf has succeeded.
THEOREM CallbacksFindSession == Spec => []CallbacksRegistered
  <1>1. PollThreadInv => CallbacksRegistered
    BY DEF PollThreadInv, QuietUntilBuffer, ThreadFollowsSession,
           CallbacksRegistered
  <1> QED
    BY <1>1, InvariantCorrect, PTL

\* The driver, and the file descriptor the thread polls, outlive the thread.
THEOREM DriverOutlives == Spec => []DriverOutlivesThread
  <1>1. PollThreadInv => DriverOutlivesThread
    BY DEF PollThreadInv, ThreadFollowsSession, DriverOutlivesThread
  <1> QED
    BY <1>1, InvariantCorrect, PTL

\* A session that went through deinit does not terminate the process.
THEOREM DeinitSuffices == Spec => []DeinitIsEnough
  <1>1. PollThreadInv => DeinitIsEnough
    BY DEF PollThreadInv, ThreadFollowsSession, DeinitIsEnough
  <1> QED
    BY <1>1, InvariantCorrect, PTL

-----------------------------------------------------------------------------
\* The device around it: so is LifeInv.

\* The parts of a device list that the search looks at.
LEMMA DeviceFacts ==
    ASSUME devices \in DeviceLists
    PROVE  /\ Len(devices) \in Nat
           /\ DOMAIN devices = 1 .. Len(devices)
  BY DeviceAssumption

LEMMA LifeInitInv == LifeInit => LifeInv
  <1> SUFFICES ASSUME LifeInit PROVE LifeInv
    OBVIOUS
  <1>1. PollThreadInv
    BY InitInv DEF LifeInit
  <1>2. SearchInOrder
    <2>1. devices \in DeviceLists /\ idx = 1 /\ opening = "open"
      BY DEF LifeInit, OpeningInit
    <2>2. \A i \in DOMAIN devices : ~(i < idx)
      BY <2>1, DeviceFacts
    <2> QED
      BY <2>1, <2>2 DEF SearchInOrder
  <1>3. HeldInOrder /\ HeapForDmaBuffers
    BY DEF LifeInit, OpeningInit, HeldInOrder, HeapForDmaBuffers
  <1>4. InTurnInv
    BY DEF LifeInit, OpeningInit, Init, InTurnInv
  <1>5. OpeningTypeOK
    <2>1. idx = 1 /\ 1 \in 1 .. Len(devices) + 1
      BY DeviceFacts DEF LifeInit, OpeningInit
    <2> QED
      BY <2>1 DEF LifeInit, OpeningInit, OpeningTypeOK
  <1> QED
    BY <1>1, <1>2, <1>3, <1>4, <1>5
    DEF LifeInit, OpeningInit, LifeInv, OpeningInv

-----------------------------------------------------------------------------
\* A device matches when it is for the Domain and can be opened.
LEMMA MatchIsForDomain ==
    ASSUME NEW i \in DOMAIN devices, devices[i].opens
    PROVE  isMatchVideoDevice(devices[i]) <=> ForDomain(devices[i])
  BY DEF isMatchVideoDevice, ForDomain

LEMMA TryDeviceKeeps ==
    ASSUME OpeningInv, TryDevice
    PROVE  OpeningInv'
  <1>1. idx \in DOMAIN devices /\ idx \in Nat
    BY DeviceFacts DEF OpeningInv, SearchInOrder, TryDevice
  <1>2. UNCHANGED <<devices, mDomain, formats, mHeapFd, mMemoryType>>
    BY DEF TryDevice, caseVars
  <1>3. \A i \in DOMAIN devices : ForDomain(devices[i])' <=>
                                  ForDomain(devices[i])
    BY <1>2 DEF ForDomain, PictureSide, StreamSide
  <1>4. CASE devices[idx].opens
    <2>1. /\ mFd' = idx /\ held' = held \cup {idx}
          /\ opening' = "match" /\ idx' = idx /\ opening = "open"
      BY <1>4 DEF TryDevice
    <2>2. SearchInOrder'
      BY <1>1, <1>2, <1>3, <1>4, <2>1 DEF OpeningInv, SearchInOrder
    <2>3. HeldInOrder' /\ HeapForDmaBuffers'
      BY <1>2, <2>1 DEF OpeningInv, HeldInOrder, HeapForDmaBuffers
    <2> QED
      BY <1>2, <2>2, <2>3 DEF OpeningInv
  <1>5. CASE ~devices[idx].opens
    <2>1. /\ mFd' = mFd /\ held' = held /\ opening' = opening
          /\ opening = "open" /\ idx' = idx + 1
      BY <1>5 DEF TryDevice, NextDevice
    <2>2. ~ForDomain(devices[idx])
      BY <1>5 DEF ForDomain
    <2>3. SearchInOrder'
      BY <1>1, <1>2, <1>3, <2>1, <2>2, DeviceFacts DEF OpeningInv,
         SearchInOrder
    <2>4. HeldInOrder' /\ HeapForDmaBuffers'
      BY <1>2, <2>1 DEF OpeningInv, HeldInOrder, HeapForDmaBuffers
    <2> QED
      BY <1>2, <2>3, <2>4 DEF OpeningInv
  <1> QED
    BY <1>4, <1>5

LEMMA MatchDeviceKeeps ==
    ASSUME OpeningInv, MatchDevice
    PROVE  OpeningInv'
  <1>1. /\ opening = "match" /\ mFd = idx /\ idx \in DOMAIN devices
        /\ idx \in Nat /\ devices[idx].opens
    BY DEF OpeningInv, SearchInOrder, MatchDevice
  <1>2. UNCHANGED <<devices, mDomain, formats, mHeapFd, mMemoryType>>
    BY DEF MatchDevice, caseVars
  <1>3. \A i \in DOMAIN devices : ForDomain(devices[i])' <=>
                                  ForDomain(devices[i])
    BY <1>2 DEF ForDomain, PictureSide, StreamSide
  <1>4. isMatchVideoDevice(devices[idx]) <=> ForDomain(devices[idx])
    BY <1>1, MatchIsForDomain
  <1>5. CASE isMatchVideoDevice(devices[mFd])
    <2>1. opening' = "formats" /\ UNCHANGED <<idx, mFd, held>>
      BY <1>5 DEF MatchDevice
    <2>2. SearchInOrder'
      BY <1>1, <1>2, <1>3, <1>4, <1>5, <2>1 DEF OpeningInv, SearchInOrder
    <2>3. HeldInOrder' /\ HeapForDmaBuffers'
      BY <1>1, <1>2, <2>1 DEF OpeningInv, HeldInOrder, HeapForDmaBuffers
    <2> QED
      BY <1>2, <2>2, <2>3 DEF OpeningInv
  <1>6. CASE ~isMatchVideoDevice(devices[mFd])
    <2>1. /\ opening' = "open" /\ held' = held \ {mFd} /\ mFd' = Closed
          /\ idx' = idx + 1
      BY <1>6 DEF MatchDevice, ClosedAgain, NextDevice
    <2>2. SearchInOrder'
      BY <1>1, <1>2, <1>3, <1>4, <1>6, <2>1, DeviceFacts DEF OpeningInv,
         SearchInOrder
    <2>3. HeldInOrder' /\ HeapForDmaBuffers'
      BY <1>1, <1>2, <2>1 DEF OpeningInv, HeldInOrder, HeapForDmaBuffers
    <2> QED
      BY <1>2, <2>2, <2>3 DEF OpeningInv
  <1> QED
    BY <1>5, <1>6

\* The other steps neither search nor change what has been found.
LEMMA FoundKept ==
    ASSUME OpeningInv, UNCHANGED <<caseVars, idx>>,
           mFd' = mFd, opening # "open", opening # "match",
           opening' \in {"heap", "ready", "failed"},
           opening' # "failed" => opening \in {"formats", "heap", "ready"},
           opening \in {"formats", "heap", "ready"}
    PROVE  devices' \in DeviceLists /\ SearchInOrder'
  <1>1. \A i \in DOMAIN devices : ForDomain(devices[i])' <=>
                                  ForDomain(devices[i])
    BY DEF ForDomain, PictureSide, StreamSide, caseVars
  <1>2. idx \in DOMAIN devices /\ mFd = idx /\ idx \in Nat \ {0}
    BY DEF OpeningInv, SearchInOrder
  <1>3. mFd # Closed
    BY <1>2 DEF Closed
  <1> QED
    BY <1>1, <1>2, <1>3 DEF OpeningInv, SearchInOrder, caseVars

LEMMA SetFormatsKeeps ==
    ASSUME OpeningInv, SetFormats
    PROVE  OpeningInv'
  <1>1. devices' \in DeviceLists /\ SearchInOrder'
    BY FoundKept DEF SetFormats
  <1>2. HeldInOrder'
    BY DEF OpeningInv, SetFormats, HeldInOrder
  <1>3. HeapForDmaBuffers'
    BY DEF SetFormats, HeapForDmaBuffers
  <1> QED
    BY <1>1, <1>2, <1>3 DEF OpeningInv, SetFormats

LEMMA OpenHeapKeeps ==
    ASSUME OpeningInv, OpenHeap
    PROVE  OpeningInv'
  <1>1. devices' \in DeviceLists /\ SearchInOrder'
    BY FoundKept DEF OpenHeap
  <1>2. HeldInOrder' /\ HeapForDmaBuffers' /\
        mMemoryType' \in {"unset", "MMAP", "DMA_BUF"}
    BY DEF OpeningInv, OpenHeap, HeldInOrder, HeapForDmaBuffers,
       setMemoryType, Heap, Closed
  <1> QED
    BY <1>1, <1>2 DEF OpeningInv

LEMMA NoDeviceKeeps ==
    ASSUME OpeningInv, NoDevice
    PROVE  OpeningInv'
  <1>1. UNCHANGED <<devices, mDomain, formats, idx, mFd, mHeapFd,
                    mMemoryType, held>>
        /\ opening = "open" /\ opening' = "failed" /\ idx > Len(devices)
    BY DEF NoDevice, caseVars
  <1>2. \A i \in DOMAIN devices : ForDomain(devices[i])' <=>
                                  ForDomain(devices[i])
    BY <1>1 DEF ForDomain, PictureSide, StreamSide
  <1>3. SearchInOrder'
    BY <1>1, <1>2 DEF OpeningInv, SearchInOrder
  <1>4. HeldInOrder' /\ HeapForDmaBuffers'
    BY <1>1 DEF OpeningInv, HeldInOrder, HeapForDmaBuffers
  <1> QED
    BY <1>1, <1>3, <1>4 DEF OpeningInv

LEMMA CloseAllKeeps ==
    ASSUME OpeningInv, CloseAll
    PROVE  OpeningInv'
  <1>1. \A i \in DOMAIN devices : ForDomain(devices[i])' <=>
                                  ForDomain(devices[i])
    BY DEF CloseAll, ForDomain, PictureSide, StreamSide, caseVars
  <1>2. SearchInOrder'
    BY <1>1 DEF OpeningInv, CloseAll, SearchInOrder, caseVars
  <1>3. HeldInOrder' /\ HeapForDmaBuffers'
    BY DEF OpeningInv, CloseAll, HeldInOrder, HeapForDmaBuffers
  <1> QED
    BY <1>2, <1>3 DEF OpeningInv, CloseAll, caseVars

LEMMA OpeningUnchanged ==
    ASSUME OpeningInv, UNCHANGED openingVars
    PROVE  OpeningInv'
  <1>1. \A i \in DOMAIN devices : ForDomain(devices[i])' <=>
                                  ForDomain(devices[i])
    BY DEF ForDomain, PictureSide, StreamSide, openingVars
  <1> QED
    BY <1>1 DEF openingVars, OpeningInv, SearchInOrder, HeldInOrder,
       HeapForDmaBuffers

\* The search stops at the end of the list, and what is held is a device of it
\* or the heap.
LEMMA OpeningTypes ==
    ASSUME OpeningTypeOK, OpeningInv,
           Opening \/ CloseAll \/ UNCHANGED openingVars
    PROVE  OpeningTypeOK'
  <1>1. Len(devices) \in Nat /\ DOMAIN devices = 1 .. Len(devices)
    BY DeviceFacts DEF OpeningInv
  <1>2. CASE TryDevice
    <2>1. /\ idx \in DOMAIN devices
          /\ idx' \in 1 .. Len(devices) + 1
          /\ mFd' \in {mFd, idx} /\ held' \subseteq held \cup {idx}
          /\ opening' \in {"open", "match"}
      BY <1>1, <1>2 DEF OpeningTypeOK, TryDevice, NextDevice
    <2> QED
      BY <1>2, <2>1 DEF OpeningTypeOK, TryDevice, caseVars
  <1>3. CASE MatchDevice
    <2>1. /\ mFd = idx /\ idx \in DOMAIN devices
          /\ idx' \in 1 .. Len(devices) + 1
      BY <1>1, <1>3 DEF OpeningTypeOK, OpeningInv, SearchInOrder, MatchDevice,
         NextDevice
    <2> QED
      BY <1>3, <2>1 DEF OpeningTypeOK, MatchDevice, ClosedAgain, caseVars
  <1>4. CASE NoDevice
    BY <1>4 DEF OpeningTypeOK, NoDevice, caseVars
  <1>5. CASE SetFormats
    BY <1>5 DEF OpeningTypeOK, SetFormats, caseVars
  <1>6. CASE OpenHeap
    BY <1>6 DEF OpeningTypeOK, OpenHeap, setMemoryType, caseVars
  <1>7. CASE CloseAll
    BY <1>7 DEF OpeningTypeOK, CloseAll, caseVars
  <1>8. CASE UNCHANGED openingVars
    BY <1>8 DEF OpeningTypeOK, openingVars
  <1> QED
    BY <1>2, <1>3, <1>4, <1>5, <1>6, <1>7, <1>8 DEF Opening

-----------------------------------------------------------------------------
LEMMA LifeKeepsInv == LifeInv /\ [LifeNext]_lifeVars => LifeInv'
  <1> SUFFICES ASSUME LifeInv, [LifeNext]_lifeVars PROVE LifeInv'
    OBVIOUS
  <1>1. CASE InitOpens
    <2>0. OpeningTypeOK'
      BY <1>1, OpeningTypes DEF InitOpens, LifeInv
    <2>1. OpeningInv'
      BY <1>1, TryDeviceKeeps, MatchDeviceKeeps, NoDeviceKeeps,
         SetFormatsKeeps, OpenHeapKeeps DEF InitOpens, Opening, LifeInv
    <2>2. PollThreadInv'
      BY <1>1, NextKeepsInv DEF InitOpens, LifeInv
    <2>3. pc = "open" /\ pc' = pc /\ deinitCalled' = deinitCalled
      BY <1>1 DEF InitOpens, vars, historyVars
    <2>4. opening' # "closed"
      BY <1>1 DEF InitOpens, Opening, TryDevice, MatchDevice, NoDevice,
         SetFormats, OpenHeap
    <2> QED
      BY <2>0, <2>1, <2>2, <2>3, <2>4 DEF LifeInv, InTurnInv
  <1>2. CASE DeinitCloses
    <2>0. OpeningTypeOK'
      BY <1>2, OpeningTypes DEF DeinitCloses, LifeInv
    <2>1. OpeningInv'
      BY <1>2, CloseAllKeeps DEF DeinitCloses, LifeInv
    <2>2. PollThreadInv'
      BY <1>2, NextKeepsInv DEF DeinitCloses, LifeInv
    <2>3. pc = "stopped" /\ pc' = pc /\ opening' = "closed"
      BY <1>2 DEF DeinitCloses, vars, CloseAll
    <2> QED
      BY <2>0, <2>1, <2>2, <2>3 DEF LifeInv, InTurnInv
  <1>3. CASE Life(Next)
    <2>1. OpeningTypeOK' /\ OpeningInv' /\ PollThreadInv'
      BY <1>3, OpeningTypes, OpeningUnchanged, NextKeepsInv DEF Life, LifeInv
    <2>2. opening' = opening
      BY <1>3 DEF Life, openingVars
    <2>3. /\ pc' # pc => /\ pc' = "creating" => pc = "open"
                         /\ pc' = "setup" => pc = "creating"
                         /\ pc' = "running" => pc = "setup"
                         /\ pc' = "joining" => pc = "running"
                         /\ pc' = "stopped" => pc = "joining"
                         /\ pc' = "destroyed" =>
                                pc \in {"open", "creating", "setup", "stopped"}
                         /\ pc' = "terminated" =>
                                /\ joinable
                                /\ pc \in {"open", "creating", "setup",
                                           "stopped"}
                         /\ pc' = "open" => FALSE
          /\ deinitCalled' => deinitCalled \/ pc' = "joining"
      BY <1>3 DEF Life, Next, Session, Thread, CreatePollThread,
         ThreadSeenRunning, SetupDone, QueueBuf, PausePollThread,
         ResumePollThread, StopPollThread, Join, Destroy, ThreadBegins,
         LoopHead, PollReturns, Callback, CheckPause, ThreadEnds,
         SpuriousWake, Finished, vars, historyVars
    <2>4. InTurn
      BY <1>3 DEF Life
    <2>5. /\ joinable <=> pc \in {"creating", "setup", "running", "joining",
                                  "terminated"}
          /\ deinitCalled => pc \in {"joining", "stopped", "destroyed"}
      BY DEF LifeInv, PollThreadInv, ThreadFollowsSession
    <2>6. pc' \in SessionPc
      BY <2>1 DEF PollThreadInv, TypeOK
    <2>7. InTurnInv'
      BY <2>2, <2>3, <2>4, <2>5, <2>6 DEF LifeInv, InTurnInv, InTurn,
         SessionPc
    <2> QED
      BY <2>1, <2>7 DEF LifeInv
  <1>4. CASE UNCHANGED lifeVars
    <2>1. UNCHANGED vars /\ UNCHANGED openingVars
      BY <1>4 DEF lifeVars
    <2>2. pc' = pc /\ opening' = opening /\ deinitCalled' = deinitCalled
      BY <2>1 DEF vars, openingVars, historyVars
    <2> QED
      BY <2>1, <2>2, OpeningTypes, OpeningUnchanged, NextKeepsInv
      DEF LifeInv, InTurnInv
  <1> QED
    BY <1>1, <1>2, <1>3, <1>4 DEF LifeNext

\* The poll thread, the device and the heap stay in the order init and deinit
\* give them (V4l2Decoder.cpp, V4l2Encoder.cpp, V4l2Driver.cpp).
THEOREM LifeInvariant == LifeSpec => []LifeInv
  BY LifeInitInv, LifeKeepsInv, PTL DEF LifeSpec

\* What is proved above of the thread alone holds with the device: no
\* resume is lost, a pause takes hold, callbacks find their session, and the
\* driver outlives its thread.
THEOREM ThreadProtocol ==
    LifeSpec => [](/\ WaitsOnlyPaused /\ PauseTakesHold
                   /\ CallbacksRegistered /\ DriverOutlivesThread
                   /\ DeinitIsEnough)
  <1>1. LifeInv => /\ WaitsOnlyPaused /\ PauseTakesHold
                   /\ CallbacksRegistered /\ DriverOutlivesThread
                   /\ DeinitIsEnough
    BY DEF LifeInv, PollThreadInv, TypeOK, ThreadFollowsSession,
       QuietUntilBuffer, PollAllowance, WaitsOnlyPaused, PauseTakesHold,
       CallbacksRegistered, DriverOutlivesThread, DeinitIsEnough
  <1> QED
    BY <1>1, LifeInvariant, PTL

\* While the poll thread is in its loop the descriptor it polls is open: it is
\* closed after stopPollThread has joined the thread.
THEOREM ThreadHasDevice == LifeSpec => []ThreadPollsOpenDevice
  <1>1. LifeInv => ThreadPollsOpenDevice
    <2> SUFFICES ASSUME LifeInv, tpc \notin {"none", "gone"}
                 PROVE  mFd \in held
      BY DEF ThreadPollsOpenDevice
    <2>1. pc \notin {"open", "stopped", "destroyed"} /\ pc \in SessionPc
      BY DEF LifeInv, PollThreadInv, TypeOK, ThreadFollowsSession
    <2>2. opening = "ready"
      BY <2>1 DEF LifeInv, InTurnInv, SessionPc
    <2>3. held = {mFd} \cup IF mMemoryType = "DMA_BUF" THEN {mHeapFd} ELSE {}
      BY <2>2 DEF LifeInv, OpeningInv, HeldInOrder
    <2> QED
      BY <2>3
  <1> QED
    BY <1>1, LifeInvariant, PTL

\* Open takes the first device for the Domain, and fails only without one.
THEOREM SearchIsRight == LifeSpec => []FirstMatchOpened
  <1>1. LifeInv => FirstMatchOpened
    <2> SUFFICES ASSUME LifeInv PROVE FirstMatchOpened
      OBVIOUS
    <2> DEFINE fitting == {i \in DOMAIN devices : ForDomain(devices[i])}
    <2>0. /\ OpeningInv /\ SearchInOrder /\ DOMAIN devices = 1 .. Len(devices)
          /\ Len(devices) \in Nat
      BY DeviceFacts DEF LifeInv, OpeningInv
    <2>1. ASSUME opening \in {"formats", "heap", "ready"}
          PROVE  mFd = Min(fitting)
      <3>1. mFd = idx /\ idx \in fitting /\ \A i \in fitting : ~(i < idx)
        BY <2>0, <2>1 DEF SearchInOrder
      <3>2. \A i \in fitting : idx <= i
        BY <2>0, <3>1
      <3>3. \A x \in fitting : (\A y \in fitting : x <= y) => x = idx
        BY <2>0, <3>1, <3>2
      <3> QED
        BY <3>1, <3>2, <3>3 DEF Min
    <2>2. ASSUME opening = "failed", mFd = Closed
          PROVE  fitting = {}
      BY <2>0, <2>2 DEF SearchInOrder
    <2> QED
      BY <2>1, <2>2 DEF FirstMatchOpened
  <1> QED
    BY <1>1, LifeInvariant, PTL

\* init settles the memory type: the heap is open exactly for DMA_BUF.
THEOREM HeapSettled == LifeSpec => []HeapForDmaBuffers
  <1>1. LifeInv => HeapForDmaBuffers
    BY DEF LifeInv, OpeningInv
  <1> QED
    BY <1>1, LifeInvariant, PTL

\* No descriptor is lost by the search, and deinit leaves none open.
THEOREM NoneLost == LifeSpec => []DescriptorsKept
  <1>1. LifeInv => DescriptorsKept
    <2> SUFFICES ASSUME LifeInv PROVE DescriptorsKept
      OBVIOUS
    <2>1. HeldInOrder /\ InTurnInv
      BY DEF LifeInv, OpeningInv
    <2>2. opening \in {"open", "match", "formats", "heap", "ready", "closed",
                       "failed"}
      BY <2>1 DEF HeldInOrder
    <2>3. held \subseteq {mFd, mHeapFd}
      BY <2>1, <2>2 DEF HeldInOrder
    <2>4. pc = "destroyed" /\ deinitCalled => held = {}
      BY <2>1 DEF HeldInOrder, InTurnInv
    <2> QED
      BY <2>3, <2>4 DEF DescriptorsKept
  <1> QED
    BY <1>1, LifeInvariant, PTL
=============================================================================
