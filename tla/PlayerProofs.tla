---------------------------- MODULE PlayerProofs ----------------------------
(***************************************************************************)
(* Theorems about module Player, for any players and any handlers.  The    *)
(* inductive invariant is a conjunction: who holds PLAYER's mutex          *)
(* (LockInv), which player each handler and the slot own (OwnInv,          *)
(* HandleInv), and what each task can still do (SinkInv, LateInv,          *)
(* MutedInv, ErrInv).  For one client there are two more, about what a     *)
(* player shows (MarkInv, ShowInv).                                        *)
(***************************************************************************)
EXTENDS Player, TLAPS

\* A task step moves one born, unfinished task and touches nothing of the
\* slot, the handles and the handlers.
LEMMA TaskFrame ==
  ASSUME TypeOK, NEW p \in Players, Running(p) \/ Awaiting(p)
  PROVE  /\ UNCHANGED <<slotVars, handleVars, rpcVars, stopFlag>>
         /\ pc[p] \notin {"unborn", "done"}
         /\ \E point \in TaskPoints \ {"unborn"} : pc' = [pc EXCEPT ![p] = point]
BY PlayerAssumption DEF TypeOK, Running, Awaiting, NoClient, Buffering, Child, Ready, Top,
   Sleep, Window, Gate, Write, RecordError, Errored, Ended, Close, Aborted, Manifest, Fetch,
   Read, Kill, TaskState, Elsewhere, Silent, At, Go, TaskPoints, Awaits, slotVars,
   handleVars, rpcVars, fieldVars

-----------------------------------------------------------------------------
(* Types. *)

\* The initial state has its types.
LEMMA TypeInit == Init => TypeOK
BY PlayerAssumption DEF Init, TypeOK, States, TaskPoints, Awaits, RpcPoints, Holding, Cancelling

\* A step of a task keeps the types.
LEMMA TypeTask ==
  ASSUME TypeOK, NEW p \in Players, Running(p) \/ Awaiting(p)
  PROVE  TypeOK'
<1>1. /\ pc' \in [Players -> TaskPoints]
      /\ UNCHANGED <<slotVars, handleVars, rpcVars, stopFlag>>
  BY TaskFrame DEF TypeOK
<1>2. /\ state' \in [Players -> States] /\ paused' \in [Players -> BOOLEAN]
      /\ err' \in [Players -> BOOLEAN] /\ sink' \in [Players -> {"open", "closed"}]
  BY ZenonT(30) DEF TypeOK, Running, Awaiting, NoClient, Buffering, Child, Ready, Top,
     Sleep, Window, Gate, Write, RecordError, Errored, Ended, Close, Aborted, Manifest, Fetch,
     Read, Kill, TaskState, SetState, Silent, fieldVars, States
<1>3. muted' \in [Players -> {0, 1, 2}] /\ late' \in [Players -> {0, 1, 2}]
  BY DEF TypeOK, Running, Awaiting, NoClient, Buffering, Child, Ready, Top,
     Sleep, Window, Gate, Write, RecordError, Errored, Ended, Close, Aborted, Manifest, Fetch,
     Read, Kill, TaskState, Silent, history, UpTo2
<1> QED
  BY <1>1, <1>2, <1>3 DEF TypeOK, slotVars, handleVars, rpcVars

\* So does a step of a handler.
LEMMA TypeHandler ==
  ASSUME TypeOK, NEW r \in Rpcs, Handler(r)
  PROVE  TypeOK'
<1> USE PlayerAssumption DEF TypeOK, AtRpc, GoRpc, RpcPoints, Holding, Cancelling, slotVars,
        fieldVars, handleVars, rpcVars, history
<1>1. CASE Play(r)
  BY <1>1 DEF Play, TaskPoints, Awaits
<1>2. CASE Attach(r)
  BY <1>2 DEF Attach
<1>3. CASE Take(r)
  BY <1>3 DEF Take, LockPlayer, CancelOld
<1>4. CASE CancelFlag(r)
  BY <1>4 DEF CancelFlag
<1>5. CASE CancelClose(r)
  BY <1>5 DEF CancelClose
<1>6. CASE CancelAbort(r)
  <2>1. attached[target[r]] \in BOOLEAN \/ target[r] = NoPlayer
    OBVIOUS
  <2> QED
    BY <1>6, <2>1 DEF CancelAbort
<1>7. CASE Put(r)
  BY <1>7 DEF Put
<1>8. CASE StopState(r)
  BY <1>8 DEF StopState, SetState, States
<1>9. CASE Current(r)
  BY <1>9 DEF Current
<1>10. CASE PauseFlag(r)
  BY <1>10 DEF PauseFlag
<1>11. CASE ResumeFlag(r)
  BY <1>11 DEF ResumeFlag
<1>12. CASE PauseState(r)
  BY <1>12 DEF PauseState, SetState, States
<1> QED
  BY <1>1, <1>2, <1>3, <1>4, <1>5, <1>6, <1>7, <1>8, <1>9, <1>10, <1>11, <1>12 DEF Handler

\* Each step keeps the types.
LEMMA TypeNext == TypeOK /\ [Next]_vars => TypeOK'
<1> SUFFICES ASSUME TypeOK, [Next]_vars PROVE TypeOK'
  OBVIOUS
<1>1. ASSUME NEW r \in Rpcs, Handler(r) PROVE TypeOK'
  BY <1>1, TypeHandler
<1>2. ASSUME NEW p \in Players, Running(p) \/ Awaiting(p) PROVE TypeOK'
  BY <1>2, TypeTask
<1>3. CASE UNCHANGED vars
  BY <1>3 DEF TypeOK, vars, slotVars, fieldVars, handleVars, rpcVars, history
<1> QED
  BY <1>1, <1>2, <1>3 DEF Next

\* Every field keeps its type (player.rs:121-134 and the program points of
\* its callers).
THEOREM TypeCorrect == Spec => []TypeOK
BY TypeInit, TypeNext, PTL DEF Spec

-----------------------------------------------------------------------------
(* The slot, its mutex and what each handler owns. *)

\* A handler past lock() and before the end of its critical section holds the
\* mutex, nobody else does, and the slot is empty until it puts a player there.
LockInv ==
  /\ \A r \in Rpcs : rpc[r] \in Holding <=> lock = r
  /\ lock # NoPlayer => slot = NoPlayer

\* The slot and the handlers between spawn and put own different players,
\* spawned and not cancelled; the player being cancelled is neither.
Owned(p) == pc[p] # "unborn" /\ ~stopFlag[p]
OwnInv ==
  /\ \A p \in Players : stopFlag[p] => pc[p] # "unborn"
  /\ slot # NoPlayer => Owned(slot)
  /\ \A r \in Rpcs : rpc[r] \in {"attach", "install", "put"} => mine[r] # NoPlayer
  /\ \A r \in Rpcs : rpc[r] \in {"idle", "pause", "pauseState", "resume", "resumeState", "stopped"}
                      => mine[r] = NoPlayer
  /\ \A r \in Rpcs : mine[r] # NoPlayer => Owned(mine[r]) /\ mine[r] # slot
  /\ \A r, q \in Rpcs : mine[r] # NoPlayer /\ mine[r] = mine[q] => r = q
  /\ \A r \in Rpcs : rpc[r] \in Cancelling \cup {"stopped"} => target[r] # NoPlayer
  /\ \A r \in Rpcs : rpc[r] = "flag" => Owned(target[r]) /\ \A q \in Rpcs : mine[q] # target[r]
  /\ \A r \in Rpcs : rpc[r] \in {"close", "abort"} => stopFlag[target[r]]

\* The handle of a spawned player is in player.task before the player can be
\* found in the slot, and stays there until cancel takes it.
HandleInv ==
  /\ slot # NoPlayer => attached[slot]
  /\ \A r \in Rpcs : mine[r] # NoPlayer /\ rpc[r] # "attach" => attached[mine[r]]
  /\ \A r \in Rpcs : rpc[r] \in Cancelling => attached[target[r]]
  /\ \A p \in Players : aborted[p] => stopFlag[p]

\* Once cancel has closed the sink of an HLS or DASH player, a task found at an
\* await has a closed sink: after a write that opened it again no await comes
\* before the task closes it itself.
SinkInv == \A p \in Players \ Spotify :
  /\ pc[p] = "done" => sink[p] = "closed"
  /\ (aborted[p] \/ \E r \in Rpcs : rpc[r] = "abort" /\ target[r] = p) /\ pc[p] \in Awaits
       => sink[p] = "closed"

\* After a write that came after stop_flag, every way on leads out of the task.
LateInv == \A p \in Players :
  /\ late[p] <= 1
  /\ late[p] = 1 => /\ stopFlag[p]
                    /\ pc[p] \in {"window", "top", "kill", "failed", "errored", "ended", "closing", "done"}

\* An HLS or DASH task is never at librespot's read; after a write that came
\* after paused, it does not reach another one.
MutedInv == \A p \in Players \ Spotify :
  /\ pc[p] # "read"
  /\ muted[p] <= 1
  /\ muted[p] = 1 => paused[p] /\ ~stopFlag[p] /\ pc[p] # "write"

ErrInv == \A p \in Players : (state[p] = "Errored" \/ pc[p] = "errored") => err[p]

IInv == LockInv /\ OwnInv /\ NoOrphan /\ HandleInv /\ CancelAborts /\ SinkInv /\ LateInv
        /\ MutedInv /\ ErrInv

\* The initial state satisfies the inductive invariant.
LEMMA InvInit == Init => IInv
BY PlayerAssumption DEF Init, IInv, LockInv, OwnInv, Owned, NoOrphan, Live, HandleInv,
   CancelAborts, SinkInv, LateInv, MutedInv, ErrInv, Holding, Cancelling

\* Handlers take the mutex and let it go one at a time.
LEMMA LockHandler ==
  ASSUME TypeOK, LockInv, OwnInv, NEW r \in Rpcs, Handler(r)
  PROVE  LockInv'
<1> USE PlayerAssumption DEF TypeOK, AtRpc, GoRpc, RpcPoints, Holding, Cancelling, slotVars,
        fieldVars, handleVars, rpcVars, history, LockInv, OwnInv
<1>1. CASE Play(r)
  BY <1>1 DEF Play
<1>2. CASE Attach(r)
  BY <1>2 DEF Attach
<1>3. CASE Take(r)
  BY <1>3 DEF Take, LockPlayer, CancelOld
<1>4. CASE CancelFlag(r)
  BY <1>4 DEF CancelFlag
<1>5. CASE CancelClose(r)
  BY <1>5 DEF CancelClose
<1>6. CASE CancelAbort(r)
  BY <1>6 DEF CancelAbort
<1>7. CASE Put(r)
  BY <1>7 DEF Put
<1>8. CASE StopState(r)
  BY <1>8 DEF StopState, SetState
<1>9. CASE Current(r)
  BY <1>9 DEF Current
<1>10. CASE PauseFlag(r)
  BY <1>10 DEF PauseFlag
<1>11. CASE ResumeFlag(r)
  BY <1>11 DEF ResumeFlag
<1>12. CASE PauseState(r)
  BY <1>12 DEF PauseState, SetState
<1> QED
  BY <1>1, <1>2, <1>3, <1>4, <1>5, <1>6, <1>7, <1>8, <1>9, <1>10, <1>11, <1>12 DEF Handler

\* A player passes from one handler's hands to the slot, or out of it.
LEMMA OwnHandler ==
  ASSUME TypeOK, LockInv, OwnInv, NEW r \in Rpcs, Handler(r)
  PROVE  OwnInv'
<1> USE PlayerAssumption DEF TypeOK, AtRpc, GoRpc, RpcPoints, Holding, Cancelling, slotVars,
        fieldVars, handleVars, rpcVars, history, LockInv, OwnInv, Owned,
        TaskPoints, Awaits
<1>1. CASE Play(r)
  BY <1>1 DEF Play
<1>2. CASE Attach(r)
  BY <1>2 DEF Attach
<1>3. CASE Take(r)
  BY <1>3 DEF Take, LockPlayer, CancelOld
<1>4. CASE CancelFlag(r)
  BY <1>4 DEF CancelFlag
<1>5. CASE CancelClose(r)
  BY <1>5 DEF CancelClose
<1>6. CASE CancelAbort(r)
  BY <1>6 DEF CancelAbort
<1>7. CASE Put(r)
  BY <1>7 DEF Put
<1>8. CASE StopState(r)
  BY <1>8 DEF StopState, SetState
<1>9. CASE Current(r)
  BY <1>9 DEF Current
<1>10. CASE PauseFlag(r)
  BY <1>10 DEF PauseFlag
<1>11. CASE ResumeFlag(r)
  BY <1>11 DEF ResumeFlag
<1>12. CASE PauseState(r)
  BY <1>12 DEF PauseState, SetState
<1> QED
  BY <1>1, <1>2, <1>3, <1>4, <1>5, <1>6, <1>7, <1>8, <1>9, <1>10, <1>11, <1>12 DEF Handler

\* No handler loses sight of a task that plays.
LEMMA NoOrphanHandler ==
  ASSUME TypeOK, LockInv, OwnInv, NoOrphan, NEW r \in Rpcs, Handler(r)
  PROVE  NoOrphan'
<1> USE PlayerAssumption DEF TypeOK, AtRpc, GoRpc, RpcPoints, Holding, Cancelling, slotVars,
        fieldVars, handleVars, rpcVars, history, LockInv, OwnInv, Owned,
        NoOrphan, Live, TaskPoints, Awaits
<1>1. CASE Play(r)
  BY <1>1 DEF Play
<1>2. CASE Attach(r)
  BY <1>2 DEF Attach
<1>3. CASE Take(r)
  BY <1>3 DEF Take, LockPlayer, CancelOld
<1>4. CASE CancelFlag(r)
  BY <1>4 DEF CancelFlag
<1>5. CASE CancelClose(r)
  BY <1>5 DEF CancelClose
<1>6. CASE CancelAbort(r)
  BY <1>6 DEF CancelAbort
<1>7. CASE Put(r)
  BY <1>7 DEF Put
<1>8. CASE StopState(r)
  BY <1>8 DEF StopState, SetState
<1>9. CASE Current(r)
  BY <1>9 DEF Current
<1>10. CASE PauseFlag(r)
  BY <1>10 DEF PauseFlag
<1>11. CASE ResumeFlag(r)
  BY <1>11 DEF ResumeFlag
<1>12. CASE PauseState(r)
  BY <1>12 DEF PauseState, SetState
<1> QED
  BY <1>1, <1>2, <1>3, <1>4, <1>5, <1>6, <1>7, <1>8, <1>9, <1>10, <1>11, <1>12 DEF Handler

\* The handle is where cancel finds it.
LEMMA HandleHandler ==
  ASSUME TypeOK, LockInv, OwnInv, HandleInv, NEW r \in Rpcs, Handler(r)
  PROVE  HandleInv'
<1> USE PlayerAssumption DEF TypeOK, AtRpc, GoRpc, RpcPoints, Holding, Cancelling, slotVars,
        fieldVars, handleVars, rpcVars, history, LockInv, OwnInv, Owned,
        HandleInv
<1>1. CASE Play(r)
  BY <1>1 DEF Play
<1>2. CASE Attach(r)
  BY <1>2 DEF Attach
<1>3. CASE Take(r)
  BY <1>3 DEF Take, LockPlayer, CancelOld
<1>4. CASE CancelFlag(r)
  BY <1>4 DEF CancelFlag
<1>5. CASE CancelClose(r)
  BY <1>5 DEF CancelClose
<1>6. CASE CancelAbort(r)
  <2>1. target[r] \in Players /\ stopFlag[target[r]] /\ lock = r /\ slot = NoPlayer
    BY <1>6 DEF CancelAbort
  <2>2. ASSUME NEW q \in Rpcs, mine[q] # NoPlayer PROVE mine[q] # target[r]
    BY <2>1, <2>2
  <2>3. ASSUME NEW q \in Rpcs, mine'[q] # NoPlayer, rpc'[q] # "attach" PROVE attached'[mine'[q]]
    <3>1. mine' = mine /\ attached' = [attached EXCEPT ![target[r]] = FALSE]
      BY <1>6 DEF CancelAbort
    <3>2. mine[q] \in Players /\ attached[mine[q]] /\ mine[q] # target[r]
      BY <1>6, <2>2, <2>3, <3>1 DEF CancelAbort
    <3> QED
      BY <3>1, <3>2
  <2>4. \A q \in Rpcs : rpc'[q] \notin Cancelling
    BY <1>6, <2>1 DEF CancelAbort
  <2>5. \A p \in Players : aborted'[p] => stopFlag'[p]
    BY <1>6, <2>1 DEF CancelAbort
  <2> QED
    BY <1>6, <2>1, <2>3, <2>4, <2>5 DEF CancelAbort
<1>7. CASE Put(r)
  BY <1>7 DEF Put
<1>8. CASE StopState(r)
  BY <1>8 DEF StopState, SetState
<1>9. CASE Current(r)
  BY <1>9 DEF Current
<1>10. CASE PauseFlag(r)
  BY <1>10 DEF PauseFlag
<1>11. CASE ResumeFlag(r)
  BY <1>11 DEF ResumeFlag
<1>12. CASE PauseState(r)
  BY <1>12 DEF PauseState, SetState
<1> QED
  BY <1>1, <1>2, <1>3, <1>4, <1>5, <1>6, <1>7, <1>8, <1>9, <1>10, <1>11, <1>12 DEF Handler

\* cancel ends with the abort.
LEMMA AbortsHandler ==
  ASSUME TypeOK, LockInv, OwnInv, HandleInv, CancelAborts, NEW r \in Rpcs, Handler(r)
  PROVE  CancelAborts'
<1> USE PlayerAssumption DEF TypeOK, AtRpc, GoRpc, RpcPoints, Holding, Cancelling, slotVars,
        fieldVars, handleVars, rpcVars, history, LockInv, OwnInv, Owned,
        HandleInv, CancelAborts
<1>1. CASE Play(r)
  BY <1>1 DEF Play
<1>2. CASE Attach(r)
  BY <1>2 DEF Attach
<1>3. CASE Take(r)
  BY <1>3 DEF Take, LockPlayer, CancelOld
<1>4. CASE CancelFlag(r)
  BY <1>4 DEF CancelFlag
<1>5. CASE CancelClose(r)
  BY <1>5 DEF CancelClose
<1>6. CASE CancelAbort(r)
  BY <1>6 DEF CancelAbort
<1>7. CASE Put(r)
  BY <1>7 DEF Put
<1>8. CASE StopState(r)
  BY <1>8 DEF StopState, SetState
<1>9. CASE Current(r)
  BY <1>9 DEF Current
<1>10. CASE PauseFlag(r)
  BY <1>10 DEF PauseFlag
<1>11. CASE ResumeFlag(r)
  BY <1>11 DEF ResumeFlag
<1>12. CASE PauseState(r)
  BY <1>12 DEF PauseState, SetState
<1> QED
  BY <1>1, <1>2, <1>3, <1>4, <1>5, <1>6, <1>7, <1>8, <1>9, <1>10, <1>11, <1>12 DEF Handler

\* A task keeps whatever is said of the slot, the handles and the handlers.
LEMMA SlotTask ==
  ASSUME TypeOK, LockInv, OwnInv, NoOrphan, HandleInv, CancelAborts,
         NEW p \in Players, Running(p) \/ Awaiting(p)
  PROVE  (LockInv /\ OwnInv /\ NoOrphan /\ HandleInv /\ CancelAborts)'
<1>1. /\ slot' = slot /\ lock' = lock /\ attached' = attached /\ aborted' = aborted
      /\ rpc' = rpc /\ mine' = mine /\ target' = target /\ stopFlag' = stopFlag
  BY TaskFrame DEF slotVars, handleVars, rpcVars
<1>2. \A q \in Players : /\ pc[q] # "unborn" => pc'[q] # "unborn"
                         /\ pc'[q] \notin {"unborn", "done"} => pc[q] \notin {"unborn", "done"}
  BY TaskFrame DEF TypeOK
<1>3. LockInv'
  BY <1>1 DEF LockInv
<1>4. OwnInv'
  <2>1. \A r \in Rpcs : rpc[r] = "flag" => target[r] # NoPlayer
    BY DEF OwnInv, Cancelling
  <2> QED
    BY <1>1, <1>2, <2>1 DEF OwnInv, Owned, TypeOK
<1>5. NoOrphan'
  BY <1>1, <1>2 DEF NoOrphan, Live
<1>6. HandleInv' /\ CancelAborts'
  BY <1>1 DEF HandleInv, CancelAborts
<1> QED
  BY <1>3, <1>4, <1>5, <1>6

-----------------------------------------------------------------------------
(* What a task can still do. *)

\* Handlers only close sinks, and cancel does before it aborts.
LEMMA SinkHandler ==
  ASSUME TypeOK, LockInv, OwnInv, HandleInv, SinkInv, NEW r \in Rpcs, Handler(r)
  PROVE  SinkInv'
<1> USE PlayerAssumption DEF TypeOK, AtRpc, GoRpc, RpcPoints, Holding, Cancelling, slotVars,
        fieldVars, handleVars, rpcVars, history, LockInv, OwnInv, Owned,
        HandleInv, SinkInv, TaskPoints, Awaits
<1>1. CASE Play(r)
  BY <1>1 DEF Play
<1>2. CASE Attach(r)
  BY <1>2 DEF Attach
<1>3. CASE Take(r)
  BY <1>3 DEF Take, LockPlayer, CancelOld
<1>4. CASE CancelFlag(r)
  BY <1>4 DEF CancelFlag
<1>5. CASE CancelClose(r)
  BY <1>5 DEF CancelClose
<1>6. CASE CancelAbort(r)
  BY <1>6 DEF CancelAbort
<1>7. CASE Put(r)
  BY <1>7 DEF Put
<1>8. CASE StopState(r)
  BY <1>8 DEF StopState, SetState
<1>9. CASE Current(r)
  BY <1>9 DEF Current
<1>10. CASE PauseFlag(r)
  BY <1>10 DEF PauseFlag
<1>11. CASE ResumeFlag(r)
  BY <1>11 DEF ResumeFlag
<1>12. CASE PauseState(r)
  BY <1>12 DEF PauseState, SetState
<1> QED
  BY <1>1, <1>2, <1>3, <1>4, <1>5, <1>6, <1>7, <1>8, <1>9, <1>10, <1>11, <1>12 DEF Handler

\* A task that opens its sink again closes it before its next await.
LEMMA SinkTask ==
  ASSUME TypeOK, OwnInv, HandleInv, SinkInv, NEW p \in Players, Running(p) \/ Awaiting(p)
  PROVE  SinkInv'
<1> USE PlayerAssumption DEF TypeOK, At, Go, Elsewhere, Silent, Awaits, TaskPoints, slotVars,
        fieldVars, handleVars, rpcVars, history, OwnInv, HandleInv, Cancelling, SinkInv
<1>1. CASE NoClient(p)
  BY <1>1 DEF NoClient
<1>2. CASE Buffering(p)
  BY <1>2 DEF Buffering, TaskState, SetState
<1>3. CASE Child(p)
  BY <1>3 DEF Child
<1>4. CASE Ready(p)
  BY <1>4 DEF Ready, TaskState, SetState
<1>5. CASE Top(p)
  BY <1>5 DEF Top
<1>6. CASE Sleep(p)
  BY <1>6 DEF Sleep
<1>7. CASE Window(p)
  BY <1>7 DEF Window
<1>8. CASE Gate(p)
  BY <1>8 DEF Gate
<1>9. CASE Write(p)
  BY <1>9 DEF Write, UpTo2
<1>10. CASE RecordError(p)
  BY <1>10 DEF RecordError
<1>11. CASE Errored(p)
  BY <1>11 DEF Errored, TaskState, SetState
<1>12. CASE Ended(p)
  BY <1>12 DEF Ended, TaskState, SetState
<1>13. CASE Close(p)
  BY <1>13 DEF Close
<1>14. CASE Aborted(p)
  BY <1>14 DEF Aborted
<1>15. CASE Manifest(p)
  BY <1>15 DEF Manifest
<1>16. CASE Fetch(p)
  BY <1>16 DEF Fetch
<1>17. CASE Read(p)
  BY <1>17 DEF Read
<1>18. CASE Kill(p)
  BY <1>18 DEF Kill
<1> QED
  BY <1>1, <1>2, <1>3, <1>4, <1>5, <1>6, <1>7, <1>8, <1>9,
     <1>10, <1>11, <1>12, <1>13, <1>14, <1>15, <1>16, <1>17, <1>18 DEF Running, Awaiting

\* No step of a handler is a write.
LEMMA LateHandler ==
  ASSUME TypeOK, LockInv, OwnInv, LateInv, NEW r \in Rpcs, Handler(r)
  PROVE  LateInv'
<1> USE PlayerAssumption DEF TypeOK, AtRpc, GoRpc, RpcPoints, Holding, Cancelling, slotVars,
        fieldVars, handleVars, rpcVars, history, LockInv, OwnInv, Owned,
        LateInv, TaskPoints, Awaits
<1>1. CASE Play(r)
  BY <1>1 DEF Play
<1>2. CASE Attach(r)
  BY <1>2 DEF Attach
<1>3. CASE Take(r)
  BY <1>3 DEF Take, LockPlayer, CancelOld
<1>4. CASE CancelFlag(r)
  BY <1>4 DEF CancelFlag
<1>5. CASE CancelClose(r)
  BY <1>5 DEF CancelClose
<1>6. CASE CancelAbort(r)
  BY <1>6 DEF CancelAbort
<1>7. CASE Put(r)
  BY <1>7 DEF Put
<1>8. CASE StopState(r)
  BY <1>8 DEF StopState, SetState
<1>9. CASE Current(r)
  BY <1>9 DEF Current
<1>10. CASE PauseFlag(r)
  BY <1>10 DEF PauseFlag
<1>11. CASE ResumeFlag(r)
  BY <1>11 DEF ResumeFlag
<1>12. CASE PauseState(r)
  BY <1>12 DEF PauseState, SetState
<1> QED
  BY <1>1, <1>2, <1>3, <1>4, <1>5, <1>6, <1>7, <1>8, <1>9, <1>10, <1>11, <1>12 DEF Handler

\* After a late write a task finds stop_flag at its next turn.
LEMMA LateTask ==
  ASSUME TypeOK, LateInv, NEW p \in Players, Running(p) \/ Awaiting(p)
  PROVE  LateInv'
<1> USE PlayerAssumption DEF TypeOK, At, Go, Elsewhere, Silent, Awaits, TaskPoints, slotVars,
        fieldVars, handleVars, rpcVars, history, LateInv
<1>1. CASE NoClient(p)
  BY <1>1 DEF NoClient
<1>2. CASE Buffering(p)
  BY <1>2 DEF Buffering, TaskState, SetState
<1>3. CASE Child(p)
  BY <1>3 DEF Child
<1>4. CASE Ready(p)
  BY <1>4 DEF Ready, TaskState, SetState
<1>5. CASE Top(p)
  BY <1>5 DEF Top
<1>6. CASE Sleep(p)
  BY <1>6 DEF Sleep
<1>7. CASE Window(p)
  BY <1>7 DEF Window
<1>8. CASE Gate(p)
  BY <1>8 DEF Gate
<1>9. CASE Write(p)
  BY <1>9 DEF Write, UpTo2
<1>10. CASE RecordError(p)
  BY <1>10 DEF RecordError
<1>11. CASE Errored(p)
  BY <1>11 DEF Errored, TaskState, SetState
<1>12. CASE Ended(p)
  BY <1>12 DEF Ended, TaskState, SetState
<1>13. CASE Close(p)
  BY <1>13 DEF Close
<1>14. CASE Aborted(p)
  BY <1>14 DEF Aborted
<1>15. CASE Manifest(p)
  BY <1>15 DEF Manifest
<1>16. CASE Fetch(p)
  BY <1>16 DEF Fetch
<1>17. CASE Read(p)
  BY <1>17 DEF Read
<1>18. CASE Kill(p)
  BY <1>18 DEF Kill
<1> QED
  BY <1>1, <1>2, <1>3, <1>4, <1>5, <1>6, <1>7, <1>8, <1>9,
     <1>10, <1>11, <1>12, <1>13, <1>14, <1>15, <1>16, <1>17, <1>18 DEF Running, Awaiting

\* pause, resume and cancel begin the count of muted writes anew.
LEMMA MutedHandler ==
  ASSUME TypeOK, LockInv, OwnInv, MutedInv, NEW r \in Rpcs, Handler(r)
  PROVE  MutedInv'
<1> USE PlayerAssumption DEF TypeOK, AtRpc, GoRpc, RpcPoints, Holding, Cancelling, slotVars,
        fieldVars, handleVars, rpcVars, history, LockInv, OwnInv, Owned,
        MutedInv, TaskPoints, Awaits
<1>1. CASE Play(r)
  BY <1>1 DEF Play
<1>2. CASE Attach(r)
  BY <1>2 DEF Attach
<1>3. CASE Take(r)
  BY <1>3 DEF Take, LockPlayer, CancelOld
<1>4. CASE CancelFlag(r)
  BY <1>4 DEF CancelFlag
<1>5. CASE CancelClose(r)
  BY <1>5 DEF CancelClose
<1>6. CASE CancelAbort(r)
  BY <1>6 DEF CancelAbort
<1>7. CASE Put(r)
  BY <1>7 DEF Put
<1>8. CASE StopState(r)
  BY <1>8 DEF StopState, SetState
<1>9. CASE Current(r)
  BY <1>9 DEF Current
<1>10. CASE PauseFlag(r)
  BY <1>10 DEF PauseFlag
<1>11. CASE ResumeFlag(r)
  BY <1>11 DEF ResumeFlag
<1>12. CASE PauseState(r)
  BY <1>12 DEF PauseState, SetState
<1> QED
  BY <1>1, <1>2, <1>3, <1>4, <1>5, <1>6, <1>7, <1>8, <1>9, <1>10, <1>11, <1>12 DEF Handler

\* After a muted write a task waits at its gate.
LEMMA MutedTask ==
  ASSUME TypeOK, MutedInv, NEW p \in Players, Running(p) \/ Awaiting(p)
  PROVE  MutedInv'
<1> USE PlayerAssumption DEF TypeOK, At, Go, Elsewhere, Silent, Awaits, TaskPoints, slotVars,
        fieldVars, handleVars, rpcVars, history, MutedInv
<1>1. CASE NoClient(p)
  BY <1>1 DEF NoClient
<1>2. CASE Buffering(p)
  BY <1>2 DEF Buffering, TaskState, SetState
<1>3. CASE Child(p)
  BY <1>3 DEF Child
<1>4. CASE Ready(p)
  BY <1>4 DEF Ready, TaskState, SetState
<1>5. CASE Top(p)
  BY <1>5 DEF Top
<1>6. CASE Sleep(p)
  BY <1>6 DEF Sleep
<1>7. CASE Window(p)
  BY <1>7 DEF Window
<1>8. CASE Gate(p)
  BY <1>8 DEF Gate
<1>9. CASE Write(p)
  BY <1>9 DEF Write, UpTo2
<1>10. CASE RecordError(p)
  BY <1>10 DEF RecordError
<1>11. CASE Errored(p)
  BY <1>11 DEF Errored, TaskState, SetState
<1>12. CASE Ended(p)
  BY <1>12 DEF Ended, TaskState, SetState
<1>13. CASE Close(p)
  BY <1>13 DEF Close
<1>14. CASE Aborted(p)
  BY <1>14 DEF Aborted
<1>15. CASE Manifest(p)
  BY <1>15 DEF Manifest
<1>16. CASE Fetch(p)
  BY <1>16 DEF Fetch
<1>17. CASE Read(p)
  BY <1>17 DEF Read
<1>18. CASE Kill(p)
  BY <1>18 DEF Kill
<1> QED
  BY <1>1, <1>2, <1>3, <1>4, <1>5, <1>6, <1>7, <1>8, <1>9,
     <1>10, <1>11, <1>12, <1>13, <1>14, <1>15, <1>16, <1>17, <1>18 DEF Running, Awaiting

\* No handler marks a player Errored.
LEMMA ErrHandler ==
  ASSUME TypeOK, LockInv, OwnInv, ErrInv, NEW r \in Rpcs, Handler(r)
  PROVE  ErrInv'
<1> USE PlayerAssumption DEF TypeOK, AtRpc, GoRpc, RpcPoints, Holding, Cancelling, slotVars,
        fieldVars, handleVars, rpcVars, history, LockInv, OwnInv, Owned,
        ErrInv, TaskPoints, Awaits
<1>1. CASE Play(r)
  BY <1>1 DEF Play
<1>2. CASE Attach(r)
  BY <1>2 DEF Attach
<1>3. CASE Take(r)
  BY <1>3 DEF Take, LockPlayer, CancelOld
<1>4. CASE CancelFlag(r)
  BY <1>4 DEF CancelFlag
<1>5. CASE CancelClose(r)
  BY <1>5 DEF CancelClose
<1>6. CASE CancelAbort(r)
  BY <1>6 DEF CancelAbort
<1>7. CASE Put(r)
  BY <1>7 DEF Put
<1>8. CASE StopState(r)
  BY <1>8 DEF StopState, SetState
<1>9. CASE Current(r)
  BY <1>9 DEF Current
<1>10. CASE PauseFlag(r)
  BY <1>10 DEF PauseFlag
<1>11. CASE ResumeFlag(r)
  BY <1>11 DEF ResumeFlag
<1>12. CASE PauseState(r)
  BY <1>12 DEF PauseState, SetState
<1> QED
  BY <1>1, <1>2, <1>3, <1>4, <1>5, <1>6, <1>7, <1>8, <1>9, <1>10, <1>11, <1>12 DEF Handler

\* A task records its error before it is marked Errored.
LEMMA ErrTask ==
  ASSUME TypeOK, ErrInv, NEW p \in Players, Running(p) \/ Awaiting(p)
  PROVE  ErrInv'
<1> USE PlayerAssumption DEF TypeOK, At, Go, Elsewhere, Silent, Awaits, TaskPoints, slotVars,
        fieldVars, handleVars, rpcVars, history, ErrInv
<1>1. CASE NoClient(p)
  BY <1>1 DEF NoClient
<1>2. CASE Buffering(p)
  BY <1>2 DEF Buffering, TaskState, SetState
<1>3. CASE Child(p)
  BY <1>3 DEF Child
<1>4. CASE Ready(p)
  BY <1>4 DEF Ready, TaskState, SetState
<1>5. CASE Top(p)
  BY <1>5 DEF Top
<1>6. CASE Sleep(p)
  BY <1>6 DEF Sleep
<1>7. CASE Window(p)
  BY <1>7 DEF Window
<1>8. CASE Gate(p)
  BY <1>8 DEF Gate
<1>9. CASE Write(p)
  BY <1>9 DEF Write, UpTo2
<1>10. CASE RecordError(p)
  BY <1>10 DEF RecordError
<1>11. CASE Errored(p)
  BY <1>11 DEF Errored, TaskState, SetState
<1>12. CASE Ended(p)
  BY <1>12 DEF Ended, TaskState, SetState
<1>13. CASE Close(p)
  BY <1>13 DEF Close
<1>14. CASE Aborted(p)
  BY <1>14 DEF Aborted
<1>15. CASE Manifest(p)
  BY <1>15 DEF Manifest
<1>16. CASE Fetch(p)
  BY <1>16 DEF Fetch
<1>17. CASE Read(p)
  BY <1>17 DEF Read
<1>18. CASE Kill(p)
  BY <1>18 DEF Kill
<1> QED
  BY <1>1, <1>2, <1>3, <1>4, <1>5, <1>6, <1>7, <1>8, <1>9,
     <1>10, <1>11, <1>12, <1>13, <1>14, <1>15, <1>16, <1>17, <1>18 DEF Running, Awaiting

-----------------------------------------------------------------------------
(* The invariant, and what follows from it. *)

\* Each step keeps the inductive invariant.
LEMMA InvNext == TypeOK /\ IInv /\ [Next]_vars => IInv'
<1> SUFFICES ASSUME TypeOK, IInv, [Next]_vars PROVE IInv'
  OBVIOUS
<1> USE DEF IInv
<1>1. ASSUME NEW r \in Rpcs, Handler(r) PROVE IInv'
  BY <1>1, LockHandler, OwnHandler, NoOrphanHandler, HandleHandler, AbortsHandler,
     SinkHandler, LateHandler, MutedHandler, ErrHandler
<1>2. ASSUME NEW p \in Players, Running(p) \/ Awaiting(p) PROVE IInv'
  BY <1>2, SlotTask, SinkTask, LateTask, MutedTask, ErrTask
<1>3. CASE UNCHANGED vars
  BY <1>3 DEF vars, slotVars, fieldVars, handleVars, rpcVars, history, LockInv, OwnInv, Owned,
     NoOrphan, Live, HandleInv, CancelAborts, SinkInv, LateInv, MutedInv, ErrInv
<1> QED
  BY <1>1, <1>2, <1>3 DEF Next

\* The types and the inductive invariant hold always.
THEOREM Invariant == Spec => [](TypeOK /\ IInv)
<1>1. Init => TypeOK /\ IInv
  BY TypeInit, InvInit
<1>2. (TypeOK /\ IInv) /\ [Next]_vars => (TypeOK /\ IInv)'
  BY TypeNext, InvNext
<1> QED
  BY <1>1, <1>2, PTL DEF Spec

\* No stream escapes the slot: every task that plays and has not been told to
\* stop is installed, being installed, or about to be cancelled (install and
\* stop, player.rs:197-204 and 524-533).
THEOREM NoStreamOrphaned == Spec => []NoOrphan
<1>1. IInv => NoOrphan
  BY DEF IInv
<1> QED
  BY <1>1, Invariant, PTL

\* A cancel that is over has aborted its task (player.rs:185-192, 198).
THEOREM CancelledIsAborted == Spec => []CancelAborts
<1>1. IInv => CancelAborts
  BY DEF IInv
<1> QED
  BY <1>1, Invariant, PTL

\* The sink of an HLS or DASH task that has ended is closed, by cancel or by
\* run_player (player.rs:187, 237).
THEOREM EndedIsClosed == Spec => []EndedSinkClosed
<1>1. IInv => EndedSinkClosed
  BY DEF IInv, SinkInv, EndedSinkClosed
<1> QED
  BY <1>1, Invariant, PTL

\* At most one write after stop_flag, at most one after paused (player.rs:458-472).
THEOREM StopAndPauseSilence == Spec => []Silenced
<1>1. IInv => Silenced
  BY DEF IInv, LateInv, MutedInv, Silenced, StopSilences, PauseSilences
<1> QED
  BY <1>1, Invariant, PTL

\* A player is Errored only with its error recorded (player.rs:179-183).
THEOREM ErrorIsCarried == Spec => []ErrorCarried
<1>1. IInv => ErrorCarried
  BY DEF IInv, ErrInv, ErrorCarried
<1> QED
  BY <1>1, Invariant, PTL

-----------------------------------------------------------------------------
(* What one client is shown. *)

\* The points of a task from Ready on to the end of its loops.
Loops == {"top", "topsleep", "fetch", "window", "gate", "winsleep", "write", "read"}

\* A player that stop is about to mark as Stopped has been told to stop; one that
\* pause is about to mark as Paused is paused, since no other handler resumes it.
MarkInv == \A r \in Rpcs : target[r] # NoPlayer =>
  /\ rpc[r] = "stopped" => stopFlag[target[r]]
  /\ rpc[r] = "pauseState" => paused[target[r]]

\* A task in its loops is shown as Playing, but while it is paused or about to be
\* marked by resume.
ShowInv == \A p \in Players : ~stopFlag[p] /\ pc[p] \in Loops =>
  state[p] = "Playing" \/ paused[p] \/ \E r \in Rpcs : rpc[r] = "resumeState" /\ target[r] = p

OneClient == \A r, s \in Rpcs : r = s

\* A step of a handler keeps what it is about to mark.
LEMMA MarkHandler ==
  ASSUME OneClient, TypeOK, OwnInv, MarkInv, NEW r \in Rpcs, Handler(r)
  PROVE  MarkInv'
<1> USE PlayerAssumption DEF TypeOK, AtRpc, GoRpc, RpcPoints, Holding, Cancelling, slotVars,
        fieldVars, handleVars, rpcVars, history, OwnInv, OneClient, MarkInv
<1>1. CASE Play(r)
  BY <1>1 DEF Play
<1>2. CASE Attach(r)
  BY <1>2 DEF Attach
<1>3. CASE Take(r)
  BY <1>3 DEF Take, LockPlayer, CancelOld
<1>4. CASE CancelFlag(r)
  BY <1>4 DEF CancelFlag
<1>5. CASE CancelClose(r)
  BY <1>5 DEF CancelClose
<1>6. CASE CancelAbort(r)
  BY <1>6 DEF CancelAbort
<1>7. CASE Put(r)
  BY <1>7 DEF Put
<1>8. CASE StopState(r)
  BY <1>8 DEF StopState, SetState
<1>9. CASE Current(r)
  BY <1>9 DEF Current
<1>10. CASE PauseFlag(r)
  BY <1>10 DEF PauseFlag
<1>11. CASE ResumeFlag(r)
  BY <1>11 DEF ResumeFlag
<1>12. CASE PauseState(r)
  BY <1>12 DEF PauseState, SetState
<1> QED
  BY <1>1, <1>2, <1>3, <1>4, <1>5, <1>6, <1>7, <1>8, <1>9, <1>10, <1>11, <1>12 DEF Handler

\* A step of a handler keeps what the players show.
LEMMA ShowHandler ==
  ASSUME TypeOK, OwnInv, MarkInv, ShowInv, NEW r \in Rpcs, Handler(r)
  PROVE  ShowInv'
<1> USE PlayerAssumption DEF TypeOK, AtRpc, GoRpc, RpcPoints, Holding, Cancelling, slotVars,
        fieldVars, handleVars, rpcVars, history, OwnInv, MarkInv, ShowInv, Loops
<1>1. CASE Play(r)
  BY <1>1 DEF Play
<1>2. CASE Attach(r)
  BY <1>2 DEF Attach
<1>3. CASE Take(r)
  BY <1>3 DEF Take, LockPlayer, CancelOld
<1>4. CASE CancelFlag(r)
  BY <1>4 DEF CancelFlag
<1>5. CASE CancelClose(r)
  BY <1>5 DEF CancelClose
<1>6. CASE CancelAbort(r)
  BY <1>6 DEF CancelAbort
<1>7. CASE Put(r)
  BY <1>7 DEF Put
<1>8. CASE StopState(r)
  BY <1>8 DEF StopState, SetState
<1>9. CASE Current(r)
  BY <1>9 DEF Current
<1>10. CASE PauseFlag(r)
  BY <1>10 DEF PauseFlag
<1>11. CASE ResumeFlag(r)
  BY <1>11 DEF ResumeFlag
<1>12. CASE PauseState(r)
  BY <1>12 DEF PauseState, SetState
<1> QED
  BY <1>1, <1>2, <1>3, <1>4, <1>5, <1>6, <1>7, <1>8, <1>9, <1>10, <1>11, <1>12 DEF Handler

\* So does a step of a task, and leaves the handlers alone.
LEMMA ShowTask ==
  ASSUME TypeOK, MarkInv, ShowInv, NEW p \in Players, Running(p) \/ Awaiting(p)
  PROVE  MarkInv' /\ ShowInv'
<1> USE PlayerAssumption DEF TypeOK, At, Go, Elsewhere, Silent, Awaits, TaskPoints, slotVars,
        fieldVars, handleVars, rpcVars, history, MarkInv, ShowInv, Loops
<1>1. CASE NoClient(p)
  BY <1>1 DEF NoClient
<1>2. CASE Buffering(p)
  BY <1>2 DEF Buffering, TaskState, SetState
<1>3. CASE Child(p)
  BY <1>3 DEF Child
<1>4. CASE Ready(p)
  BY <1>4 DEF Ready, TaskState, SetState
<1>5. CASE Top(p)
  BY <1>5 DEF Top
<1>6. CASE Sleep(p)
  BY <1>6 DEF Sleep
<1>7. CASE Window(p)
  BY <1>7 DEF Window
<1>8. CASE Gate(p)
  BY <1>8 DEF Gate
<1>9. CASE Write(p)
  BY <1>9 DEF Write
<1>10. CASE RecordError(p)
  BY <1>10 DEF RecordError
<1>11. CASE Errored(p)
  BY <1>11 DEF Errored, TaskState, SetState
<1>12. CASE Ended(p)
  BY <1>12 DEF Ended, TaskState, SetState
<1>13. CASE Close(p)
  BY <1>13 DEF Close
<1>14. CASE Aborted(p)
  BY <1>14 DEF Aborted
<1>15. CASE Manifest(p)
  BY <1>15 DEF Manifest
<1>16. CASE Fetch(p)
  BY <1>16 DEF Fetch
<1>17. CASE Read(p)
  BY <1>17 DEF Read
<1>18. CASE Kill(p)
  BY <1>18 DEF Kill
<1> QED
  BY <1>1, <1>2, <1>3, <1>4, <1>5, <1>6, <1>7, <1>8, <1>9,
     <1>10, <1>11, <1>12, <1>13, <1>14, <1>15, <1>16, <1>17, <1>18 DEF Running, Awaiting

\* For one client, what is shown and marked agrees with the flags.
THEOREM ShownAlways == ASSUME OneClient PROVE Spec => [](MarkInv /\ ShowInv)
<1>1. Init => MarkInv /\ ShowInv
  BY DEF Init, MarkInv, ShowInv, Loops
<1>2. TypeOK /\ IInv /\ MarkInv /\ ShowInv /\ [Next]_vars => (MarkInv /\ ShowInv)'
  <2> SUFFICES ASSUME TypeOK, IInv, MarkInv, ShowInv, [Next]_vars PROVE MarkInv' /\ ShowInv'
    OBVIOUS
  <2>1. OwnInv
    BY DEF IInv
  <2>2. CASE UNCHANGED vars
    BY <2>2 DEF vars, slotVars, fieldVars, handleVars, rpcVars, history, MarkInv, ShowInv
  <2> QED
    BY <2>1, <2>2, MarkHandler, ShowHandler, ShowTask DEF Next
<1> QED
  BY <1>1, <1>2, Invariant, PTL DEF Spec

\* For one client, that makes one call at a time: when none is under way, a stream
\* that plays and is not paused is shown as Playing (player.rs:504-522).
THEOREM OneClientSeesPlaying == ASSUME OneClient PROVE Spec => []UnpausedIsPlaying
<1>1. ShowInv => UnpausedIsPlaying
  BY DEF ShowInv, UnpausedIsPlaying, Loops
<1> QED
  BY <1>1, ShownAlways, PTL

-----------------------------------------------------------------------------
(* Refinement of module Singleton. *)

\* The handler between take and cancel is the one that holds the mutex.
LEMMA OneTaken ==
  ASSUME LockInv, NEW r \in Rpcs, rpc[r] = "flag"
  PROVE  Taken = {r} /\ Shown = target[r]
<1>1. lock = r /\ \A q \in Rpcs : rpc[q] = "flag" => lock = q
  BY DEF LockInv, Holding, Cancelling
<1>2. Taken = {r}
  BY <1>1 DEF Taken
<1>3. (CHOOSE q \in Rpcs : q \in Taken) = r
  BY <1>2
<1> QED
  BY <1>2, <1>3 DEF Shown

\* What clients see stays the same when nobody's flag, target of a flag, slot
\* or stop_flag moves.
LEMMA ShownFrame ==
  ASSUME slot' = slot, stopFlag' = stopFlag, Taken' = Taken,
         \A r \in Taken : target'[r] = target[r]
  PROVE  UNCHANGED <<Shown, Told>>
<1>1. CASE Taken = {}
  BY <1>1 DEF Shown, Told
<1>2. CASE Taken # {}
  <2>1. (CHOOSE r \in Rpcs : r \in Taken) \in Taken
    BY <1>2 DEF Taken
  <2>2. (CHOOSE r \in Rpcs : r \in Taken)' = (CHOOSE r \in Rpcs : r \in Taken)
    OBVIOUS
  <2> QED
    BY <1>2, <2>1, <2>2 DEF Shown, Told
<1> QED
  BY <1>1, <1>2

\* A step of a handler is one of the abstract slot, or none.
LEMMA PromiseHandler ==
  ASSUME TypeOK, LockInv, OwnInv, NEW r \in Rpcs, Handler(r)
  PROVE  [Promise!Next]_<<Shown, Told>>
<1> USE PlayerAssumption DEF TypeOK, AtRpc, GoRpc, slotVars, fieldVars, handleVars, rpcVars
<1>1. CASE Take(r)
  <2>1. Taken = {} /\ Shown = slot
    BY <1>1 DEF Take, LockPlayer, LockInv, Holding, Cancelling, Taken, Shown
  <2>2. CASE slot = NoPlayer
    BY <1>1, <2>1, <2>2 DEF Take, CancelOld, Taken, Shown, Told
  <2>3. CASE slot # NoPlayer
    <3>1. Taken' = {r} /\ target'[r] = slot
      BY <1>1, <2>1, <2>3 DEF Take, CancelOld, Taken
    <3>2. (CHOOSE q \in Rpcs : q \in Taken)' = r
      BY <3>1
    <3> QED
      BY <1>1, <2>1, <3>1, <3>2 DEF Take, Told, Shown
  <2> QED
    BY <2>2, <2>3
<1>2. CASE CancelFlag(r)
  <2>1. Shown = target[r] /\ target[r] \in Players /\ Taken = {r}
    BY <1>2, OneTaken DEF CancelFlag, OwnInv, Cancelling
  <2>2. Taken' = {} /\ slot' = NoPlayer
    BY <1>2, <2>1 DEF CancelFlag, LockInv, Holding, Cancelling, Taken
  <2>3. Told' = Told \cup {target[r]}
    BY <1>2, <2>1 DEF CancelFlag, Told
  <2> QED
    BY <2>1, <2>2, <2>3 DEF Shown, Promise!Next, Promise!Retire
<1>3. CASE Put(r)
  <2>1. mine[r] \in Players /\ ~stopFlag[mine[r]] /\ slot = NoPlayer
    BY <1>3 DEF Put, OwnInv, Owned, LockInv, Holding
  <2>2. Taken = {} /\ Taken' = {}
    BY <1>3 DEF Put, LockInv, Holding, Cancelling, Taken
  <2>3. Shown = NoPlayer /\ Shown' = mine[r] /\ Told' = Told
    BY <1>3, <2>1, <2>2 DEF Put, Shown, Told
  <2> QED
    BY <2>1, <2>3 DEF Promise!Next, Promise!Install, Told
<1>4. CASE Play(r) \/ Attach(r) \/ CancelClose(r) \/ CancelAbort(r) \/ StopState(r)
           \/ Current(r) \/ PauseFlag(r) \/ ResumeFlag(r) \/ PauseState(r)
  <2>1. /\ slot' = slot /\ stopFlag' = stopFlag
        /\ rpc[r] # "flag" /\ rpc'[r] # "flag"
        /\ \A q \in Rpcs : q # r => rpc'[q] = rpc[q] /\ target'[q] = target[q]
    BY <1>4 DEF Play, Attach, CancelClose, CancelAbort, StopState, Current, PauseFlag,
       ResumeFlag, PauseState
  <2>2. Taken' = Taken /\ \A q \in Taken : target'[q] = target[q]
    BY <2>1 DEF Taken
  <2> QED
    BY <2>1, <2>2, ShownFrame
<1> QED
  BY <1>1, <1>2, <1>3, <1>4 DEF Handler

\* The slot keeps the promise of module Singleton: at most one current player,
\* installed once, gone only by being cancelled.
THEOREM Refinement == Spec => KeepsPromise
<1>1. Init => Promise!Init
  BY DEF Init, Promise!Init, Shown, Told, Taken
<1>2. TypeOK /\ IInv /\ [Next]_vars => [Promise!Next]_<<Shown, Told>>
  <2> SUFFICES ASSUME TypeOK, IInv, [Next]_vars PROVE [Promise!Next]_<<Shown, Told>>
    OBVIOUS
  <2>1. ASSUME NEW r \in Rpcs, Handler(r) PROVE [Promise!Next]_<<Shown, Told>>
    BY <2>1, PromiseHandler DEF IInv
  <2>2. ASSUME NEW p \in Players, Running(p) \/ Awaiting(p) PROVE UNCHANGED <<Shown, Told>>
    BY <2>2, TaskFrame, ShownFrame DEF slotVars, rpcVars, Taken
  <2>3. CASE UNCHANGED vars
    BY <2>3, ShownFrame DEF vars, slotVars, fieldVars, rpcVars, Taken
  <2> QED
    BY <2>1, <2>2, <2>3 DEF Next
<1> QED
  BY <1>1, <1>2, Invariant, PTL DEF Spec, KeepsPromise, Promise!Spec
=============================================================================
