-------------------------- MODULE AppServerProofs --------------------------
(***************************************************************************)
(* Theorems about AppServer for any number of callers, subscribers and     *)
(* inbound requests, any pipe capacity and any bounds.                     *)
(*                                                                         *)
(* Part 1 is type correctness; part 2 shows that SessionInv is inductive   *)
(* and draws the channel's safety properties from it; part 3 is the side   *)
(* of the channel that the child drives: its requests are answered at most *)
(* once, whichever way a reply fails, and nothing happens on its behalf    *)
(* once close() has failed what is pending.                                *)
(***************************************************************************)
EXTENDS AppServer, FiniteSetTheorems, TLAPS

-----------------------------------------------------------------------------
(* Part 1: types.  The two Boolean variables have a lemma of their own.    *)

LEMMA InitType == Init => TypeOK
<1> SUFFICES ASSUME Init PROVE TypeOK
  OBVIOUS
<1> USE DEF Init
<1>0. FlagType
  BY Zenon DEF FlagType
<1>1. SessionType
  BY AppServerAssumption DEF SessionType, Ids, FutStates, FirstId
<1>2. RegistryType
  BY DEF RegistryType
<1>3. CoroutineType
  BY AppServerAssumption DEF CoroutineType, PcStates, Bodies, OwnBodies
<1>4. PipeType
  BY DEF PipeType
<1>5. PeerType
  BY DEF PeerType
<1>6. HistoryType
  BY DEF HistoryType
<1> QED BY <1>0, <1>1, <1>2, <1>3, <1>4, <1>5, <1>6 DEF TypeOK, DataType

LEMMA FlagStep ==
  ASSUME FlagType, [Next]_vars
  PROVE  FlagType'
<1> USE DEF FlagType, session, pipes
<1>1. CASE \E c \in Callers : CallerStep(c)
  BY <1>1, Zenon DEF CallerStep, Request, Notify, Timeout, Resume, CallerCancelled
<1>2. CASE \E w \in Writers : WriterStep(w)
  BY <1>2, Zenon DEF WriterStep, LockGranted, DrainReturns, DrainRaises
<1>3. CASE \E i \in Inbounds : InboundStep(i)
  BY <1>3, Zenon DEF InboundStep, Reply, HandlerEnds
<1>4. CASE RegistryStep
  BY <1>4, Zenon DEF RegistryStep, Subscribe, Unsubscribe, SetInboundRequestHandler
<1>5. CASE ReaderStep
  BY <1>5, Zenon DEF ReaderStep, DispatchResponse, DispatchNotification,
     DispatchInbound, SkipLine, ReaderRaises, ReaderEOF, NextLine, MarkDead
<1>6. CASE WatcherReaps
  BY <1>6, Zenon DEF WatcherReaps, MarkDead
<1>7. CASE CloseStep
  BY <1>7, Zenon DEF CloseStep, Close, CloseFlushed, CloseKills, CloseReturns
<1>8. CASE StdinLost
  BY <1>8, Zenon DEF StdinLost
<1>9. CASE ChildStep
  BY <1>9, Zenon DEF ChildStep, ChildReads, ChildAnswers, ChildNotifies, ChildAsks,
     ChildWritesOther, Emit, ChildClosesStdout, ChildExits, ChildHangs
<1>10. CASE UNCHANGED vars
  BY <1>10, Zenon DEF vars
<1> QED BY <1>1, <1>2, <1>3, <1>4, <1>5, <1>6, <1>7, <1>8, <1>9, <1>10, Zenon DEF Next

\* Appending a well-typed line to stdin, queueing for the lock, or taking it.
LEMMA SendType ==
  ASSUME CoroutineType, PipeType, NEW w \in Writers, NEW m \in StdinMsgs, Send(w, m)
  PROVE  /\ stdinQ' \in Seq(StdinMsgs)
         /\ holder' \in SUBSET Writers
         /\ lockQ' \in Seq(Writers)
  BY DEF CoroutineType, PipeType, Send

\* A coroutine goes on at a known place.
LEMMA StageType ==
  ASSUME NEW b \in Bodies
  PROVE  AfterStage(b, WriteStage) \in PcStates /\ AfterWrite(b) \in PcStates
  BY DEF AfterStage, WriteStage, AfterWrite, AfterRaise, PcStates

LEMMA MessageType ==
  ASSUME DataType, NEW w \in Writers
  PROVE  MessageOf(w) \in StdinMsgs
  BY AppServerAssumption
  DEF DataType, CoroutineType, MessageOf, StdinMsgs, MsgIds, Writers

LEMMA SpawnType ==
  ASSUME DataType, DispatchInbound
  PROVE  /\ pc' \in [Writers -> PcStates]
         /\ body' \in [Writers -> Bodies]
  BY DEF DataType, CoroutineType, DispatchInbound, PcStates, Bodies, ReplyBodies

LEMMA EmitType ==
  ASSUME DataType, NEW kind \in Lines, NEW id \in MsgIds,
         [kind |-> kind, id |-> id] \in StdoutMsgs, Emit(kind, id)
  PROVE  stdoutQ' \in Seq(StdoutMsgs) /\ sent' \in Nat
  BY DEF DataType, PipeType, PeerType, Emit

LEMMA CallerType ==
  ASSUME DataType, NEW c \in Callers, CallerStep(c)
  PROVE  DataType'
<1> USE DEF DataType
<1>0. c \in Writers
  BY DEF Writers
<1>1. CASE Request(c)
  <2> USE <1>1 DEF Request
  <2>0. nextId \in 1 .. MaxRequests /\ MaxRequests \in Nat
    BY AppServerAssumption DEF Ids
  <2> DEFINE m == [body |-> "request", id |-> nextId]
  <2>1. m \in StdinMsgs
    BY <2>0 DEF StdinMsgs, MsgIds, Bodies, OwnBodies
  <2>2. /\ stdinQ' \in Seq(StdinMsgs) /\ holder' \in SUBSET Writers
        /\ lockQ' \in Seq(Writers)
    BY <1>0, <2>1, SendType
  <2>3. AfterStage("request", WriteStage) \in PcStates
    BY StageType DEF Bodies, OwnBodies
  <2>4. SessionType'
    BY <2>0 DEF SessionType, FutStates, Ids
  <2>5. RegistryType'
    BY DEF RegistryType, registry
  <2>6. CoroutineType'
    <3>1. pc' \in [Writers -> PcStates]
      BY <2>3 DEF CoroutineType
    <3>2. body' \in [Writers -> Bodies]
      BY DEF CoroutineType, Bodies, OwnBodies
    <3>3. rid' \in [Callers -> 0 .. MaxRequests]
      BY <2>0 DEF CoroutineType
    <3> QED BY <2>2, <3>1, <3>2, <3>3 DEF CoroutineType, tasks
  <2>7. PipeType'
    BY <2>2 DEF PipeType
  <2>8. PeerType'
    BY DEF PeerType, peer
  <2>9. HistoryType'
    BY DEF HistoryType, Settled
  <2> QED BY <2>4, <2>5, <2>6, <2>7, <2>8, <2>9
<1>2. CASE Notify(c)
  <2> USE <1>2 DEF Notify
  <2> DEFINE m == [body |-> "notify", id |-> 0]
  <2>1. m \in StdinMsgs
    BY DEF StdinMsgs, MsgIds, Bodies, OwnBodies
  <2>2. /\ stdinQ' \in Seq(StdinMsgs) /\ holder' \in SUBSET Writers
        /\ lockQ' \in Seq(Writers)
    BY <1>0, <2>1, SendType
  <2>3. AfterStage("notify", WriteStage) \in PcStates
    BY StageType DEF Bodies, OwnBodies
  <2>4. CoroutineType'
    <3>1. pc' \in [Writers -> PcStates]
      BY <2>3 DEF CoroutineType
    <3>2. body' \in [Writers -> Bodies]
      BY DEF CoroutineType, Bodies, OwnBodies
    <3>3. rid' \in [Callers -> 0 .. MaxRequests]
      BY AppServerAssumption DEF CoroutineType
    <3> QED BY <2>2, <3>1, <3>2, <3>3 DEF CoroutineType, tasks
  <2>5. PipeType'
    BY <2>2 DEF PipeType
  <2> QED BY <2>4, <2>5 DEF SessionType, RegistryType, PeerType, HistoryType,
                            session, registry, peer, history
<1>3. CASE Timeout(c)
  <2> USE <1>3 DEF Timeout
  <2>1. SessionType'
    BY DEF SessionType, FutStates, Settled
  <2>2. CoroutineType' /\ RegistryType'
    BY DEF CoroutineType, RegistryType, registry, lock, coros, tasks
  <2>3. PipeType' /\ PeerType' /\ HistoryType'
    BY DEF PipeType, PeerType, HistoryType, pipes, peer, history
  <2> QED BY <2>1, <2>2, <2>3
<1>4. CASE Resume(c)
  <2> USE <1>4 DEF Resume
  <2>1. SessionType'
    BY DEF SessionType, Popped
  <2>2. CoroutineType'
    BY DEF CoroutineType, PcStates, lock, tasks
  <2>3. HistoryType'
    BY DEF HistoryType, Settled
  <2> QED BY <2>1, <2>2, <2>3 DEF RegistryType, PipeType, PeerType,
                                  registry, pipes, peer
<1>5. CASE CallerCancelled(c)
  <2> USE <1>5 DEF CallerCancelled
  <2>1. lockQ' \in Seq(Writers) /\ holder' \in SUBSET Writers
    <3> lockQ \in Seq(Writers) /\ holder \in SUBSET Writers
      BY DEF CoroutineType
    <3>1. CASE pc[c] = "lock"
      <4>1. PICK k \in DOMAIN lockQ :
               lockQ' = SubSeq(lockQ, 1, k - 1) \o SubSeq(lockQ, k + 1, Len(lockQ))
        BY <3>1
      <4>2. SubSeq(lockQ, 1, k - 1) \in Seq(Writers)
        OBVIOUS
      <4>3. SubSeq(lockQ, k + 1, Len(lockQ)) \in Seq(Writers)
        OBVIOUS
      <4> QED BY <3>1, <4>1, <4>2, <4>3
    <3>2. CASE pc[c] # "lock"
      BY <3>2
    <3> QED BY <3>1, <3>2
  <2>2. CoroutineType'
    BY <2>1 DEF CoroutineType, PcStates, tasks
  <2>3. SessionType'
    BY DEF SessionType, FutStates, Settled, Popped
  <2>4. HistoryType'
    BY DEF HistoryType, Settled
  <2> QED BY <2>2, <2>3, <2>4 DEF RegistryType, PipeType, PeerType,
                                  registry, pipes, peer
<1> QED BY <1>1, <1>2, <1>3, <1>4, <1>5 DEF CallerStep

LEMMA WriterType ==
  ASSUME DataType, NEW w \in Writers, WriterStep(w)
  PROVE  DataType'
<1> USE DEF DataType
<1>1. CASE LockGranted(w)
  <2> USE <1>1 DEF LockGranted
  <2>1. stdinQ' \in Seq(StdinMsgs)
    BY MessageType DEF PipeType
  <2>2. PipeType'
    BY <2>1 DEF PipeType
  <2>3. lockQ' \in Seq(Writers) /\ holder' \in SUBSET Writers
    BY DEF CoroutineType
  <2>4. pc' \in [Writers -> PcStates]
    <3>1. AfterWrite(body[w]) \in PcStates
      BY StageType DEF CoroutineType
    <3> QED BY <3>1 DEF CoroutineType, PcStates
  <2>5. CoroutineType'
    BY <2>3, <2>4 DEF CoroutineType, tasks
  <2> QED BY <2>2, <2>5 DEF SessionType, RegistryType, PeerType, HistoryType,
                            session, registry, peer, history
<1>2. CASE DrainReturns(w)
  BY <1>2, StageType DEF DrainReturns, SessionType, RegistryType, CoroutineType,
     PipeType, PeerType, HistoryType, session, registry, tasks, pipes, peer, history
<1>3. CASE DrainRaises(w)
  BY <1>3 DEF DrainRaises, AfterRaise, Popped, SessionType, RegistryType,
     CoroutineType, PcStates, PipeType, PeerType, HistoryType, Settled, registry,
     tasks, pipes, peer
<1> QED BY <1>1, <1>2, <1>3 DEF WriterStep

LEMMA InboundType ==
  ASSUME DataType, NEW i \in Inbounds, InboundStep(i)
  PROVE  DataType'
<1> USE DEF DataType
<1>0. i \in Writers
  BY DEF Writers
<1>1. ASSUME NEW b \in Bodies, Send(i, [body |-> b, id |-> i]),
             pc' = [pc EXCEPT ![i] = AfterStage(b, WriteStage)],
             body' = [body EXCEPT ![i] = b],
             UNCHANGED <<session, registry, rid, tasks, stdin, stdoutQ, peer, history>>
      PROVE  DataType'
  <2> DEFINE m == [body |-> b, id |-> i]
  <2>1. m \in StdinMsgs
    BY DEF StdinMsgs, MsgIds
  <2>2. /\ stdinQ' \in Seq(StdinMsgs) /\ holder' \in SUBSET Writers
        /\ lockQ' \in Seq(Writers)
    BY <1>0, <1>1, <2>1, SendType
  <2>3. AfterStage(b, WriteStage) \in PcStates
    BY StageType
  <2>4. CoroutineType'
    BY <1>1, <2>2, <2>3 DEF CoroutineType, tasks
  <2>5. PipeType'
    BY <1>1, <2>2 DEF PipeType
  <2> QED BY <1>1, <2>4, <2>5 DEF SessionType, RegistryType, PeerType, HistoryType,
                                  session, registry, peer, history
<1>2. CASE Reply(i)
  <2>1. NextBody(i) \in Bodies
    BY DEF NextBody, Bodies, ReplyBodies, CoroutineType, Writers
  <2> QED BY <1>1, <1>2, <2>1 DEF Reply
<1>3. ASSUME NEW b \in {"result", "error"}, HandlerEnds(i, b)
      PROVE  DataType'
  <2>1. b \in Bodies
    BY DEF Bodies, ReplyBodies
  <2> QED BY <1>1, <1>3, <2>1 DEF HandlerEnds
<1> QED BY <1>2, <1>3 DEF InboundStep

LEMMA RegistryTypeStep ==
  ASSUME DataType, RegistryStep
  PROVE  DataType'
  BY DEF DataType, RegistryStep, Subscribe, Unsubscribe, SetInboundRequestHandler,
     SessionType, RegistryType, CoroutineType, PipeType, PeerType, HistoryType,
     session, lock, coros, tasks, pipes, peer, history

\* _mark_dead and close() leave futures that are still well typed.
LEMMA FailedType ==
  ASSUME SessionType
  PROVE  PendingFailed \in [Ids -> FutStates]
  BY DEF SessionType, PendingFailed, FutStates, Settled

LEMMA ReaderType ==
  ASSUME DataType, ReaderStep \/ WatcherReaps
  PROVE  DataType'
<1> USE DEF DataType
<1>1. CASE DispatchResponse
  <2> USE <1>1 DEF DispatchResponse, NextLine
  <2>1. Head(stdoutQ) \in StdoutMsgs /\ stdoutQ' \in Seq(StdoutMsgs)
    BY DEF PipeType
  <2>2. fut' \in [Ids -> FutStates]
    BY <2>1 DEF SessionType, FutStates, Settled
  <2> QED BY <2>1, <2>2 DEF SessionType, RegistryType, CoroutineType, PipeType,
             PeerType, HistoryType, registry, lock, coros, tasks, peer, history
<1>2. CASE DispatchNotification
  <2> USE <1>2 DEF DispatchNotification, NextLine
  <2>1. Head(stdoutQ) \in StdoutMsgs /\ stdoutQ' \in Seq(StdoutMsgs)
    BY DEF PipeType
  <2>2. heard' \in [Subs -> Nat]
    BY <2>1 DEF HistoryType, StdoutMsgs
  <2> QED BY <2>1, <2>2 DEF SessionType, RegistryType, CoroutineType, PipeType,
             PeerType, HistoryType, session, registry, lock, coros, tasks, peer
<1>3. CASE DispatchInbound
  <2>1. stdoutQ' \in Seq(StdoutMsgs)
    BY <1>3 DEF DispatchInbound, NextLine, PipeType
  <2>2. PipeType'
    BY <1>3, <2>1 DEF DispatchInbound, PipeType
  <2>3. CoroutineType'
    BY <1>3, SpawnType DEF DispatchInbound, CoroutineType, lock, tasks
  <2> QED BY <1>3, <2>2, <2>3 DEF DispatchInbound, SessionType, RegistryType,
             PeerType, HistoryType, session, registry, peer, history
<1>4. CASE SkipLine
  BY <1>4 DEF SkipLine, NextLine, SessionType, RegistryType, CoroutineType, PipeType,
     PeerType, HistoryType, session, registry, lock, coros, tasks, peer, history
<1>5. CASE ReaderRaises
  BY <1>5, FailedType
  DEF ReaderRaises, NextLine, MarkDead, SessionType, RegistryType, CoroutineType,
      PipeType, PeerType, HistoryType, registry, lock, coros, peer, history
<1>6. CASE ReaderEOF
  BY <1>6, FailedType
  DEF ReaderEOF, MarkDead, SessionType, RegistryType, CoroutineType, PipeType,
      PeerType, HistoryType, registry, lock, coros, pipes, peer, history
<1>7. CASE WatcherReaps
  BY <1>7, FailedType
  DEF WatcherReaps, MarkDead, SessionType, RegistryType, CoroutineType, PipeType,
      PeerType, HistoryType, session, registry, lock, coros, pipes, peer, history
<1> QED BY <1>1, <1>2, <1>3, <1>4, <1>5, <1>6, <1>7 DEF ReaderStep

LEMMA CloseType ==
  ASSUME DataType, CloseStep \/ StdinLost
  PROVE  DataType'
<1> USE DEF DataType, SessionType, RegistryType, CoroutineType, PipeType, PeerType,
            HistoryType, session, registry, lock, coros, tasks, pipes, peer, history
<1>1. CASE Close
  BY <1>1, FailedType DEF Close, CancelAndFail
<1>2. CASE CloseFlushed
  BY <1>2, FailedType DEF CloseFlushed, CancelAndFail
<1>3. CASE CloseKills
  BY <1>3 DEF CloseKills
<1>4. CASE CloseReturns
  BY <1>4 DEF CloseReturns
<1>5. CASE StdinLost
  BY <1>5 DEF StdinLost
<1> QED BY <1>1, <1>2, <1>3, <1>4, <1>5 DEF CloseStep

LEMMA ChildType ==
  ASSUME DataType, ChildStep
  PROVE  DataType'
<1> USE DEF DataType
<1>1. CASE ChildReads
  <2> USE <1>1 DEF ChildReads
  <2>1. Head(stdinQ) \in StdinMsgs /\ stdinQ' \in Seq(StdinMsgs)
    BY DEF PipeType
  <2>2. seen' \in SUBSET MsgIds
    BY <2>1 DEF PeerType, StdinMsgs
  <2>3. replies' \in [Inbounds -> Nat]
    BY DEF HistoryType
  <2> QED BY <2>1, <2>2, <2>3 DEF SessionType, RegistryType, CoroutineType, PipeType,
             PeerType, HistoryType, session, registry, lock, coros, tasks
<1>2. ASSUME NEW kind \in Lines, NEW id \in MsgIds,
             [kind |-> kind, id |-> id] \in StdoutMsgs, Emit(kind, id),
             firstOut' \in [Ids -> {"none"} \cup Answers],
             asked' \in SUBSET Inbounds
      PROVE  DataType'
  <2>1. stdoutQ' \in Seq(StdoutMsgs) /\ sent' \in Nat
    BY <1>2, EmitType
  <2> QED BY <1>2, <2>1 DEF Emit, SessionType, RegistryType, CoroutineType, PipeType,
             PeerType, HistoryType, session, registry, lock, coros, tasks
<1>3. ASSUME NEW i \in Ids, NEW kind \in Answers, ChildAnswers(i, kind)
      PROVE  DataType'
  <2>1. kind \in Lines /\ i \in MsgIds /\ [kind |-> kind, id |-> i] \in StdoutMsgs
    BY AppServerAssumption DEF Lines, Answers, Methods, MsgIds, Ids, StdoutMsgs
  <2>2. firstOut' \in [Ids -> {"none"} \cup Answers] /\ asked' \in SUBSET Inbounds
    BY <1>3 DEF ChildAnswers, HistoryType, PeerType
  <2> QED BY <1>2, <1>3, <2>1, <2>2 DEF ChildAnswers
<1>4. CASE ChildNotifies
  <2>1. sent + 1 \in Nat
    BY DEF PeerType
  <2>2. [kind |-> "note", id |-> sent + 1] \in StdoutMsgs
    BY <2>1 DEF StdoutMsgs, Lines, Answers, Methods, MsgIds
  <2>3. firstOut' \in [Ids -> {"none"} \cup Answers] /\ asked' \in SUBSET Inbounds
    BY <1>4 DEF ChildNotifies, HistoryType, PeerType
  <2> QED BY <1>2, <1>4, <2>1, <2>2, <2>3 DEF ChildNotifies, Lines, MsgIds
<1>5. ASSUME NEW i \in Inbounds, NEW m \in Methods, ChildAsks(i, m)
      PROVE  DataType'
  <2>1. m \in Lines /\ i \in MsgIds /\ [kind |-> m, id |-> i] \in StdoutMsgs
    BY DEF Lines, Answers, Methods, MsgIds, StdoutMsgs
  <2>2. firstOut' \in [Ids -> {"none"} \cup Answers] /\ asked' \in SUBSET Inbounds
    BY <1>5 DEF ChildAsks, HistoryType, PeerType
  <2> QED BY <1>2, <1>5, <2>1, <2>2 DEF ChildAsks
<1>6. ASSUME NEW kind \in {"junk", "fatal"}, ChildWritesOther(kind)
      PROVE  DataType'
  <2>1. kind \in Lines /\ 0 \in MsgIds /\ [kind |-> kind, id |-> 0] \in StdoutMsgs
    BY DEF Lines, Answers, Methods, MsgIds, StdoutMsgs
  <2>2. firstOut' \in [Ids -> {"none"} \cup Answers] /\ asked' \in SUBSET Inbounds
    BY <1>6 DEF ChildWritesOther, HistoryType, PeerType
  <2> QED BY <1>2, <1>6, <2>1, <2>2 DEF ChildWritesOther
<1>7. CASE ChildClosesStdout \/ ChildExits \/ ChildHangs
  BY <1>7 DEF ChildClosesStdout, ChildExits, ChildHangs, SessionType, RegistryType,
     CoroutineType, PipeType, PeerType, HistoryType, session, registry, lock, coros,
     tasks, pipes, peer, history
<1> QED BY <1>1, <1>3, <1>4, <1>5, <1>6, <1>7 DEF ChildStep

LEMMA TypeStep ==
  ASSUME TypeOK, [Next]_vars
  PROVE  TypeOK'
<1>1. FlagType'
  BY FlagStep DEF TypeOK
<1>2. DataType'
  <2>1. CASE UNCHANGED vars
    BY <2>1 DEF TypeOK, DataType, SessionType, RegistryType, CoroutineType, PipeType,
       PeerType, HistoryType, vars, session, registry, lock, coros, tasks, pipes,
       peer, history
  <2> QED BY <2>1, CallerType, WriterType, InboundType, RegistryTypeStep, ReaderType,
             CloseType, ChildType DEF Next, TypeOK
<1> QED BY <1>1, <1>2 DEF TypeOK

\* Every variable of the client, the pipes and the child keeps its type: ids
\* stay in range, queues hold lines, coroutines are where the code can be.
THEOREM TypeCorrect == Spec => []TypeOK
<1>1. Init => TypeOK
  BY InitType
<1>2. TypeOK /\ [Next]_vars => TypeOK'
  BY TypeStep
<1> QED BY <1>1, <1>2, PTL DEF Spec

-----------------------------------------------------------------------------
(* Part 2: the inductive invariant.                                        *)

LEMMA InitInv == Init => SessionInv
<1> SUFFICES ASSUME Init PROVE SessionInv
  OBVIOUS
<1>1. InFlightIds
  BY AppServerAssumption DEF Init, InFlightIds, InRequest, Writers
<1>2. PendingOwned /\ NoOrphanWaiter
  BY DEF Init, PendingOwned, NoOrphanWaiter, InRequest, Writers
<1>3. GoneIsFinal
  BY DEF Init, GoneIsFinal, CloseFailedPending
<1> QED BY <1>1, <1>2, <1>3 DEF SessionInv

\* The steps that are not a caller's leave the callers where they are.
CallersUnchanged ==
    /\ \A c \in Callers : pc'[c] = pc[c] /\ body'[c] = body[c]
    /\ UNCHANGED <<rid, nextId, outcome>>

\* What such a step does to _pending and the futures: nothing, or it answers
\* one, or it fails them all.
FuturesStep ==
    \/ /\ pending' = pending
       /\ \A i \in Ids :
             \/ fut'[i] = fut[i]
             \/ /\ fut[i] = "waiting"
                /\ fut'[i] \in Answers
    \/ /\ pending' = {}
       /\ fut' = PendingFailed
       /\ dead' # "none" \/ closed'

OtherStep ==
    \/ \E i \in Inbounds : InboundStep(i) \/ WriterStep(i)
    \/ RegistryStep \/ ReaderStep \/ WatcherReaps
    \/ CloseStep \/ StdinLost \/ ChildStep
    \/ UNCHANGED vars

\* Tasks that answer the child never touch a caller's coroutine.
LEMMA InboundsAreNotCallers ==
  ASSUME NEW i \in Inbounds, NEW c \in Callers
  PROVE  i # c
  BY AppServerAssumption

LEMMA OtherLeavesCallers ==
  ASSUME TypeOK, OtherStep
  PROVE  CallersUnchanged
<1> USE InboundsAreNotCallers
    DEF CallersUnchanged, TypeOK, DataType, CoroutineType, Writers, session, coros, history
<1>1. ASSUME NEW i \in Inbounds, InboundStep(i) \/ WriterStep(i)
      PROVE  CallersUnchanged
  <2>1. CASE InboundStep(i)
    BY <2>1 DEF InboundStep, Reply, HandlerEnds
  <2>2. CASE LockGranted(i)
    BY <2>2 DEF LockGranted
  <2>3. CASE DrainReturns(i) \/ DrainRaises(i)
    BY <2>3 DEF DrainReturns, DrainRaises
  <2> QED BY <1>1, <2>1, <2>2, <2>3 DEF WriterStep
<1>2. CASE DispatchInbound
  <2>1. Head(stdoutQ).id \in Inbounds
    BY <1>2 DEF DispatchInbound, NextLine, PipeType, StdoutMsgs
  <2> QED BY <1>2, <2>1 DEF DispatchInbound
<1>3. CASE (ReaderStep /\ ~DispatchInbound) \/ WatcherReaps
  BY <1>3 DEF ReaderStep, DispatchResponse, DispatchNotification, SkipLine, ReaderRaises,
     ReaderEOF, WatcherReaps, MarkDead
<1>4. CASE RegistryStep \/ StdinLost
  BY <1>4 DEF RegistryStep, Subscribe, Unsubscribe, SetInboundRequestHandler, StdinLost
<1>5. CASE CloseStep
  BY <1>5 DEF CloseStep, Close, CloseFlushed, CloseKills, CloseReturns
<1>6. CASE ChildStep
  BY <1>6 DEF ChildStep, ChildReads, ChildAnswers, ChildNotifies, ChildAsks,
     ChildWritesOther, Emit, ChildClosesStdout, ChildExits, ChildHangs
<1>7. CASE UNCHANGED vars
  BY <1>7 DEF vars
<1> QED BY <1>1, <1>2, <1>3, <1>4, <1>5, <1>6, <1>7 DEF OtherStep, ReaderStep

LEMMA OtherOnFutures ==
  ASSUME TypeOK, SessionInv, OtherStep
  PROVE  FuturesStep
<1> USE DEF FuturesStep, session
<1>1. ASSUME NEW i \in Inbounds, InboundStep(i) \/ WriterStep(i)
      PROVE  FuturesStep
  BY <1>1, InboundsAreNotCallers DEF InboundStep, Reply, HandlerEnds, WriterStep,
     LockGranted, DrainReturns, DrainRaises
<1>2. CASE DispatchResponse
  <2>1. Head(stdoutQ).kind \in Answers
    BY <1>2 DEF DispatchResponse, NextLine
  <2> QED BY <1>2, <2>1 DEF DispatchResponse, Answerable, TypeOK, DataType, SessionType
<1>3. CASE ReaderRaises \/ ReaderEOF \/ WatcherReaps
  BY <1>3 DEF ReaderRaises, ReaderEOF, WatcherReaps, MarkDead
<1>4. CASE DispatchNotification \/ DispatchInbound \/ SkipLine
  BY <1>4 DEF DispatchNotification, DispatchInbound, SkipLine
<1>5. CASE RegistryStep \/ StdinLost
  BY <1>5 DEF RegistryStep, Subscribe, Unsubscribe, SetInboundRequestHandler, StdinLost
<1>6. CASE Close
  BY <1>6 DEF Close, CancelAndFail
<1>7. CASE CloseFlushed
  <2>1. closed
    BY <1>7 DEF CloseFlushed, SessionInv, GoneIsFinal
  <2> QED BY <1>7, <2>1 DEF CloseFlushed, CancelAndFail
<1>8. CASE CloseKills \/ CloseReturns
  BY <1>8 DEF CloseKills, CloseReturns
<1>9. CASE ChildStep
  BY <1>9 DEF ChildStep, ChildReads, ChildAnswers, ChildNotifies, ChildAsks,
     ChildWritesOther, Emit, ChildClosesStdout, ChildExits, ChildHangs
<1>10. CASE UNCHANGED vars
  BY <1>10 DEF vars
<1> QED BY <1>1, <1>2, <1>3, <1>4, <1>5, <1>6, <1>7, <1>8, <1>9, <1>10
        DEF OtherStep, ReaderStep, CloseStep

LEMMA OtherKeepsInv ==
  ASSUME TypeOK, SessionInv, OtherStep
  PROVE  SessionInv'
<1>1. CallersUnchanged /\ FuturesStep
  BY OtherLeavesCallers, OtherOnFutures
<1>2. InFlightIds'
  BY <1>1 DEF SessionInv, InFlightIds, InRequest, CallersUnchanged, FuturesStep,
     PendingFailed, TypeOK, DataType, SessionType
<1>3. PendingOwned'
  BY <1>1 DEF SessionInv, PendingOwned, InRequest, CallersUnchanged, FuturesStep
<1>4. NoOrphanWaiter'
  BY <1>1 DEF SessionInv, NoOrphanWaiter, InFlightIds, InRequest, CallersUnchanged,
     FuturesStep, PendingFailed, Answers
<1>5. GoneIsFinal'
  <2> USE DEF SessionInv, GoneIsFinal, FailFast, CloseFailedPending, session, tasks, pipes,
              PendingFailed, TypeOK, DataType, SessionType
  <2>1. ASSUME NEW i \in Inbounds, InboundStep(i) \/ WriterStep(i)
        PROVE  GoneIsFinal'
    BY <2>1, InboundsAreNotCallers DEF InboundStep, Reply, HandlerEnds, WriterStep,
       LockGranted, DrainReturns, DrainRaises, history
  <2>2. CASE DispatchResponse
    BY <2>2 DEF DispatchResponse, NextLine, Answers, Answerable, history
  <2>3. CASE ReaderRaises \/ ReaderEOF \/ WatcherReaps
    BY <2>3 DEF ReaderRaises, ReaderEOF, WatcherReaps, MarkDead, history
  <2>4. CASE DispatchNotification \/ DispatchInbound \/ SkipLine
    BY <2>4 DEF DispatchNotification, DispatchInbound, SkipLine, history
  <2>5. CASE RegistryStep \/ StdinLost
    BY <2>5 DEF RegistryStep, Subscribe, Unsubscribe, SetInboundRequestHandler, StdinLost,
       history
  <2>6. CASE CloseStep
    BY <2>6 DEF CloseStep, Close, CloseFlushed, CloseKills, CloseReturns, CancelAndFail,
       history
  <2>7. CASE ChildStep
    BY <2>7 DEF ChildStep, ChildReads, ChildAnswers, ChildNotifies, ChildAsks,
       ChildWritesOther, Emit, ChildClosesStdout, ChildExits, ChildHangs, history
  <2>8. CASE UNCHANGED vars
    BY <2>8 DEF vars, history
  <2> QED BY <2>1, <2>2, <2>3, <2>4, <2>5, <2>6, <2>7, <2>8 DEF OtherStep, ReaderStep
<1> QED BY <1>2, <1>3, <1>4, <1>5 DEF SessionInv

LEMMA CallerKeepsInv ==
  ASSUME TypeOK, SessionInv, NEW c \in Callers, CallerStep(c) \/ WriterStep(c)
  PROVE  SessionInv'
<1> USE DEF SessionInv, InRequest, TypeOK, DataType, SessionType, CoroutineType, Ids,
            session, tasks, coros, Writers
<1>1. CASE Request(c)
  <2> USE <1>1, AppServerAssumption
      DEF Request, WriteStage, AfterStage, AfterWrite, AfterRaise, OwnBodies
  <2>1. InFlightIds'
    BY DEF InFlightIds
  <2>2. PendingOwned'
    <3>1. ASSUME NEW i \in pending
          PROVE  \E d \in Callers : InRequest(d)' /\ rid'[d] = i
      <4>1. PICK d \in Callers : InRequest(d) /\ rid[d] = i
        BY DEF PendingOwned
      <4>2. d # c
        BY <4>1
      <4> QED BY <4>1, <4>2
    <3>2. ASSUME WriteStage # "raised"
          PROVE  InRequest(c)' /\ rid'[c] = nextId
      BY <3>2
    <3> QED BY <3>1, <3>2 DEF PendingOwned
  <2>3. NoOrphanWaiter'
    BY DEF NoOrphanWaiter, InFlightIds
  <2>4. stdin = "open" \/ stdin = "lost"
    BY DEF GoneIsFinal, FailFast, PipeType
  <2>5. GoneIsFinal'
    BY <2>4 DEF GoneIsFinal, FailFast, CloseFailedPending, HistoryType
  <2> QED BY <2>1, <2>2, <2>3, <2>5
<1>2. CASE Notify(c)
  <2> USE <1>2 DEF Notify, WriteStage, AfterStage, AfterWrite, AfterRaise, OwnBodies
  <2>1. InFlightIds' /\ NoOrphanWaiter'
    BY DEF InFlightIds, NoOrphanWaiter
  <2>2. PendingOwned'
    BY DEF PendingOwned
  <2>3. GoneIsFinal'
    BY DEF GoneIsFinal, FailFast, CloseFailedPending, history
  <2> QED BY <2>1, <2>2, <2>3
<1>3. CASE Timeout(c)
  BY <1>3 DEF Timeout, InFlightIds, PendingOwned, NoOrphanWaiter, GoneIsFinal, FailFast,
     CloseFailedPending, pipes, history
<1>4. CASE Resume(c)
  <2> USE <1>4 DEF Resume, Popped
  <2>1. InFlightIds'
    BY DEF InFlightIds
  <2>2. PendingOwned'
    BY DEF PendingOwned, InFlightIds
  <2>3. NoOrphanWaiter'
    BY DEF NoOrphanWaiter, InFlightIds
  <2>4. rid[c] \in Ids /\ (fut[rid[c]] = "connError" => FailFast)
    BY DEF InFlightIds, GoneIsFinal
  <2>5. GoneIsFinal'
    BY <2>4 DEF GoneIsFinal, FailFast, CloseFailedPending, pipes, HistoryType
  <2> QED BY <2>1, <2>2, <2>3, <2>5
<1>5. CASE CallerCancelled(c)
  <2> USE DEF Popped
  <2>0. /\ pc' = [pc EXCEPT ![c] = "idle"] /\ UNCHANGED <<body, rid, nextId>>
        /\ UNCHANGED <<dead, closed, closePc, stdin>>
        /\ pending' = IF body[c] = "request" THEN Popped(rid[c]) ELSE pending
        /\ \A i \in Ids : fut'[i] = fut[i] \/ (fut[i] = "waiting" /\ fut'[i] = "cancelled")
        /\ pc[c] \in {"lock", "drain", "wait"}
    BY <1>5 DEF CallerCancelled, pipes
  <2>1. InFlightIds'
    BY <2>0 DEF InFlightIds
  <2>2. PendingOwned'
    <3>1. ASSUME NEW i \in pending'
          PROVE  \E d \in Callers : InRequest(d)' /\ rid'[d] = i
      <4>1. PICK d \in Callers : InRequest(d) /\ rid[d] = i
        BY <2>0, <3>1 DEF PendingOwned
      <4>2. d # c
        BY <2>0, <3>1, <4>1
      <4> QED BY <2>0, <4>1, <4>2
    <3> QED BY <3>1 DEF PendingOwned
  <2>3. NoOrphanWaiter'
    BY <2>0 DEF NoOrphanWaiter, InFlightIds
  <2>4. \A i \in Ids : /\ fut'[i] \in {fut[i], "cancelled"}
                      /\ outcome'[i] \in {outcome[i], "cancelled"}
    BY <1>5 DEF CallerCancelled, HistoryType
  <2>5. GoneIsFinal'
    BY <2>0, <2>4 DEF GoneIsFinal, FailFast, CloseFailedPending
  <2> QED BY <2>1, <2>2, <2>3, <2>5
<1>6. CASE LockGranted(c)
  <2> USE <1>6 DEF LockGranted
  <2>1. /\ pc[c] = "lock" /\ pc' = [pc EXCEPT ![c] = pc'[c]]
        /\ pc'[c] \in {AfterWrite(body[c]), "drain"}
        /\ UNCHANGED <<session, body, rid, outcome, closePc, stdin>>
    BY DEF history
  <2> HIDE <1>6 DEF LockGranted
  <2>2. InFlightIds' /\ NoOrphanWaiter'
    BY <2>1 DEF InFlightIds, NoOrphanWaiter, AfterWrite
  <2>3. PendingOwned'
    <3>1. \A d \in Callers : InRequest(d) => InRequest(d)'
      BY <2>1 DEF AfterWrite
    <3> QED BY <2>1, <3>1 DEF PendingOwned
  <2>4. GoneIsFinal'
    BY <2>1 DEF GoneIsFinal, FailFast, CloseFailedPending
  <2> QED BY <2>2, <2>3, <2>4
<1>7. CASE DrainReturns(c)
  <2> USE <1>7 DEF DrainReturns, AfterWrite
  <2>1. InFlightIds' /\ NoOrphanWaiter'
    BY DEF InFlightIds, NoOrphanWaiter
  <2>2. PendingOwned'
    BY DEF PendingOwned
  <2>3. GoneIsFinal'
    BY DEF GoneIsFinal, FailFast, CloseFailedPending, pipes, history
  <2> QED BY <2>1, <2>2, <2>3
<1>8. CASE DrainRaises(c)
  <2> USE <1>8 DEF DrainRaises, AfterRaise, OwnBodies, Popped
  <2>1. InFlightIds'
    BY DEF InFlightIds
  <2>2. PendingOwned'
    BY DEF PendingOwned, InFlightIds
  <2>3. NoOrphanWaiter'
    BY DEF NoOrphanWaiter, InFlightIds
  <2>4. GoneIsFinal'
    BY DEF GoneIsFinal, FailFast, CloseFailedPending, pipes, history
  <2> QED BY <2>1, <2>2, <2>3, <2>4
<1> QED BY <1>1, <1>2, <1>3, <1>4, <1>5, <1>6, <1>7, <1>8 DEF CallerStep, WriterStep

LEMMA InvStep ==
  ASSUME TypeOK, SessionInv, [Next]_vars
  PROVE  SessionInv'
<1>1. OtherStep \/ \E c \in Callers : CallerStep(c) \/ WriterStep(c)
  BY DEF Next, OtherStep, Writers
<1> QED BY <1>1, OtherKeepsInv, CallerKeepsInv

\* The invariant behind the properties of the channel: ids in flight are
\* distinct, pending ids are owned, undone futures are pending, death is final.
THEOREM SessionInvariant == Spec => [](TypeOK /\ SessionInv)
<1>1. Init => TypeOK /\ SessionInv
  BY InitType, InitInv
<1>2. TypeOK /\ SessionInv /\ [Next]_vars => (TypeOK /\ SessionInv)'
  BY TypeStep, InvStep
<1> QED BY <1>1, <1>2, PTL DEF Spec

\* No request() call of _pending's client is ever forgotten: whoever can still
\* settle its future (reader, _mark_dead, close) finds it in _pending.
THEOREM NoOrphans == Spec => []NoOrphanWaiter
<1>1. TypeOK /\ SessionInv => NoOrphanWaiter
  BY DEF SessionInv
<1> QED BY <1>1, SessionInvariant, PTL

\* _mark_dead and close() leave no request() call on an undone future, and none
\* can be added after them.
THEOREM DeadChannelHasSettled == Spec => []DeadChannelSettles
<1>1. TypeOK /\ SessionInv => DeadChannelSettles
  BY DEF SessionInv, NoOrphanWaiter, GoneIsFinal, DeadChannelSettles
<1> QED BY <1>1, SessionInvariant, PTL

\* Every key of _pending has exactly one call in flight that will pop it.
THEOREM PendingIsOwned == Spec => []PendingHasOwner
<1>1. ASSUME TypeOK, SessionInv, NEW i \in pending
      PROVE  Cardinality({c \in Callers : InRequest(c) /\ rid[c] = i}) = 1
  <2>1. PICK c \in Callers : InRequest(c) /\ rid[c] = i
    BY <1>1 DEF SessionInv, PendingOwned
  <2>2. {d \in Callers : InRequest(d) /\ rid[d] = i} = {c}
    BY <1>1, <2>1 DEF SessionInv, InFlightIds
  <2> QED BY <2>2, FS_Singleton
<1>2. TypeOK /\ SessionInv => PendingHasOwner
  BY <1>1 DEF PendingHasOwner
<1> QED BY <1>2, SessionInvariant, PTL

\* A ConnectionError reaches a caller only when the channel is gone for good.
THEOREM ConnErrorIsFinal == Spec => []ConnErrorMeansGone
<1>1. TypeOK /\ SessionInv => ConnErrorMeansGone
  BY DEF SessionInv, GoneIsFinal, ConnErrorMeansGone
<1> QED BY <1>1, SessionInvariant, PTL

\* Late answers, timers, cancellation, _mark_dead and close() never overrule
\* each other: a future is settled once, and the first cause of death is kept.
THEOREM FuturesSettleOnce == Spec => SettledOnce
<1> DEFINE Once == /\ \A i \in Ids : fut[i] \in Settled => fut'[i] = fut[i]
                   /\ dead # "none" => dead' = dead
<1>1. ASSUME TypeOK, SessionInv, [Next]_vars
      PROVE  Once
  <2> USE DEF Settled, Answers, session, TypeOK, DataType, SessionType
  <2>1. \A i \in Ids : fut[i] \in Settled => fut'[i] = fut[i]
    <3>1. CASE OtherStep
      <4>1. FuturesStep
        BY <1>1, <3>1, OtherOnFutures
      <4> QED BY <4>1 DEF FuturesStep, PendingFailed
    <3>2. ASSUME NEW c \in Callers, CallerStep(c)
          PROVE  \A i \in Ids : fut[i] \in Settled => fut'[i] = fut[i]
      <4>1. CASE Request(c)
        BY <1>1, <4>1 DEF Request, SessionInv, InFlightIds, Ids
      <4>2. CASE Notify(c) \/ Resume(c)
        BY <4>2 DEF Notify, Resume
      <4>3. CASE Timeout(c) \/ CallerCancelled(c)
        <5>1. \A i \in Ids : fut'[i] = fut[i] \/ fut[i] = "waiting"
          BY <1>1, <4>3 DEF Timeout, CallerCancelled
        <5> QED BY <5>1
      <4> QED BY <3>2, <4>1, <4>2, <4>3 DEF CallerStep
    <3>3. ASSUME NEW w \in Writers, WriterStep(w)
          PROVE  fut' = fut
      BY <3>3 DEF WriterStep, LockGranted, DrainReturns, DrainRaises
    <3> QED BY <1>1, <3>1, <3>2, <3>3 DEF Next, OtherStep
  <2>2. dead # "none" => dead' = dead
    <3>1. CASE \E c \in Callers : CallerStep(c)
      BY <3>1 DEF CallerStep, Request, Notify, Timeout, Resume, CallerCancelled
    <3>2. CASE \E w \in Writers : WriterStep(w)
      BY <3>2 DEF WriterStep, LockGranted, DrainReturns, DrainRaises
    <3>3. CASE (\E i \in Inbounds : InboundStep(i)) \/ RegistryStep \/ StdinLost
      BY <3>3 DEF InboundStep, Reply, HandlerEnds, RegistryStep, Subscribe, Unsubscribe,
         SetInboundRequestHandler, StdinLost
    <3>4. CASE ReaderStep \/ WatcherReaps
      BY <3>4 DEF ReaderStep, DispatchResponse, DispatchNotification, DispatchInbound,
         SkipLine, ReaderRaises, ReaderEOF, WatcherReaps, MarkDead
    <3>5. CASE CloseStep
      BY <3>5 DEF CloseStep, Close, CloseFlushed, CloseKills, CloseReturns
    <3>6. CASE ChildStep
      BY <3>6 DEF ChildStep, ChildReads, ChildAnswers, ChildNotifies, ChildAsks,
         ChildWritesOther, Emit, ChildClosesStdout, ChildExits, ChildHangs
    <3>7. CASE UNCHANGED vars
      BY <3>7 DEF vars
    <3> QED BY <1>1, <3>1, <3>2, <3>3, <3>4, <3>5, <3>6, <3>7 DEF Next
  <2> QED BY <2>1, <2>2
<1>2. TypeOK /\ SessionInv /\ [Next]_vars => [Once]_vars
  BY <1>1
<1> QED BY <1>2, SessionInvariant, PTL DEF SettledOnce, Spec

-----------------------------------------------------------------------------
(* Part 3: the child's requests.  Replies in a queue.                      *)

IsReply(m, i) == m.body \in ReplyBodies /\ m.id = i

\* The child has read n replies to i, and none waits in the queue q.
Absent(q, n, i) == n = 0 /\ \A k \in 1 .. Len(q) : ~IsReply(q[k], i)

\* There is at most one reply to i, read or in the queue.
AtMostOne(q, n, i) ==
    /\ n \in {0, 1}
    /\ \A k, l \in 1 .. Len(q) : IsReply(q[k], i) /\ IsReply(q[l], i) => k = l
    /\ n = 1 => \A k \in 1 .. Len(q) : ~IsReply(q[k], i)

LEMMA AbsentIsAtMostOne ==
  ASSUME NEW q, NEW n, NEW i, Absent(q, n, i)
  PROVE  AtMostOne(q, n, i)
  BY DEF Absent, AtMostOne

LEMMA ReplyAppended ==
  ASSUME NEW q \in Seq(StdinMsgs), NEW m \in StdinMsgs, NEW n, NEW i, Absent(q, n, i)
  PROVE  AtMostOne(Append(q, m), n, i)
<1>1. /\ Len(Append(q, m)) = Len(q) + 1
      /\ \A k \in 1 .. Len(q) : Append(q, m)[k] = q[k]
  OBVIOUS
<1>2. Len(q) \in Nat
  OBVIOUS
<1> QED BY <1>1, <1>2 DEF Absent, AtMostOne

LEMMA OtherAppended ==
  ASSUME NEW q \in Seq(StdinMsgs), NEW m \in StdinMsgs, NEW n, NEW i, ~IsReply(m, i)
  PROVE  /\ Absent(q, n, i) => Absent(Append(q, m), n, i)
         /\ AtMostOne(q, n, i) => AtMostOne(Append(q, m), n, i)
<1> DEFINE a == Append(q, m)
<1>1. /\ Len(a) = Len(q) + 1
      /\ \A k \in 1 .. Len(q) : a[k] = q[k]
      /\ a[Len(q) + 1] = m
      /\ Len(q) \in Nat
  OBVIOUS
<1>2. \A k \in 1 .. Len(a) : IsReply(a[k], i) => k \in 1 .. Len(q) /\ IsReply(q[k], i)
  BY <1>1
<1> HIDE DEF a
<1>3. Absent(q, n, i) => Absent(a, n, i)
  BY <1>2 DEF Absent
<1>4. AtMostOne(q, n, i) => AtMostOne(a, n, i)
  BY <1>2 DEF AtMostOne
<1> QED BY <1>3, <1>4 DEF a

LEMMA ReplyRead ==
  ASSUME NEW q \in Seq(StdinMsgs), q # <<>>, NEW n, NEW i
  PROVE  /\ Absent(q, n, i) => Absent(Tail(q), n, i) /\ ~IsReply(Head(q), i)
         /\ AtMostOne(q, n, i) =>
              AtMostOne(Tail(q), IF IsReply(Head(q), i) THEN n + 1 ELSE n, i)
<1> DEFINE t == Tail(q)
<1>1. /\ Len(t) = Len(q) - 1
      /\ Len(q) \in Nat \ {0}
      /\ Head(q) = q[1]
      /\ \A k \in 1 .. Len(t) : t[k] = q[k + 1]
  OBVIOUS
<1> HIDE DEF t
<1>2. \A k \in 1 .. Len(t) : k + 1 \in 1 .. Len(q) /\ k + 1 # 1
  BY <1>1
<1>3. Absent(q, n, i) => Absent(t, n, i) /\ ~IsReply(Head(q), i)
  BY <1>1, <1>2 DEF Absent
<1>4. ASSUME AtMostOne(q, n, i), IsReply(Head(q), i)
      PROVE  AtMostOne(t, n + 1, i)
  <2>1. n = 0
    BY <1>1, <1>4 DEF AtMostOne
  <2>2. \A k \in 1 .. Len(t) : ~IsReply(t[k], i)
    BY <1>1, <1>2, <1>4 DEF AtMostOne
  <2> QED BY <2>1, <2>2 DEF AtMostOne
<1>5. ASSUME AtMostOne(q, n, i), ~IsReply(Head(q), i)
      PROVE  AtMostOne(t, n, i)
  <2>1. \A k, l \in 1 .. Len(t) : IsReply(t[k], i) /\ IsReply(t[l], i) => k + 1 = l + 1
    BY <1>1, <1>2, <1>5 DEF AtMostOne
  <2> QED BY <1>1, <1>2, <1>5, <2>1 DEF AtMostOne
<1> QED BY <1>3, <1>4, <1>5 DEF t


-----------------------------------------------------------------------------
(* The inductive invariant of part 3.                                      *)

\* A task that has not written its reply has none under way; one that starts
\* again after a failed write finds stdin gone.
Replying(i) ==
    /\ AtMostOne(stdinQ, replies[i], i)
    /\ pc[i] \in {"idle", "handler", "lock"} => Absent(stdinQ, replies[i], i)
    /\ pc[i] = "reply" => Absent(stdinQ, replies[i], i) \/ stdin # "open"
    /\ pc[i] # "wait"
    /\ pc[i] \in {"reply", "lock", "drain"} => body[i] \in ReplyBodies

RepliesInv ==
    /\ \A c \in Callers : body[c] \in OwnBodies
    /\ \A i \in Inbounds : Replying(i)

\* One task per request of the child, and none before the reader took its line.
AskedInv ==
    /\ \A i \in Inbounds : i \notin asked => pc[i] = "idle"
    /\ \A k \in 1 .. Len(stdoutQ) :
          stdoutQ[k].kind \in Methods =>
              stdoutQ[k].id \in asked /\ pc[stdoutQ[k].id] = "idle"
    /\ \A k, l \in 1 .. Len(stdoutQ) :
          /\ stdoutQ[k].kind \in Methods /\ stdoutQ[l].kind \in Methods
          /\ stdoutQ[k].id = stdoutQ[l].id
          => k = l

\* close() has cancelled both tasks when it fails what is pending.
TasksInv == CloseFailedPending => reader # "running" /\ watcher # "running"

LEMMA InitInbound == Init => RepliesInv /\ AskedInv /\ TasksInv
<1> SUFFICES ASSUME Init PROVE RepliesInv /\ AskedInv /\ TasksInv
  OBVIOUS
<1>1. RepliesInv
  BY DEF Init, RepliesInv, Replying, AtMostOne, Absent, OwnBodies, Writers
<1>2. AskedInv
  BY DEF Init, AskedInv, Writers
<1>3. TasksInv
  BY DEF Init, TasksInv, CloseFailedPending
<1> QED BY <1>1, <1>2, <1>3

-----------------------------------------------------------------------------
(* Replies.                                                                *)

\* A step that is not about i, whatever else it writes.
LEMMA QuietStep ==
  ASSUME TypeOK, NEW i \in Inbounds, Replying(i),
         pc'[i] = pc[i], body'[i] = body[i], replies'[i] = replies[i],
         stdin' = stdin \/ stdin' # "open",
         \/ stdinQ' = stdinQ
         \/ \E m \in StdinMsgs : stdinQ' = Append(stdinQ, m) /\ ~IsReply(m, i)
  PROVE  Replying(i)'
<1>1. stdinQ \in Seq(StdinMsgs)
  BY DEF TypeOK, DataType, PipeType
<1>2. CASE stdinQ' = stdinQ
  BY <1>2 DEF Replying
<1>3. ASSUME NEW m \in StdinMsgs, stdinQ' = Append(stdinQ, m), ~IsReply(m, i)
      PROVE  Replying(i)'
  <2>1. /\ Absent(stdinQ, replies[i], i) => Absent(stdinQ', replies'[i], i)
        /\ AtMostOne(stdinQ, replies[i], i) => AtMostOne(stdinQ', replies'[i], i)
    BY <1>1, <1>3, OtherAppended
  <2> QED BY <2>1 DEF Replying
<1> QED BY <1>2, <1>3

\* The task of i writes its reply, or fails to.
LEMMA ReplyStep ==
  ASSUME TypeOK, NEW i \in Inbounds, Replying(i), NEW b \in ReplyBodies,
         Absent(stdinQ, replies[i], i) \/ stdin # "open",
         Send(i, [body |-> b, id |-> i]),
         pc' = [pc EXCEPT ![i] = AfterStage(b, WriteStage)],
         body' = [body EXCEPT ![i] = b],
         UNCHANGED <<stdin, replies>>
  PROVE  Replying(i)'
<1> DEFINE m == [body |-> b, id |-> i]
<1>1. m \in StdinMsgs /\ stdinQ \in Seq(StdinMsgs)
  BY DEF StdinMsgs, MsgIds, Bodies, TypeOK, DataType, PipeType
<1>2. pc'[i] = AfterStage(b, WriteStage) /\ body'[i] = b
  BY DEF TypeOK, DataType, CoroutineType, Writers
<1>3. CASE WriteStage \in {"written", "drain"}
  <2>1. stdin = "open"
    BY <1>3 DEF WriteStage
  <2>2. AtMostOne(stdinQ', replies'[i], i)
    BY <1>1, <1>3, <2>1, ReplyAppended DEF Send
  <2>3. pc'[i] \in {"done", "drain"}
    BY <1>2, <1>3 DEF AfterStage, AfterWrite, ReplyBodies
  <2> QED BY <1>2, <2>2, <2>3 DEF Replying
<1>4. CASE WriteStage = "lock"
  <2>1. stdinQ' = stdinQ /\ stdin = "open"
    BY <1>4 DEF WriteStage, Send
  <2>2. pc'[i] = "lock"
    BY <1>2, <1>4 DEF AfterStage
  <2> QED BY <1>2, <2>1, <2>2 DEF Replying
<1>5. CASE WriteStage = "raised"
  <2>1. stdinQ' = stdinQ /\ stdin # "open"
    BY <1>5 DEF WriteStage, Send
  <2>2. pc'[i] \in {"reply", "done"}
    BY <1>2, <1>5 DEF AfterStage, AfterRaise, ReplyBodies, OwnBodies
  <2> QED BY <1>2, <2>1, <2>2 DEF Replying
<1> QED BY <1>3, <1>4, <1>5 DEF WriteStage

\* A line written by anyone but i is no reply to i.
LEMMA OtherMessage ==
  ASSUME TypeOK, RepliesInv, NEW w \in Writers, NEW i \in Inbounds, i # w
  PROVE  ~IsReply(MessageOf(w), i)
  BY DEF RepliesInv, IsReply, MessageOf, ReplyBodies, OwnBodies, Writers

LEMMA WriterReplies ==
  ASSUME TypeOK, RepliesInv, NEW w \in Writers, WriterStep(w)
  PROVE  RepliesInv'
<1> USE DEF pipes, coros, history
<1>0. /\ pc \in [Writers -> PcStates] /\ body' = body /\ replies' = replies /\ stdin' = stdin
      /\ \A v \in Writers : v # w => pc'[v] = pc[v]
      /\ stdinQ' = stdinQ \/ stdinQ' = Append(stdinQ, MessageOf(w))
  BY DEF WriterStep, LockGranted, DrainReturns, DrainRaises, TypeOK, DataType, CoroutineType
<1>1. MessageOf(w) \in StdinMsgs
  BY MessageType DEF TypeOK
<1>2. ASSUME NEW i \in Inbounds, i # w
      PROVE  Replying(i)'
  <2>1. pc'[i] = pc[i] /\ Replying(i) /\ ~IsReply(MessageOf(w), i)
    BY <1>0, <1>2, OtherMessage DEF Writers, RepliesInv
  <2> QED BY <1>0, <1>1, <2>1, QuietStep
<1>3. ASSUME w \in Inbounds
      PROVE  Replying(w)'
  <2>0. Replying(w) /\ w \notin Callers
    BY <1>3, InboundsAreNotCallers DEF RepliesInv
  <2>1. CASE LockGranted(w)
    <3>1. Absent(stdinQ, replies[w], w) /\ body[w] \in ReplyBodies
      BY <2>0, <2>1 DEF LockGranted, Replying
    <3>2. AtMostOne(stdinQ', replies'[w], w)
      <4>1. stdinQ \in Seq(StdinMsgs)
        BY DEF TypeOK, DataType, PipeType
      <4> QED BY <1>0, <1>1, <3>1, <4>1, ReplyAppended, AbsentIsAtMostOne
    <3>3. pc'[w] \in {"done", "drain"}
      BY <1>0, <2>1, <3>1 DEF LockGranted, AfterWrite, ReplyBodies
    <3> QED BY <1>0, <3>1, <3>2, <3>3 DEF Replying
  <2>2. CASE DrainReturns(w)
    <3>1. body[w] \in ReplyBodies /\ stdinQ' = stdinQ
      BY <2>0, <2>2 DEF DrainReturns, Replying
    <3>2. pc'[w] = "done"
      BY <1>0, <2>2, <3>1 DEF DrainReturns, AfterWrite, ReplyBodies
    <3> QED BY <1>0, <2>0, <3>1, <3>2 DEF Replying
  <2>3. CASE DrainRaises(w)
    <3>1. body[w] \in ReplyBodies /\ stdinQ' = stdinQ /\ stdin = "lost"
      BY <2>0, <2>3 DEF DrainRaises, Replying
    <3>2. pc'[w] \in {"reply", "done"}
      BY <1>0, <2>3, <3>1 DEF DrainRaises, AfterRaise, ReplyBodies, OwnBodies
    <3> QED BY <1>0, <2>0, <3>1, <3>2 DEF Replying
  <2> QED BY <2>1, <2>2, <2>3 DEF WriterStep
<1> QED BY <1>0, <1>2, <1>3 DEF RepliesInv


LEMMA CallerReplies ==
  ASSUME TypeOK, RepliesInv, NEW c \in Callers, CallerStep(c)
  PROVE  RepliesInv'
<1> USE DEF pipes, coros, history
<1>1. /\ \A i \in Inbounds : pc'[i] = pc[i] /\ body'[i] = body[i]
      /\ \A d \in Callers : body'[d] \in OwnBodies
      /\ replies' = replies /\ stdin' = stdin
  <2>1. CASE Request(c) \/ Notify(c)
    BY <2>1, InboundsAreNotCallers DEF Request, Notify, RepliesInv, OwnBodies, TypeOK,
       DataType, CoroutineType, Writers
  <2>2. CASE Timeout(c) \/ Resume(c) \/ CallerCancelled(c)
    BY <2>2, InboundsAreNotCallers DEF Timeout, Resume, CallerCancelled, RepliesInv,
       TypeOK, DataType, CoroutineType, Writers
  <2> QED BY <2>1, <2>2 DEF CallerStep
<1>2. \/ stdinQ' = stdinQ
      \/ \E m \in StdinMsgs : stdinQ' = Append(stdinQ, m) /\ m.body \in OwnBodies
  <2>1. CASE Request(c)
    <3> DEFINE m == [body |-> "request", id |-> nextId]
    <3>1. m \in StdinMsgs /\ m.body \in OwnBodies
      BY DEF StdinMsgs, MsgIds, Bodies, OwnBodies, TypeOK, DataType, SessionType
    <3> QED BY <2>1, <3>1 DEF Request, Send
  <2>2. CASE Notify(c)
    <3> DEFINE m == [body |-> "notify", id |-> 0]
    <3>1. m \in StdinMsgs /\ m.body \in OwnBodies
      BY DEF StdinMsgs, MsgIds, Bodies, OwnBodies
    <3> QED BY <2>2, <3>1 DEF Notify, Send
  <2>3. CASE Timeout(c) \/ Resume(c) \/ CallerCancelled(c)
    BY <2>3 DEF Timeout, Resume, CallerCancelled
  <2> QED BY <2>1, <2>2, <2>3 DEF CallerStep
<1>3. ASSUME NEW i \in Inbounds
      PROVE  Replying(i)'
  <2>1. Replying(i)
    BY DEF RepliesInv
  <2>2. \A m \in StdinMsgs : m.body \in OwnBodies => ~IsReply(m, i)
    BY DEF IsReply, OwnBodies, ReplyBodies
  <2> QED BY <1>1, <1>2, <2>1, <2>2, QuietStep
<1> QED BY <1>1, <1>3 DEF RepliesInv

LEMMA InboundReplies ==
  ASSUME TypeOK, RepliesInv, NEW j \in Inbounds, InboundStep(j)
  PROVE  RepliesInv'
<1> USE DEF history
<1>1. PICK b \in ReplyBodies :
        /\ Send(j, [body |-> b, id |-> j])
        /\ pc' = [pc EXCEPT ![j] = AfterStage(b, WriteStage)]
        /\ body' = [body EXCEPT ![j] = b]
        /\ UNCHANGED <<stdin, replies>>
        /\ pc[j] \in {"handler", "reply"}
  <2>1. CASE Reply(j)
    <3>1. NextBody(j) \in ReplyBodies
      BY <2>1 DEF Reply, RepliesInv, Replying, NextBody, ReplyBodies
    <3> QED BY <2>1, <3>1 DEF Reply
  <2>2. CASE \E b \in {"result", "error"} : HandlerEnds(j, b)
    BY <2>2 DEF HandlerEnds, ReplyBodies
  <2> QED BY <2>1, <2>2 DEF InboundStep
<1>2. Replying(j)'
  <2>1. Replying(j)
    BY DEF RepliesInv
  <2>2. Absent(stdinQ, replies[j], j) \/ stdin # "open"
    BY <1>1, <2>1 DEF Replying
  <2> QED BY <1>1, <2>1, <2>2, ReplyStep
<1>3. ASSUME NEW i \in Inbounds, i # j
      PROVE  Replying(i)'
  <2> DEFINE m == [body |-> b, id |-> j]
  <2>1. m \in StdinMsgs /\ ~IsReply(m, i)
    BY <1>3 DEF StdinMsgs, MsgIds, Bodies, IsReply
  <2>2. stdinQ' = stdinQ \/ stdinQ' = Append(stdinQ, m)
    BY <1>1 DEF Send
  <2>3. Replying(i) /\ pc'[i] = pc[i] /\ body'[i] = body[i]
    BY <1>1, <1>3 DEF RepliesInv, TypeOK, DataType, CoroutineType, Writers
  <2> QED BY <1>1, <2>1, <2>2, <2>3, QuietStep
<1>4. \A c \in Callers : body'[c] = body[c]
  BY <1>1, InboundsAreNotCallers DEF TypeOK, DataType, CoroutineType, Writers
<1> QED BY <1>2, <1>3, <1>4 DEF RepliesInv

LEMMA ReadReplies ==
  ASSUME TypeOK, RepliesInv, ChildReads
  PROVE  RepliesInv'
<1> USE DEF coros
<1>0. stdinQ \in Seq(StdinMsgs) /\ stdinQ # <<>> /\ stdinQ' = Tail(stdinQ)
  BY DEF ChildReads, TypeOK, DataType, PipeType
<1>1. ASSUME NEW i \in Inbounds
      PROVE  Replying(i)'
  <2>1. replies'[i] = IF IsReply(Head(stdinQ), i) THEN replies[i] + 1 ELSE replies[i]
    BY DEF ChildReads, IsReply
  <2>2. Replying(i) /\ pc'[i] = pc[i] /\ body'[i] = body[i] /\ stdin' = stdin
    BY DEF ChildReads, RepliesInv
  <2>3. AtMostOne(stdinQ', replies'[i], i)
    BY <1>0, <2>1, <2>2, ReplyRead DEF Replying
  <2>4. Absent(stdinQ, replies[i], i) => Absent(stdinQ', replies'[i], i)
    BY <1>0, <2>1, ReplyRead
  <2> QED BY <2>2, <2>3, <2>4 DEF Replying
<1> QED BY <1>1 DEF ChildReads, RepliesInv

\* The reader starts a task for a request that nothing was replied to yet.
LEMMA SpawnReplies ==
  ASSUME TypeOK, RepliesInv, AskedInv, DispatchInbound
  PROVE  RepliesInv'
<1> USE DEF history
<1>1. PICK j \in Inbounds : j = Head(stdoutQ).id /\ pc[j] = "idle"
  <2>1. stdoutQ \in Seq(StdoutMsgs) /\ stdoutQ # <<>> /\ Head(stdoutQ).kind \in Methods
    BY DEF DispatchInbound, NextLine, TypeOK, DataType, PipeType
  <2>2. 1 \in 1 .. Len(stdoutQ) /\ Head(stdoutQ) = stdoutQ[1]
    BY <2>1
  <2> QED BY <2>1, <2>2 DEF AskedInv, StdoutMsgs
<1>2. /\ stdinQ' = stdinQ /\ replies' = replies /\ stdin' = stdin
      /\ \A w \in Writers : w # j => pc'[w] = pc[w] /\ body'[w] = body[w]
      /\ pc'[j] \in {"handler", "reply"}
      /\ pc'[j] = "reply" => body'[j] \in ReplyBodies
  BY <1>1 DEF DispatchInbound, TypeOK, DataType, CoroutineType, Writers, ReplyBodies
<1>3. ASSUME NEW i \in Inbounds, i # j
      PROVE  Replying(i)'
  BY <1>2, <1>3, QuietStep DEF RepliesInv, Writers
<1>4. Replying(j)'
  BY <1>1, <1>2 DEF RepliesInv, Replying
<1>5. \A c \in Callers : body'[c] = body[c]
  BY <1>1, <1>2, InboundsAreNotCallers DEF Writers
<1> QED BY <1>3, <1>4, <1>5 DEF RepliesInv


\* The other steps write nothing to stdin and move no task.
LEMMA StillReplies ==
  ASSUME TypeOK, RepliesInv,
         \/ RegistryStep \/ WatcherReaps \/ CloseStep \/ StdinLost \/ UNCHANGED vars
         \/ ReaderStep /\ ~DispatchInbound
         \/ ChildStep /\ ~ChildReads
  PROVE  RepliesInv'
<1> USE DEF pipes, coros, history
<1>1. UNCHANGED <<pc, body, replies, stdinQ>> /\ (stdin' = stdin \/ stdin' # "open")
  <2>1. CASE RegistryStep \/ StdinLost \/ WatcherReaps
    BY <2>1 DEF RegistryStep, Subscribe, Unsubscribe, SetInboundRequestHandler, StdinLost,
       WatcherReaps
  <2>2. CASE CloseStep
    BY <2>2 DEF CloseStep, Close, CloseFlushed, CloseKills, CloseReturns
  <2>3. CASE ReaderStep /\ ~DispatchInbound
    BY <2>3 DEF ReaderStep, DispatchResponse, DispatchNotification, SkipLine, ReaderRaises,
       ReaderEOF
  <2>4. CASE ChildStep /\ ~ChildReads
    BY <2>4 DEF ChildStep, ChildAnswers, ChildNotifies, ChildAsks, ChildWritesOther, Emit,
       ChildClosesStdout, ChildExits, ChildHangs
  <2>5. CASE UNCHANGED vars
    BY <2>5 DEF vars
  <2> QED BY <2>1, <2>2, <2>3, <2>4, <2>5
<1>2. ASSUME NEW i \in Inbounds
      PROVE  Replying(i)'
  BY <1>1, QuietStep DEF RepliesInv
<1> QED BY <1>1, <1>2 DEF RepliesInv

LEMMA NextReplies ==
  ASSUME TypeOK, RepliesInv, AskedInv, [Next]_vars
  PROVE  RepliesInv'
BY CallerReplies, WriterReplies, InboundReplies, ReadReplies, SpawnReplies, StillReplies,
   Zenon DEF Next

-----------------------------------------------------------------------------
(* The child's requests and the tasks they start.                          *)

\* Only the reader moves a task out of "idle".
LEMMA IdleStep ==
  ASSUME TypeOK, RepliesInv, [Next]_vars, NEW i \in Inbounds, pc[i] = "idle",
         pc'[i] # "idle"
  PROVE  DispatchInbound /\ Head(stdoutQ).id = i
<1> USE DEF coros, TypeOK, DataType, CoroutineType, Writers
<1>1. ASSUME NEW c \in Callers, CallerStep(c)
      PROVE  pc'[i] = pc[i]
  BY <1>1, InboundsAreNotCallers DEF CallerStep, Request, Notify, Timeout, Resume,
     CallerCancelled
<1>2. ASSUME NEW w \in Writers, WriterStep(w)
      PROVE  pc'[i] = pc[i]
  BY <1>2 DEF WriterStep, LockGranted, DrainReturns, DrainRaises
<1>3. ASSUME NEW j \in Inbounds, InboundStep(j)
      PROVE  pc'[i] = pc[i]
  BY <1>3 DEF InboundStep, Reply, HandlerEnds
<1>4. CASE RegistryStep \/ StdinLost \/ WatcherReaps
  BY <1>4 DEF RegistryStep, Subscribe, Unsubscribe, SetInboundRequestHandler, StdinLost,
     WatcherReaps
<1>5. CASE CloseStep
  BY <1>5 DEF CloseStep, Close, CloseFlushed, CloseKills, CloseReturns
<1>6. CASE ReaderStep
  BY <1>6 DEF ReaderStep, DispatchResponse, DispatchNotification, DispatchInbound, SkipLine,
     ReaderRaises, ReaderEOF
<1>7. CASE ChildStep
  BY <1>7 DEF ChildStep, ChildReads, ChildAnswers, ChildNotifies, ChildAsks,
     ChildWritesOther, Emit, ChildClosesStdout, ChildExits, ChildHangs
<1>8. CASE UNCHANGED vars
  BY <1>8 DEF vars
<1> QED BY <1>1, <1>2, <1>3, <1>4, <1>5, <1>6, <1>7, <1>8, Zenon DEF Next

\* What the child writes, and what the reader takes.
LEMMA StdoutStep ==
  ASSUME TypeOK, [Next]_vars
  PROVE  \/ asked' = asked /\ stdoutQ' = stdoutQ
         \/ asked' = asked /\ stdoutQ # <<>> /\ stdoutQ' = Tail(stdoutQ)
         \/ \E m \in StdoutMsgs : /\ stdoutQ' = Append(stdoutQ, m)
                                  /\ m.kind \notin Methods
                                  /\ asked' = asked
         \/ \E m \in StdoutMsgs : /\ stdoutQ' = Append(stdoutQ, m)
                                  /\ m.kind \in Methods /\ m.id \notin asked
                                  /\ asked' = asked \cup {m.id}
<1> USE DEF pipes, peer
<1>1. CASE \E c \in Callers : CallerStep(c)
  BY <1>1, Zenon DEF CallerStep, Request, Notify, Timeout, Resume, CallerCancelled
<1>2. CASE \E w \in Writers : WriterStep(w)
  BY <1>2, Zenon DEF WriterStep, LockGranted, DrainReturns, DrainRaises
<1>3. CASE \E i \in Inbounds : InboundStep(i)
  BY <1>3, Zenon DEF InboundStep, Reply, HandlerEnds
<1>4. CASE RegistryStep \/ StdinLost \/ WatcherReaps
  BY <1>4, Zenon DEF RegistryStep, Subscribe, Unsubscribe, SetInboundRequestHandler,
     StdinLost, WatcherReaps
<1>5. CASE CloseStep
  BY <1>5, Zenon DEF CloseStep, Close, CloseFlushed, CloseKills, CloseReturns
<1>6. CASE ReaderStep
  BY <1>6, Zenon DEF ReaderStep, DispatchResponse, DispatchNotification, DispatchInbound,
     SkipLine, ReaderRaises, ReaderEOF, NextLine
<1>7. ASSUME NEW i \in Ids, NEW kind \in Answers, ChildAnswers(i, kind)
      PROVE  \E m \in StdoutMsgs : /\ stdoutQ' = Append(stdoutQ, m)
                                   /\ m.kind \notin Methods
                                   /\ asked' = asked
  <2> DEFINE m == [kind |-> kind, id |-> i]
  <2>1. m \in StdoutMsgs /\ m.kind \notin Methods
    BY AppServerAssumption DEF StdoutMsgs, MsgIds, Lines, Methods, Answers, Ids
  <2> QED BY <1>7, <2>1 DEF ChildAnswers, Emit
<1>8. CASE ChildNotifies
  <2> DEFINE m == [kind |-> "note", id |-> sent + 1]
  <2>1. m \in StdoutMsgs /\ m.kind \notin Methods
    BY DEF StdoutMsgs, MsgIds, Lines, Methods, Answers, TypeOK, DataType, PeerType
  <2> QED BY <1>8, <2>1 DEF ChildNotifies, Emit
<1>9. ASSUME NEW kind \in {"junk", "fatal"}, ChildWritesOther(kind)
      PROVE  \E m \in StdoutMsgs : /\ stdoutQ' = Append(stdoutQ, m)
                                   /\ m.kind \notin Methods
                                   /\ asked' = asked
  <2> DEFINE m == [kind |-> kind, id |-> 0]
  <2>1. m \in StdoutMsgs /\ m.kind \notin Methods
    BY DEF StdoutMsgs, MsgIds, Lines, Methods, Answers
  <2> QED BY <1>9, <2>1 DEF ChildWritesOther, Emit
<1>10. ASSUME NEW i \in Inbounds, NEW kind \in Methods, ChildAsks(i, kind)
       PROVE  \E m \in StdoutMsgs : /\ stdoutQ' = Append(stdoutQ, m)
                                    /\ m.kind \in Methods /\ m.id \notin asked
                                    /\ asked' = asked \cup {m.id}
  <2> DEFINE m == [kind |-> kind, id |-> i]
  <2>1. m \in StdoutMsgs
    BY DEF StdoutMsgs, MsgIds, Lines, Methods, Answers
  <2> QED BY <1>10, <2>1 DEF ChildAsks, Emit
<1>11. CASE ChildReads \/ ChildClosesStdout \/ ChildExits \/ ChildHangs
  BY <1>11 DEF ChildReads, ChildClosesStdout, ChildExits, ChildHangs
<1>12. CASE UNCHANGED vars
  BY <1>12 DEF vars
<1> QED BY <1>1, <1>2, <1>3, <1>4, <1>5, <1>6, <1>7, <1>8, <1>9, <1>10, <1>11, <1>12, Zenon
        DEF Next, ChildStep


LEMMA NextAsked ==
  ASSUME TypeOK, RepliesInv, AskedInv, [Next]_vars
  PROVE  AskedInv'
<1> DEFINE q == stdoutQ
           n == Len(stdoutQ)
<1>0. q \in Seq(StdoutMsgs) /\ n \in Nat
  BY DEF TypeOK, DataType, PipeType
<1>1. ASSUME NEW i \in Inbounds, pc[i] = "idle", pc'[i] # "idle"
      PROVE  /\ stdoutQ' = Tail(q) /\ n > 0
             /\ q[1].id = i /\ q[1].kind \in Methods
  <2>1. DispatchInbound /\ Head(q).id = i
    BY <1>1, IdleStep
  <2>2. q # <<>> /\ stdoutQ' = Tail(q) /\ Head(q).kind \in Methods
    BY <2>1 DEF DispatchInbound, NextLine
  <2> QED BY <1>0, <2>1, <2>2
<1>2. \A i \in Inbounds : i \notin asked' => pc'[i] = "idle"
  <2> SUFFICES ASSUME NEW i \in Inbounds, i \notin asked' PROVE pc'[i] = "idle"
    OBVIOUS
  <2>1. asked \subseteq asked'
    BY StdoutStep
  <2>2. pc[i] = "idle"
    BY <2>1 DEF AskedInv
  <2> QED BY <1>0, <1>1, <2>1, <2>2 DEF AskedInv
<1>3. ASSUME asked' = asked, stdoutQ' = q
      PROVE  AskedInv'
  <2>1. ASSUME NEW k \in 1 .. n, q[k].kind \in Methods
        PROVE  q[k].id \in asked /\ pc'[q[k].id] = "idle"
    <3>1. q[k] \in StdoutMsgs
      BY <1>0
    <3>2. q[k].id \in Inbounds /\ pc[q[k].id] = "idle" /\ q[k].id \in asked
      BY <2>1, <3>1 DEF AskedInv, StdoutMsgs
    <3>3. n > 0 => Tail(q) # q
      <4>1. n > 0 => Len(Tail(q)) = n - 1
        BY <1>0
      <4> QED BY <1>0, <4>1
    <3> QED BY <1>1, <1>3, <3>2, <3>3
  <2> QED BY <1>2, <1>3, <2>1 DEF AskedInv
<1>4. ASSUME asked' = asked, q # <<>>, stdoutQ' = Tail(q)
      PROVE  AskedInv'
  <2> DEFINE t == Tail(q)
  <2>1. /\ Len(t) = n - 1
        /\ \A k \in 1 .. Len(t) : t[k] = q[k + 1] /\ k + 1 \in 1 .. n /\ k + 1 # 1
        /\ 1 \in 1 .. n
    BY <1>0, <1>4
  <2> HIDE DEF t
  <2>2. ASSUME NEW k \in 1 .. Len(t), t[k].kind \in Methods
        PROVE  t[k].id \in asked /\ pc'[t[k].id] = "idle"
    <3>1. t[k] \in StdoutMsgs
      BY <1>0, <2>1
    <3>2. t[k].id \in Inbounds /\ pc[t[k].id] = "idle" /\ t[k].id \in asked
      <4>1. t[k] = q[k + 1] /\ k + 1 \in 1 .. Len(stdoutQ)
        BY <2>1
      <4>2. pc[t[k].id] = "idle" /\ t[k].id \in asked
        BY <2>2, <4>1 DEF AskedInv
      <4>3. t[k].id \in Inbounds
        BY <2>2, <3>1 DEF StdoutMsgs
      <4> QED BY <4>2, <4>3
    <3>3. ~(q[1].id = t[k].id /\ q[1].kind \in Methods)
      <4>1. t[k] = q[k + 1] /\ k + 1 \in 1 .. Len(stdoutQ) /\ 1 \in 1 .. Len(stdoutQ)
        BY <2>1
      <4>2. q[k + 1].kind \in Methods /\ k + 1 # 1
        BY <2>1, <2>2, <4>1
      <4> QED BY <4>1, <4>2 DEF AskedInv
    <3> QED BY <1>1, <3>2, <3>3
  <2>3. ASSUME NEW k \in 1 .. Len(t), NEW l \in 1 .. Len(t),
               t[k].kind \in Methods, t[l].kind \in Methods, t[k].id = t[l].id
        PROVE  k = l
    <3>1. /\ t[k] = q[k + 1] /\ k + 1 \in 1 .. Len(stdoutQ)
          /\ t[l] = q[l + 1] /\ l + 1 \in 1 .. Len(stdoutQ)
      BY <2>1
    <3>2. k + 1 = l + 1
      BY <2>3, <3>1 DEF AskedInv
    <3> QED BY <3>2
  <2>4. stdoutQ' = t
    BY <1>4 DEF t
  <2> QED BY <1>2, <1>4, <2>2, <2>3, <2>4 DEF AskedInv
<1>5. ASSUME NEW m \in StdoutMsgs, stdoutQ' = Append(q, m),
             m.kind \in Methods => m.id \notin asked /\ m.id \in asked',
             asked \subseteq asked'
      PROVE  AskedInv'
  <2> DEFINE a == Append(q, m)
  <2>1. /\ Len(a) = n + 1
        /\ \A k \in 1 .. n : a[k] = q[k]
        /\ a[n + 1] = m
        /\ \A k \in 1 .. Len(a) : k \in 1 .. n \/ k = n + 1
        /\ n > 0 => Len(Tail(q)) = n - 1
    BY <1>0
  <2>2. \A i \in Inbounds : pc[i] = "idle" => pc'[i] = "idle"
    BY <1>0, <1>1, <1>5, <2>1
  <2> HIDE DEF a
  <2>3. ASSUME NEW k \in 1 .. n, q[k].kind \in Methods
        PROVE  q[k].id \in asked /\ pc'[q[k].id] = "idle"
    <3>1. q[k] \in StdoutMsgs
      BY <1>0
    <3> QED BY <2>2, <2>3, <3>1 DEF AskedInv, StdoutMsgs
  <2>4. m.kind \in Methods => m.id \in asked' /\ pc'[m.id] = "idle"
    BY <1>5, <2>2 DEF AskedInv, StdoutMsgs
  <2>5. ASSUME NEW k \in 1 .. Len(a), a[k].kind \in Methods
        PROVE  a[k].id \in asked' /\ pc'[a[k].id] = "idle"
    BY <1>5, <2>1, <2>3, <2>4, <2>5
  <2>6. ASSUME NEW k \in 1 .. Len(a), NEW l \in 1 .. Len(a),
               a[k].kind \in Methods, a[l].kind \in Methods, a[k].id = a[l].id
        PROVE  k = l
    BY <1>5, <2>1, <2>3, <2>6 DEF AskedInv
  <2>7. stdoutQ' = a
    BY <1>5 DEF a
  <2> QED BY <1>2, <2>5, <2>6, <2>7 DEF AskedInv
<1> QED BY <1>3, <1>4, <1>5, StdoutStep

LEMMA NextTasks ==
  ASSUME TypeOK, SessionInv, TasksInv, [Next]_vars
  PROVE  TasksInv'
<1> USE DEF TasksInv, CloseFailedPending, tasks
<1>1. CASE (\E c \in Callers : CallerStep(c)) \/ (\E w \in Writers : WriterStep(w))
  BY <1>1 DEF CallerStep, Request, Notify, Timeout, Resume, CallerCancelled, WriterStep,
     LockGranted, DrainReturns, DrainRaises
<1>2. CASE (\E i \in Inbounds : InboundStep(i)) \/ RegistryStep \/ StdinLost
  BY <1>2 DEF InboundStep, Reply, HandlerEnds, RegistryStep, Subscribe, Unsubscribe,
     SetInboundRequestHandler, StdinLost
<1>3. CASE ReaderStep \/ WatcherReaps
  BY <1>3 DEF ReaderStep, DispatchResponse, DispatchNotification, DispatchInbound, SkipLine,
     ReaderRaises, ReaderEOF, WatcherReaps
<1>4. CASE CloseStep
  BY <1>4 DEF CloseStep, Close, CloseFlushed, CloseKills, CloseReturns, CancelAndFail
<1>5. CASE ChildStep
  BY <1>5 DEF ChildStep, ChildReads, ChildAnswers, ChildNotifies, ChildAsks,
     ChildWritesOther, Emit, ChildClosesStdout, ChildExits, ChildHangs
<1>6. CASE UNCHANGED vars
  BY <1>6 DEF vars
<1> QED BY <1>1, <1>2, <1>3, <1>4, <1>5, <1>6, Zenon DEF Next

InboundInv == TypeOK /\ SessionInv /\ RepliesInv /\ AskedInv /\ TasksInv

\* The invariant behind the two theorems below: a task that has yet to write has
\* no reply under way, there is one task per request, and close() stops both tasks.
THEOREM InboundInvariant == Spec => []InboundInv
<1>1. Init => InboundInv
  BY InitType, InitInv, InitInbound DEF InboundInv
<1>2. InboundInv /\ [Next]_vars => InboundInv'
  BY TypeStep, InvStep, NextReplies, NextAsked, NextTasks DEF InboundInv
<1> QED BY <1>1, <1>2, PTL DEF Spec

\* The child gets at most one reply, result or error, to each of its requests,
\* however a write fails between the handler's result and the error reported for it.
THEOREM RepliedOnce == Spec => []InboundRepliedOnce
<1>1. ASSUME InboundInv, NEW i \in Inbounds
      PROVE  replies[i] + Cardinality({k \in DOMAIN stdinQ :
                 stdinQ[k].body \in ReplyBodies /\ stdinQ[k].id = i}) <= 1
  <2> DEFINE K == {k \in DOMAIN stdinQ : IsReply(stdinQ[k], i)}
  <2>1. AtMostOne(stdinQ, replies[i], i)
    BY <1>1 DEF InboundInv, RepliesInv, Replying
  <2>2. DOMAIN stdinQ = 1 .. Len(stdinQ)
    BY <1>1 DEF InboundInv, TypeOK, DataType, PipeType
  <2>3. CASE K = {}
    <3>1. replies[i] \in {0, 1}
      BY <2>1 DEF AtMostOne
    <3>2. Cardinality(K) = 0
      BY <2>3, FS_EmptySet
    <3> QED BY <3>1, <3>2 DEF IsReply
  <2>4. CASE K # {}
    <3>1. PICK k \in K : TRUE
      BY <2>4
    <3>2. K = {k} /\ replies[i] = 0
      BY <2>1, <2>2, <3>1 DEF AtMostOne
    <3>3. Cardinality({k}) = 1
      BY FS_Singleton
    <3> QED BY <3>2, <3>3 DEF IsReply
  <2> QED BY <2>3, <2>4
<1>2. InboundInv => InboundRepliedOnce
  BY <1>1 DEF InboundRepliedOnce
<1> QED BY <1>2, InboundInvariant, PTL

\* Once close() has failed the pending requests, no subscriber is called, no task
\* starts for a request of the child, and no cause of death is recorded.
THEOREM ClosedIsSilent == Spec => SilentAfterClose
<1> DEFINE Silent == CloseFailedPending =>
                       /\ heard' = heard
                       /\ dead' = dead
                       /\ \A i \in Inbounds : pc[i] = "idle" => pc'[i] = "idle"
<1>1. ASSUME InboundInv, [Next]_vars
      PROVE  Silent
  <2> SUFFICES ASSUME CloseFailedPending
               PROVE  /\ heard' = heard
                      /\ dead' = dead
                      /\ \A i \in Inbounds : pc[i] = "idle" => pc'[i] = "idle"
    OBVIOUS
  <2>0. ~ReaderStep /\ ~WatcherReaps
    BY <1>1 DEF InboundInv, TasksInv, ReaderStep, DispatchResponse, DispatchNotification,
       DispatchInbound, SkipLine, ReaderRaises, ReaderEOF, NextLine, WatcherReaps
  <2>1. heard' = heard /\ dead' = dead
    <3> USE DEF session, history
    <3>1. CASE (\E c \in Callers : CallerStep(c)) \/ (\E w \in Writers : WriterStep(w))
      BY <3>1 DEF CallerStep, Request, Notify, Timeout, Resume, CallerCancelled,
         WriterStep, LockGranted, DrainReturns, DrainRaises
    <3>2. CASE (\E i \in Inbounds : InboundStep(i)) \/ RegistryStep \/ StdinLost
      BY <3>2 DEF InboundStep, Reply, HandlerEnds, RegistryStep, Subscribe, Unsubscribe,
         SetInboundRequestHandler, StdinLost
    <3>3. CASE CloseStep
      BY <3>3 DEF CloseStep, Close, CloseFlushed, CloseKills, CloseReturns
    <3>4. CASE ChildStep
      BY <3>4 DEF ChildStep, ChildReads, ChildAnswers, ChildNotifies, ChildAsks,
         ChildWritesOther, Emit, ChildClosesStdout, ChildExits, ChildHangs
    <3>5. CASE UNCHANGED vars
      BY <3>5 DEF vars
    <3> QED BY <1>1, <2>0, <3>1, <3>2, <3>3, <3>4, <3>5, Zenon DEF Next
  <2>2. \A i \in Inbounds : pc[i] = "idle" => pc'[i] = "idle"
    BY <1>1, <2>0, IdleStep DEF InboundInv, ReaderStep
  <2> QED BY <2>1, <2>2
<1>2. InboundInv /\ [Next]_vars => [Silent]_vars
  BY <1>1
<1> QED BY <1>2, InboundInvariant, PTL DEF SilentAfterClose, Spec
=============================================================================
