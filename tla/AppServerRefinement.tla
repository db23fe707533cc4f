------------------------ MODULE AppServerRefinement ------------------------
(***************************************************************************)
(* AppServer implements OneShotRpc, for any number of callers, inbound     *)
(* requests and subscribers, any pipe capacity and any bounds.             *)
(*                                                                         *)
(* What has to be known beyond SessionInv is AnswerInv: where the answer   *)
(* that a future will get stands in the child's output.  Part 1 shows that *)
(* AnswerInv is inductive, part 2 maps every step.                         *)
(***************************************************************************)
EXTENDS AppServerProofs

\* The first of the lines q that answers request i is of this kind.
AnswersAt(q, k, i) == q[k].kind \in Answers /\ q[k].id = i
FirstAnswer(q, i, kind) ==
    \E k \in 1 .. Len(q) : /\ AnswersAt(q, k, i)
                           /\ q[k].kind = kind
                           /\ \A j \in 1 .. k - 1 : ~AnswersAt(q, j, i)
NoAnswer(q, i) == \A k \in 1 .. Len(q) : ~AnswersAt(q, k, i)

\* Only ids that request() has allocated reach the child, and only what the
\* child has read is answered.
AskedIds ==
    /\ \A i \in Inbounds : body[i] # "request"
    /\ \A k \in 1 .. Len(stdinQ) :
          stdinQ[k].body = "request" => stdinQ[k].id \in 1 .. nextId - 1
    /\ seen \subseteq 1 .. nextId - 1
    /\ \A i \in Ids : firstOut[i] # "none" => i < nextId
    /\ \A i \in Ids : firstOut[i] = "none" => NoAnswer(stdoutQ, i)

\* A future that can still be answered has its first answer ahead of it.
AnswerDue ==
    \A i \in Ids : Answerable(i) /\ firstOut[i] # "none" =>
                      FirstAnswer(stdoutQ, i, firstOut[i])

\* What has been answered was answered with the first answer.
AnsweredFirst ==
    /\ \A i \in Ids : fut[i] \in Answers => fut[i] = firstOut[i]
    /\ FirstAnswerWins

\* A call in flight has no outcome, nor has an id not yet allocated.
OpenCalls ==
    /\ \A c \in Callers : InRequest(c) => outcome[rid[c]] = "none"
    /\ \A i \in Ids : i >= nextId => outcome[i] = "none"

AnswerInv == AskedIds /\ AnswerDue /\ AnsweredFirst /\ OpenCalls

-----------------------------------------------------------------------------
(* Part 1: AnswerInv is inductive.                                         *)

LEMMA AnswerAtHead ==
  ASSUME NEW q \in Seq(StdoutMsgs), q # <<>>, NEW i, NEW kind,
         FirstAnswer(q, i, kind), AnswersAt(q, 1, i)
  PROVE  q[1].kind = kind
  BY DEF FirstAnswer

LEMMA AnswerBehindHead ==
  ASSUME NEW q \in Seq(StdoutMsgs), q # <<>>, NEW i, ~AnswersAt(q, 1, i)
  PROVE  /\ NoAnswer(q, i) => NoAnswer(Tail(q), i)
         /\ \A kind : FirstAnswer(q, i, kind) => FirstAnswer(Tail(q), i, kind)
<1>1. ASSUME NEW kind, FirstAnswer(q, i, kind)
      PROVE  FirstAnswer(Tail(q), i, kind)
  <2>1. PICK k \in 1 .. Len(q) : /\ AnswersAt(q, k, i) /\ q[k].kind = kind
                                 /\ \A j \in 1 .. k - 1 : ~AnswersAt(q, j, i)
    BY <1>1 DEF FirstAnswer
  <2>2. k - 1 \in 1 .. Len(Tail(q)) /\ Tail(q)[k - 1] = q[k]
    BY <2>1
  <2>3. \A j \in 1 .. k - 2 : Tail(q)[j] = q[j + 1] /\ j + 1 \in 1 .. k - 1
    BY <2>1
  <2> QED BY <2>1, <2>2, <2>3 DEF FirstAnswer, AnswersAt
<1>2. NoAnswer(q, i) => NoAnswer(Tail(q), i)
  BY DEF NoAnswer, AnswersAt
<1> QED BY <1>1, <1>2

LEMMA AnswerAppended ==
  ASSUME NEW q \in Seq(StdoutMsgs), NEW m \in StdoutMsgs, NEW i
  PROVE  /\ \A kind : FirstAnswer(q, i, kind) => FirstAnswer(Append(q, m), i, kind)
         /\ NoAnswer(q, i) /\ ~(m.kind \in Answers /\ m.id = i)
               => NoAnswer(Append(q, m), i)
         /\ NoAnswer(q, i) /\ m.kind \in Answers /\ m.id = i
               => FirstAnswer(Append(q, m), i, m.kind)
<1>0. /\ Len(Append(q, m)) = Len(q) + 1 /\ Append(q, m)[Len(q) + 1] = m
      /\ \A k \in 1 .. Len(q) : Append(q, m)[k] = q[k]
  OBVIOUS
<1>1. ASSUME NEW kind, FirstAnswer(q, i, kind)
      PROVE  FirstAnswer(Append(q, m), i, kind)
  <2>1. PICK k \in 1 .. Len(q) : /\ AnswersAt(q, k, i) /\ q[k].kind = kind
                                 /\ \A j \in 1 .. k - 1 : ~AnswersAt(q, j, i)
    BY <1>1 DEF FirstAnswer
  <2> QED BY <1>0, <2>1 DEF FirstAnswer, AnswersAt
<1>2. NoAnswer(q, i) /\ ~(m.kind \in Answers /\ m.id = i) => NoAnswer(Append(q, m), i)
  BY <1>0 DEF NoAnswer, AnswersAt
<1>3. ASSUME NoAnswer(q, i), m.kind \in Answers, m.id = i
      PROVE  FirstAnswer(Append(q, m), i, m.kind)
  <2>1. Len(q) + 1 \in 1 .. Len(Append(q, m))
    BY <1>0
  <2> QED BY <1>0, <1>3, <2>1 DEF FirstAnswer, NoAnswer, AnswersAt
<1> QED BY <1>1, <1>2, <1>3

\* What a step does to the child's output.
OutputStep ==
    \/ UNCHANGED <<stdoutQ, firstOut>>
    \/ DispatchResponse
    \/ /\ stdoutQ # <<>> /\ stdoutQ' = Tail(stdoutQ)
       /\ Head(stdoutQ).kind \notin Answers
       /\ UNCHANGED firstOut
    \/ \E i \in Ids, kind \in Answers : ChildAnswers(i, kind)
    \/ /\ \E m \in StdoutMsgs : m.kind \notin Answers /\ stdoutQ' = Append(stdoutQ, m)
       /\ UNCHANGED firstOut

LEMMA OutputSteps ==
  ASSUME TypeOK, [Next]_vars
  PROVE  OutputStep
<1> USE DEF OutputStep
<1>1. ASSUME NEW c \in Callers, CallerStep(c)
      PROVE  OutputStep
  BY <1>1 DEF CallerStep, Request, Notify, Timeout, Resume, CallerCancelled, pipes, history
<1>2. ASSUME NEW w \in Writers, WriterStep(w)
      PROVE  OutputStep
  BY <1>2 DEF WriterStep, LockGranted, DrainReturns, DrainRaises, pipes, history
<1>3. CASE (\E i \in Inbounds : InboundStep(i)) \/ RegistryStep \/ StdinLost
  BY <1>3 DEF InboundStep, Reply, HandlerEnds, RegistryStep, Subscribe, Unsubscribe,
     SetInboundRequestHandler, StdinLost, pipes, history
<1>4. CASE ReaderStep \/ WatcherReaps
  BY <1>4 DEF ReaderStep, DispatchNotification, DispatchInbound, SkipLine, ReaderRaises,
     ReaderEOF, WatcherReaps, NextLine, Answers, Methods, pipes, history
<1>5. CASE CloseStep
  BY <1>5 DEF CloseStep, Close, CloseFlushed, CloseKills, CloseReturns, pipes, history
<1>6. CASE ChildReads \/ ChildClosesStdout \/ ChildExits \/ ChildHangs
  BY <1>6 DEF ChildReads, ChildClosesStdout, ChildExits, ChildHangs, pipes, history
<1>7. ASSUME NEW kind \in Lines \ Answers, NEW id,
             [kind |-> kind, id |-> id] \in StdoutMsgs, Emit(kind, id), UNCHANGED firstOut
      PROVE  OutputStep
  BY <1>7 DEF Emit
<1>8. CASE ChildNotifies
  <2>1. [kind |-> "note", id |-> sent + 1] \in StdoutMsgs
    BY DEF StdoutMsgs, Lines, Answers, Methods, MsgIds, TypeOK, DataType, PeerType
  <2> QED BY <1>7, <1>8, <2>1 DEF ChildNotifies, Lines, Answers
<1>9. ASSUME NEW i \in Inbounds, NEW method \in Methods, ChildAsks(i, method)
      PROVE  OutputStep
  <2>1. [kind |-> method, id |-> i] \in StdoutMsgs /\ method \in Lines \ Answers
    BY DEF Lines, Answers, Methods, MsgIds, StdoutMsgs
  <2> QED BY <1>7, <1>9, <2>1 DEF ChildAsks
<1>10. ASSUME NEW kind \in {"junk", "fatal"}, ChildWritesOther(kind)
       PROVE  OutputStep
  <2>1. [kind |-> kind, id |-> 0] \in StdoutMsgs /\ kind \in Lines \ Answers
    BY DEF Lines, Answers, Methods, MsgIds, StdoutMsgs
  <2> QED BY <1>7, <1>10, <2>1 DEF ChildWritesOther
<1>11. CASE ChildStep
  BY <1>6, <1>8, <1>9, <1>10, <1>11 DEF ChildStep
<1>12. CASE UNCHANGED vars
  BY <1>12 DEF vars, pipes, history
<1> QED BY <1>1, <1>2, <1>3, <1>4, <1>5, <1>11, <1>12 DEF Next

\* What a step other than an answer does to the futures that can be answered:
\* request() adds one for a new id, everything else only takes some away.
LEMMA AnswerableSteps ==
  ASSUME TypeOK, SessionInv, [Next]_vars, ~DispatchResponse, NEW i \in Ids
  PROVE  /\ Answerable(i)' => Answerable(i) \/ i = nextId
         /\ fut'[i] \in Answers => fut'[i] = fut[i]
<1> USE DEF Answerable, Answers, TypeOK, DataType, SessionType, session
<1>1. ASSUME NEW c \in Callers, CallerStep(c)
      PROVE  /\ Answerable(i)' => Answerable(i) \/ i = nextId
             /\ fut'[i] \in Answers => fut'[i] = fut[i]
  <2>1. CASE Request(c)
    BY <2>1 DEF Request, Ids
  <2>2. CASE Notify(c) \/ Resume(c)
    BY <2>2 DEF Notify, Resume, Popped
  <2>3. CASE Timeout(c)
    BY <2>3 DEF Timeout
  <2>4. CASE CallerCancelled(c)
    <3>1. /\ fut'[i] \in {fut[i], "cancelled"}
          /\ i \in pending' => i \in pending
      BY <2>4 DEF CallerCancelled, Popped
    <3> QED BY <3>1
  <2> QED BY <1>1, <2>1, <2>2, <2>3, <2>4 DEF CallerStep
<1>2. ASSUME NEW w \in Writers, WriterStep(w)
      PROVE  fut' = fut /\ pending' \subseteq pending
  BY <1>2 DEF WriterStep, LockGranted, DrainReturns, DrainRaises, Popped
<1>3. CASE OtherStep
  <2>1. FuturesStep
    BY <1>3, OtherOnFutures
  <2>2. fut'[i] = fut[i] \/ fut'[i] = "connError" \/ fut'[i] \in Answers
    BY <2>1 DEF FuturesStep, PendingFailed
  <2>3. fut' = fut \/ fut' = PendingFailed
    <3>1. CASE \E j \in Inbounds : InboundStep(j) \/ WriterStep(j)
      BY <3>1 DEF InboundStep, Reply, HandlerEnds, WriterStep, LockGranted,
         DrainReturns, DrainRaises
    <3>2. CASE RegistryStep \/ StdinLost
      BY <3>2 DEF RegistryStep, Subscribe, Unsubscribe, SetInboundRequestHandler, StdinLost
    <3>3. CASE ReaderStep \/ WatcherReaps
      BY <3>3 DEF ReaderStep, DispatchNotification, DispatchInbound, SkipLine,
         ReaderRaises, ReaderEOF, WatcherReaps, MarkDead
    <3>4. CASE CloseStep
      BY <3>4 DEF CloseStep, Close, CloseFlushed, CloseKills, CloseReturns, CancelAndFail
    <3>5. CASE ChildStep
      BY <3>5 DEF ChildStep, ChildReads, ChildAnswers, ChildNotifies, ChildAsks,
         ChildWritesOther, Emit, ChildClosesStdout, ChildExits, ChildHangs
    <3>6. CASE UNCHANGED vars
      BY <3>6 DEF vars
    <3> QED BY <1>3, <3>1, <3>2, <3>3, <3>4, <3>5, <3>6 DEF OtherStep
  <2> QED BY <2>1, <2>3 DEF FuturesStep, PendingFailed
<1> QED BY <1>1, <1>2, <1>3 DEF Next, OtherStep

LEMMA InitAnswers == Init => AnswerInv
<1> SUFFICES ASSUME Init PROVE AnswerInv
  OBVIOUS
<1> USE DEF Init
<1>1. AskedIds
  BY DEF AskedIds, NoAnswer, Writers
<1>2. AnswerDue
  BY DEF AnswerDue
<1>3. AnsweredFirst
  BY DEF AnsweredFirst, FirstAnswerWins, Answers
<1>4. OpenCalls
  BY DEF OpenCalls, InRequest, Writers
<1> QED BY <1>1, <1>2, <1>3, <1>4 DEF AnswerInv

\* Ids are only handed out, and only request() writes them on a request.
LEMMA AllocationSteps ==
  ASSUME TypeOK, SessionInv, AnswerInv, [Next]_vars
  PROVE  /\ nextId \in Nat /\ nextId' \in Nat /\ nextId' >= nextId
         /\ \A i \in Inbounds : body'[i] # "request"
<1> nextId \in 1 .. MaxRequests + 1 /\ MaxRequests \in Nat
  BY AppServerAssumption DEF TypeOK, DataType, SessionType
<1>1. nextId' \in Nat /\ nextId' >= nextId
  <2>1. CASE OtherStep
    BY <2>1, OtherLeavesCallers DEF CallersUnchanged
  <2>2. ASSUME NEW c \in Callers, CallerStep(c) \/ WriterStep(c)
        PROVE  nextId' \in {nextId, nextId + 1}
    BY <2>2 DEF CallerStep, Request, Notify, Timeout, Resume, CallerCancelled,
       WriterStep, LockGranted, DrainReturns, DrainRaises, session
  <2> QED BY <2>1, <2>2 DEF Next, OtherStep, Writers
<1>2. ASSUME NEW i \in Inbounds
      PROVE  body'[i] # "request"
  <2> USE DEF AnswerInv, AskedIds, TypeOK, DataType, CoroutineType, Writers, coros
  <2>1. ASSUME NEW c \in Callers, CallerStep(c)
        PROVE  body'[i] = body[i]
    BY <2>1, InboundsAreNotCallers
    DEF CallerStep, Request, Notify, Timeout, Resume, CallerCancelled
  <2>2. ASSUME NEW w \in Writers, WriterStep(w)
        PROVE  body'[i] = body[i]
    BY <2>2 DEF WriterStep, LockGranted, DrainReturns, DrainRaises
  <2>3. ASSUME NEW j \in Inbounds, InboundStep(j)
        PROVE  body'[i] # "request"
    BY <2>3 DEF InboundStep, Reply, NextBody, HandlerEnds
  <2>4. CASE ReaderStep \/ WatcherReaps
    BY <2>4 DEF ReaderStep, DispatchResponse, DispatchNotification, DispatchInbound,
       SkipLine, ReaderRaises, ReaderEOF, WatcherReaps
  <2>5. CASE RegistryStep \/ StdinLost
    BY <2>5 DEF RegistryStep, Subscribe, Unsubscribe, SetInboundRequestHandler, StdinLost
  <2>6. CASE CloseStep
    BY <2>6 DEF CloseStep, Close, CloseFlushed, CloseKills, CloseReturns
  <2>7. CASE ChildStep
    BY <2>7 DEF ChildStep, ChildReads, ChildAnswers, ChildNotifies, ChildAsks,
       ChildWritesOther, Emit, ChildClosesStdout, ChildExits, ChildHangs
  <2>8. CASE UNCHANGED vars
    BY <2>8 DEF vars
  <2> QED BY <2>1, <2>2, <2>3, <2>4, <2>5, <2>6, <2>7, <2>8 DEF Next
<1> QED BY <1>1, <1>2


LEMMA RangeGrows ==
  ASSUME NEW a \in Nat, NEW b \in Nat, b >= a
  PROVE  1 .. a - 1 \subseteq 1 .. b - 1
  OBVIOUS

LEMMA AskedStep ==
  ASSUME TypeOK, SessionInv, AnswerInv, [Next]_vars
  PROVE  AskedIds'
<1>0. /\ nextId \in Nat /\ nextId' \in Nat /\ nextId' >= nextId
      /\ \A i \in Inbounds : body'[i] # "request"
  BY AllocationSteps
<1>up. 1 .. nextId - 1 \subseteq 1 .. nextId' - 1
  BY <1>0, RangeGrows, Zenon
<1>1. stdinQ \in Seq(StdinMsgs) /\ stdoutQ \in Seq(StdoutMsgs) /\ MaxRequests \in Nat
  BY AppServerAssumption DEF TypeOK, DataType, PipeType
<1> DEFINE Allocated(q, n) ==
              \A k \in 1 .. Len(q) : q[k].body = "request" => q[k].id \in 1 .. n - 1
<1>2. Allocated(stdinQ, nextId)
  BY DEF AnswerInv, AskedIds
<1>3. ASSUME NEW m \in StdinMsgs, m.body = "request" => m.id \in 1 .. nextId' - 1,
             stdinQ' = Append(stdinQ, m) \/ stdinQ' = stdinQ
      PROVE  Allocated(stdinQ', nextId')
  <2>1. Allocated(stdinQ, nextId')
    BY <1>0, <1>2
  <2>2. CASE stdinQ' = Append(stdinQ, m)
    <3>1. /\ Len(stdinQ') = Len(stdinQ) + 1 /\ stdinQ'[Len(stdinQ) + 1] = m
          /\ \A k \in 1 .. Len(stdinQ) : stdinQ'[k] = stdinQ[k]
      BY <1>1, <2>2
    <3>2. Len(stdinQ) \in Nat
      BY <1>1
    <3>3. \A k \in 1 .. Len(stdinQ') : k \in 1 .. Len(stdinQ) \/ k = Len(stdinQ) + 1
      BY <3>1, <3>2
    <3> QED BY <1>3, <2>1, <3>1, <3>3
  <2> QED BY <1>3, <2>1, <2>2
<1>4. Allocated(stdinQ', nextId')
  <2>1. CASE stdinQ' = stdinQ
    BY <1>0, <1>2, <2>1
  <2>2. ASSUME NEW c \in Callers, Request(c)
        PROVE  Allocated(stdinQ', nextId')
    <3> DEFINE m == [body |-> "request", id |-> nextId]
    <3>1. m \in StdinMsgs /\ m.id \in 1 .. nextId' - 1
      BY <1>0, <1>1, <2>2 DEF Request, StdinMsgs, MsgIds, Bodies, OwnBodies, Ids
    <3>2. stdinQ' = Append(stdinQ, m) \/ stdinQ' = stdinQ
      BY <2>2 DEF Request, Send
    <3> QED BY <1>3, <3>1, <3>2
  <2>3. ASSUME NEW c \in Callers, Notify(c)
        PROVE  Allocated(stdinQ', nextId')
    <3> DEFINE m == [body |-> "notify", id |-> 0]
    <3>1. m \in StdinMsgs /\ m.body # "request"
      BY DEF StdinMsgs, MsgIds, Bodies, OwnBodies
    <3>2. stdinQ' = Append(stdinQ, m) \/ stdinQ' = stdinQ
      BY <2>3 DEF Notify, Send
    <3> QED BY <1>3, <3>1, <3>2
  <2>4. ASSUME NEW w \in Writers, LockGranted(w)
        PROVE  Allocated(stdinQ', nextId')
    <3>1. MessageOf(w) \in StdinMsgs
      BY MessageType DEF TypeOK
    <3>2. ASSUME MessageOf(w).body = "request"
          PROVE  MessageOf(w).id \in 1 .. nextId' - 1
      <4>1. w \in Callers /\ InRequest(w)
        BY <2>4, <3>2 DEF MessageOf, InRequest, LockGranted, AnswerInv, AskedIds, Writers
      <4>2. rid[w] \in Ids /\ rid[w] < nextId
        BY <4>1 DEF SessionInv, InFlightIds
      <4> QED BY <1>0, <1>1, <4>1, <4>2 DEF MessageOf, Ids
    <3>3. stdinQ' = Append(stdinQ, MessageOf(w)) \/ stdinQ' = stdinQ
      BY <2>4 DEF LockGranted
    <3> QED BY <1>3, <3>1, <3>2, <3>3
  <2>5. ASSUME NEW i \in Inbounds, InboundStep(i)
        PROVE  Allocated(stdinQ', nextId')
    <3>1. PICK b \in Bodies \ {"request"} : Send(i, [body |-> b, id |-> i])
      BY <2>5 DEF InboundStep, Reply, HandlerEnds, NextBody, Bodies, ReplyBodies,
         TypeOK, DataType, CoroutineType, Writers, AnswerInv, AskedIds
    <3> DEFINE m == [body |-> b, id |-> i]
    <3>2. m \in StdinMsgs /\ m.body # "request"
      BY DEF StdinMsgs, MsgIds
    <3>3. stdinQ' = Append(stdinQ, m) \/ stdinQ' = stdinQ
      BY <3>1 DEF Send
    <3> QED BY <1>3, <3>2, <3>3
  <2>6. CASE ChildReads
    <3>1. stdinQ # <<>> /\ stdinQ' = Tail(stdinQ)
      BY <2>6 DEF ChildReads
    <3> QED BY <1>0, <1>1, <1>2, <3>1
  <2>7. \/ stdinQ' = stdinQ \/ ChildReads
        \/ \E c \in Callers : Request(c) \/ Notify(c)
        \/ \E w \in Writers : LockGranted(w)
        \/ \E i \in Inbounds : InboundStep(i)
    BY DEF Next, CallerStep, Timeout, Resume, CallerCancelled, WriterStep, DrainReturns,
       DrainRaises, RegistryStep, Subscribe, Unsubscribe, SetInboundRequestHandler,
       StdinLost, ReaderStep, DispatchResponse, DispatchNotification, DispatchInbound,
       SkipLine, ReaderRaises, ReaderEOF, WatcherReaps, CloseStep, Close, CloseFlushed,
       CloseKills, CloseReturns, ChildStep, ChildAnswers, ChildNotifies, ChildAsks,
       ChildWritesOther, Emit, ChildClosesStdout, ChildExits, ChildHangs, vars, pipes
  <2> QED BY <2>1, <2>2, <2>3, <2>4, <2>5, <2>6, <2>7
<1>5. seen' \subseteq 1 .. nextId' - 1
  <2>1. seen \subseteq 1 .. nextId - 1
    BY DEF AnswerInv, AskedIds
  <2>2. CASE ChildReads
    <3>1. stdinQ # <<>> /\ seen' \subseteq seen \cup
             (IF Head(stdinQ).body = "request" THEN {Head(stdinQ).id} ELSE {})
      BY <2>2 DEF ChildReads
    <3>2. Head(stdinQ).body = "request" => Head(stdinQ).id \in 1 .. nextId - 1
      BY <1>1, <1>2, <3>1
    <3> QED BY <1>up, <2>1, <3>1, <3>2
  <2>3. CASE ~ChildReads
    <3>1. seen' = seen
      BY <2>3 DEF Next, CallerStep, Request, Notify, Timeout, Resume, CallerCancelled,
         WriterStep, LockGranted, DrainReturns, DrainRaises, InboundStep, Reply,
         HandlerEnds, RegistryStep, Subscribe, Unsubscribe, SetInboundRequestHandler,
         StdinLost, ReaderStep, DispatchResponse, DispatchNotification,
         DispatchInbound, SkipLine, ReaderRaises, ReaderEOF, WatcherReaps, CloseStep,
         Close, CloseFlushed, CloseKills, CloseReturns, ChildStep, ChildAnswers,
         ChildNotifies, ChildAsks, ChildWritesOther, Emit, ChildClosesStdout,
         ChildExits, ChildHangs, vars, peer
    <3> QED BY <1>up, <2>1, <3>1
  <2> QED BY <2>2, <2>3
<1>6. ASSUME NEW i \in Ids
      PROVE  /\ firstOut'[i] # "none" => i < nextId'
             /\ firstOut'[i] = "none" => NoAnswer(stdoutQ', i)
  <2>0. /\ firstOut[i] # "none" => i < nextId
        /\ firstOut[i] = "none" => NoAnswer(stdoutQ, i)
        /\ i \in Nat
    BY <1>1 DEF AnswerInv, AskedIds, Ids
  <2>1. CASE UNCHANGED <<stdoutQ, firstOut>>
    BY <1>0, <2>0, <2>1
  <2>2. ASSUME stdoutQ # <<>>, stdoutQ' = Tail(stdoutQ), firstOut' = firstOut
        PROVE  /\ firstOut'[i] # "none" => i < nextId'
               /\ firstOut'[i] = "none" => NoAnswer(stdoutQ', i)
    <3>1. NoAnswer(stdoutQ, i) => ~AnswersAt(stdoutQ, 1, i)
      BY <1>1, <2>2 DEF NoAnswer
    <3> QED BY <1>0, <1>1, <2>0, <2>2, <3>1, AnswerBehindHead
  <2>3. CASE DispatchResponse
    BY <2>2, <2>3 DEF DispatchResponse, NextLine, history
  <2>4. ASSUME NEW j \in Ids, NEW kind \in Answers, ChildAnswers(j, kind)
        PROVE  /\ firstOut'[i] # "none" => i < nextId'
               /\ firstOut'[i] = "none" => NoAnswer(stdoutQ', i)
    <3> DEFINE m == [kind |-> kind, id |-> j]
    <3>1. m \in StdoutMsgs
      BY <1>1 DEF StdoutMsgs, Lines, Answers, Methods, MsgIds, Ids
    <3>2. stdoutQ' = Append(stdoutQ, m) /\ j \in seen
      BY <2>4 DEF ChildAnswers, Emit
    <3>3. j < nextId
      BY <1>0, <3>2 DEF AnswerInv, AskedIds
    <3>4. IF i = j THEN firstOut'[i] # "none" ELSE firstOut'[i] = firstOut[i]
      BY <2>4 DEF ChildAnswers, TypeOK, DataType, HistoryType, Answers
    <3>5. i # j => (NoAnswer(stdoutQ, i) => NoAnswer(stdoutQ', i))
      BY <1>1, <3>1, <3>2, AnswerAppended
    <3> QED BY <1>0, <2>0, <3>3, <3>4, <3>5
  <2>5. ASSUME NEW m \in StdoutMsgs, m.kind \notin Answers, stdoutQ' = Append(stdoutQ, m),
               firstOut' = firstOut
        PROVE  /\ firstOut'[i] # "none" => i < nextId'
               /\ firstOut'[i] = "none" => NoAnswer(stdoutQ', i)
    <3>1. NoAnswer(stdoutQ, i) => NoAnswer(stdoutQ', i)
      BY <1>1, <2>5, AnswerAppended
    <3> QED BY <1>0, <2>0, <2>5, <3>1
  <2>6. OutputStep
    BY OutputSteps
  <2> QED BY <2>1, <2>2, <2>3, <2>4, <2>5, <2>6 DEF OutputStep
<1>7. \A i \in Ids : firstOut'[i] # "none" => i < nextId'
  BY <1>6
<1>8. \A i \in Ids : firstOut'[i] = "none" => NoAnswer(stdoutQ', i)
  BY <1>6
<1>9. \A i \in Inbounds : body'[i] # "request"
  BY <1>0, Zenon
<1> HIDE <1>0, <1>6
<1> QED BY <1>4, <1>5, <1>7, <1>8, <1>9, Zenon DEF AskedIds

LEMMA DueStep ==
  ASSUME TypeOK, SessionInv, AnswerInv, [Next]_vars
  PROVE  AnswerDue'
<1> SUFFICES ASSUME NEW i \in Ids, Answerable(i)', firstOut'[i] # "none"
             PROVE  FirstAnswer(stdoutQ', i, firstOut'[i])
  BY DEF AnswerDue
<1>0. /\ stdoutQ \in Seq(StdoutMsgs) /\ MaxRequests \in Nat
      /\ firstOut \in [Ids -> {"none"} \cup Answers]
      /\ nextId \in Nat /\ i \in Nat
  BY AppServerAssumption, AllocationSteps
  DEF TypeOK, DataType, PipeType, HistoryType, Ids
<1>1. CASE DispatchResponse
  <2>1. /\ stdoutQ # <<>> /\ stdoutQ' = Tail(stdoutQ) /\ firstOut' = firstOut
        /\ Head(stdoutQ) = stdoutQ[1] /\ stdoutQ[1].kind \in Answers
        /\ stdoutQ[1] \in StdoutMsgs
    BY <1>0, <1>1 DEF DispatchResponse, NextLine, history
  <2>2. stdoutQ[1].id \in Ids
    BY <2>1 DEF StdoutMsgs
  <2>3. Answerable(i) /\ stdoutQ[1].id # i
    BY <1>1, <2>1, <2>2
    DEF DispatchResponse, Answerable, Answers, TypeOK, DataType, SessionType
  <2>4. FirstAnswer(stdoutQ, i, firstOut[i])
    BY <2>1, <2>3 DEF AnswerInv, AnswerDue
  <2> QED BY <1>0, <2>1, <2>3, <2>4, AnswerBehindHead DEF AnswersAt
<1>2. CASE ~DispatchResponse
  <2>1. ASSUME firstOut[i] # "none"
        PROVE  FirstAnswer(stdoutQ, i, firstOut[i])
    <3>1. i < nextId
      BY <2>1 DEF AnswerInv, AskedIds
    <3>2. Answerable(i)
      BY <1>0, <1>2, <3>1, AnswerableSteps
    <3> QED BY <2>1, <3>2 DEF AnswerInv, AnswerDue
  <2>2. CASE UNCHANGED <<stdoutQ, firstOut>>
    BY <2>1, <2>2
  <2>3. CASE /\ stdoutQ # <<>> /\ stdoutQ' = Tail(stdoutQ)
             /\ Head(stdoutQ).kind \notin Answers
             /\ UNCHANGED firstOut
    <3>1. ~AnswersAt(stdoutQ, 1, i)
      BY <1>0, <2>3 DEF AnswersAt
    <3> QED BY <1>0, <2>1, <2>3, <3>1, AnswerBehindHead
  <2>4. ASSUME NEW j \in Ids, NEW kind \in Answers, ChildAnswers(j, kind)
        PROVE  FirstAnswer(stdoutQ', i, firstOut'[i])
    <3> DEFINE m == [kind |-> kind, id |-> j]
    <3>1. m \in StdoutMsgs
      BY <1>0 DEF StdoutMsgs, Lines, Answers, Methods, MsgIds, Ids
    <3>2. /\ stdoutQ' = Append(stdoutQ, m)
          /\ firstOut' = [firstOut EXCEPT ![j] = IF @ = "none" THEN kind ELSE @]
      BY <2>4 DEF ChildAnswers, Emit
    <3>3. CASE firstOut[i] # "none"
      <4>1. firstOut'[i] = firstOut[i]
        BY <1>0, <3>2, <3>3
      <4> QED BY <1>0, <2>1, <3>1, <3>2, <3>3, <4>1, AnswerAppended
    <3>4. CASE firstOut[i] = "none"
      <4>1. i = j /\ firstOut'[i] = kind
        BY <1>0, <3>2, <3>4
      <4>2. NoAnswer(stdoutQ, i)
        BY <3>4 DEF AnswerInv, AskedIds
      <4> QED BY <1>0, <3>1, <3>2, <4>1, <4>2, AnswerAppended
    <3> QED BY <3>3, <3>4
  <2>5. ASSUME NEW m \in StdoutMsgs, stdoutQ' = Append(stdoutQ, m), firstOut' = firstOut
        PROVE  FirstAnswer(stdoutQ', i, firstOut'[i])
    BY <1>0, <2>1, <2>5, AnswerAppended
  <2>6. OutputStep
    BY OutputSteps
  <2> QED BY <1>2, <2>2, <2>3, <2>4, <2>5, <2>6 DEF OutputStep
<1> QED BY <1>1, <1>2


\* The steps that end or open a call, or answer one, and what the others keep.
CallStep ==
    \E c \in Callers : \/ Request(c) \/ Resume(c) \/ DrainRaises(c) \/ CallerCancelled(c)
AnswerStep == \E i \in Ids, kind \in Answers : ChildAnswers(i, kind)

Gone == FailFast \/ stdin = "lost"

LEMMA QuietSteps ==
  ASSUME TypeOK, SessionInv, [Next]_vars
  PROVE  /\ ~CallStep => UNCHANGED <<outcome, nextId>>
         /\ ~AnswerStep => UNCHANGED firstOut
         /\ CallStep \/ AnswerStep => UNCHANGED Gone
         /\ Gone => Gone'
<1> USE DEF session, history
<1>1. ~CallStep => UNCHANGED <<outcome, nextId>>
  <2>1. CASE OtherStep
    BY <2>1, OtherLeavesCallers DEF CallersUnchanged
  <2>2. ASSUME NEW c \in Callers, CallerStep(c) \/ WriterStep(c), ~CallStep
        PROVE  UNCHANGED <<outcome, nextId>>
    BY <2>2 DEF CallerStep, Notify, Timeout, WriterStep, LockGranted, DrainReturns, CallStep
  <2> QED BY <2>1, <2>2 DEF Next, OtherStep, Writers
<1>2. ~AnswerStep => UNCHANGED firstOut
  BY OutputSteps DEF OutputStep, AnswerStep, DispatchResponse
<1>3. CallStep \/ AnswerStep => UNCHANGED <<closed, dead, stdin>>
  BY DEF CallStep, AnswerStep, Request, Resume, DrainRaises, CallerCancelled,
     ChildAnswers, Emit, pipes
<1>4. /\ closed => closed'
      /\ dead # "none" => dead' # "none"
      /\ stdin = "lost" => stdin' = "lost"
  <2> USE DEF pipes
  <2>1. CASE \E c \in Callers : CallerStep(c)
    BY <2>1 DEF CallerStep, Request, Notify, Timeout, Resume, CallerCancelled
  <2>2. CASE \E w \in Writers : WriterStep(w)
    BY <2>2 DEF WriterStep, LockGranted, DrainReturns, DrainRaises
  <2>3. CASE (\E i \in Inbounds : InboundStep(i)) \/ RegistryStep
    <3>1. UNCHANGED <<closed, dead, stdin>>
      BY <2>3 DEF InboundStep, Reply, HandlerEnds, RegistryStep, Subscribe, Unsubscribe,
         SetInboundRequestHandler
    <3> QED BY <3>1
  <2>8. CASE StdinLost
    BY <2>8 DEF StdinLost
  <2>4. CASE ReaderStep \/ WatcherReaps
    BY <2>4 DEF ReaderStep, DispatchResponse, DispatchNotification, DispatchInbound,
       SkipLine, ReaderRaises, ReaderEOF, WatcherReaps, MarkDead
  <2>5. CASE CloseStep
    BY <2>5 DEF CloseStep, Close, CloseFlushed, CloseKills, CloseReturns, CancelAndFail
  <2>6. CASE ChildStep
    <3>1. UNCHANGED <<closed, dead, stdin>>
      BY <2>6 DEF ChildStep, ChildReads, ChildAnswers, ChildNotifies, ChildAsks,
         ChildWritesOther, Emit, ChildClosesStdout, ChildExits, ChildHangs
    <3> QED BY <3>1
  <2>7. CASE UNCHANGED vars
    BY <2>7 DEF vars
  <2> QED BY <2>1, <2>2, <2>3, <2>4, <2>5, <2>6, <2>7, <2>8 DEF Next
<1>5. CallStep \/ AnswerStep => UNCHANGED Gone
  BY <1>3 DEF Gone, FailFast
<1>6. Gone => Gone'
  BY <1>4 DEF Gone, FailFast
<1> QED BY <1>1, <1>2, <1>5, <1>6

\* How a call goes on: it is opened, or it ends in one of four ways.
Opens(i) ==
    /\ i = nextId /\ nextId' = nextId + 1
    /\ \/ ~Gone /\ outcome' = outcome
       \/ Gone /\ outcome' = [outcome EXCEPT ![i] = "connError"]

Finishes(i) ==
    /\ i < nextId /\ nextId' = nextId /\ outcome[i] = "none"
    /\ \E how \in {"timeout", "cancelled", "connError"} \cup Answers :
          /\ outcome' = [outcome EXCEPT ![i] = how]
          /\ how = "connError" => Gone
          /\ how \in Answers => how = firstOut[i]

LEMMA CallSteps ==
  ASSUME TypeOK, SessionInv, AnswerInv, CallStep
  PROVE  (\E i \in Ids : Opens(i) \/ Finishes(i)) \/ UNCHANGED <<outcome, nextId>>
<1> USE DEF TypeOK, DataType, SessionType, PipeType, HistoryType, SessionInv, AnswerInv
<1>1. ASSUME NEW c \in Callers, Request(c)
      PROVE  \E i \in Ids : Opens(i)
  <2>1. nextId \in Ids /\ nextId' = nextId + 1 /\ ~FailFast
    BY <1>1 DEF Request
  <2>2. stdin \in {"open", "lost"}
    BY <2>1 DEF GoneIsFinal, FailFast
  <2>3. CASE stdin = "open"
    <3>1. outcome' = [outcome EXCEPT ![nextId] = @]
      BY <1>1, <2>3 DEF Request, WriteStage
    <3>2. outcome' = outcome /\ ~Gone
      BY <2>1, <2>3, <3>1 DEF Gone
    <3> QED BY <2>1, <3>2 DEF Opens
  <2>4. CASE stdin = "lost"
    <3>1. outcome' = [outcome EXCEPT ![nextId] = "connError"] /\ Gone
      BY <1>1, <2>4 DEF Request, WriteStage, Gone
    <3> QED BY <2>1, <3>1 DEF Opens
  <2> QED BY <2>2, <2>3, <2>4
<1>2. ASSUME NEW c \in Callers, InRequest(c)
      PROVE  rid[c] \in Ids /\ rid[c] < nextId /\ outcome[rid[c]] = "none"
  BY <1>2 DEF InFlightIds, OpenCalls
<1>3. ASSUME NEW c \in Callers, Resume(c)
      PROVE  \E i \in Ids : Finishes(i)
  <2> DEFINE i == rid[c]
             how == IF fut[i] = "cancelled" THEN "timeout" ELSE fut[i]
  <2>1. InRequest(c) /\ fut[i] \in Settled
    BY <1>3 DEF Resume, InRequest, InFlightIds
  <2>2. i \in Ids /\ i < nextId /\ outcome[i] = "none"
    BY <1>2, <2>1
  <2>3. /\ how \in {"timeout", "cancelled", "connError"} \cup Answers
        /\ outcome' = [outcome EXCEPT ![i] = how] /\ nextId' = nextId
    BY <1>3, <2>1 DEF Resume, Settled
  <2>4. how = "connError" => Gone
    BY <2>2 DEF GoneIsFinal, Gone
  <2>5. how \in Answers => how = firstOut[i]
    BY <2>2 DEF AnsweredFirst, Answers
  <2> QED BY <2>2, <2>3, <2>4, <2>5 DEF Finishes
<1>4. ASSUME NEW c \in Callers, DrainRaises(c)
      PROVE  (\E i \in Ids : Finishes(i)) \/ UNCHANGED <<outcome, nextId>>
  <2>1. CASE body[c] = "request"
    <3>1. InRequest(c)
      BY <1>4, <2>1 DEF DrainRaises, InRequest
    <3>2. rid[c] \in Ids /\ rid[c] < nextId /\ outcome[rid[c]] = "none"
      BY <1>2, <3>1
    <3>3. /\ outcome' = [outcome EXCEPT ![rid[c]] = "connError"] /\ nextId' = nextId
          /\ Gone
      BY <1>4, <2>1 DEF DrainRaises, Gone
    <3> QED BY <3>2, <3>3 DEF Finishes, Answers
  <2>2. CASE body[c] # "request"
    BY <1>4, <2>2 DEF DrainRaises
  <2> QED BY <2>1, <2>2
<1>5. ASSUME NEW c \in Callers, CallerCancelled(c)
      PROVE  (\E i \in Ids : Finishes(i)) \/ UNCHANGED <<outcome, nextId>>
  <2>0. nextId' = nextId /\ pc[c] \in {"lock", "drain", "wait"}
    BY <1>5 DEF CallerCancelled
  <2>1. CASE body[c] = "request"
    <3>1. rid[c] \in Ids /\ rid[c] < nextId /\ outcome[rid[c]] = "none"
      BY <1>2, <2>0, <2>1 DEF InRequest
    <3>2. outcome' = [outcome EXCEPT ![rid[c]] = "cancelled"]
      BY <1>5, <2>1 DEF CallerCancelled
    <3>3. "cancelled" # "connError" /\ "cancelled" \notin Answers
      BY DEF Answers
    <3> DEFINE how == "cancelled"
    <3>4. /\ how \in {"timeout", "cancelled", "connError"} \cup Answers
          /\ outcome' = [outcome EXCEPT ![rid[c]] = how]
          /\ how # "connError" /\ how \notin Answers
      BY <3>2, <3>3
    <3> HIDE DEF how
    <3> QED BY <2>0, <3>1, <3>4 DEF Finishes
  <2>2. CASE body[c] # "request"
    BY <1>5, <2>0, <2>2 DEF CallerCancelled
  <2> QED BY <2>1, <2>2
<1> QED BY <1>1, <1>3, <1>4, <1>5 DEF CallStep


LEMMA AnsweredStep ==
  ASSUME TypeOK, SessionInv, AnswerInv, [Next]_vars
  PROVE  AnsweredFirst'
<1> USE DEF TypeOK, DataType, SessionType, HistoryType, PipeType
<1>0. ASSUME NEW i \in Ids, firstOut[i] # "none"
      PROVE  firstOut'[i] = firstOut[i]
  <2>1. CASE AnswerStep
    BY <1>0, <2>1 DEF AnswerStep, ChildAnswers
  <2>2. CASE ~AnswerStep
    BY <2>2, QuietSteps
  <2> QED BY <2>1, <2>2
<1>1. ASSUME NEW i \in Ids, fut'[i] \in Answers
      PROVE  fut'[i] = firstOut'[i]
  <2>1. CASE fut'[i] = fut[i]
    <3>1. fut[i] = firstOut[i] /\ firstOut[i] # "none"
      BY <1>1, <2>1 DEF AnswerInv, AnsweredFirst, Answers
    <3> QED BY <1>0, <2>1, <3>1
  <2>2. CASE fut'[i] # fut[i]
    <3>1. DispatchResponse
      BY <1>1, <2>2, AnswerableSteps
    <3>2. /\ stdoutQ # <<>> /\ Head(stdoutQ) = stdoutQ[1]
          /\ stdoutQ[1].kind \in Answers /\ stdoutQ[1] \in StdoutMsgs
      BY <3>1 DEF DispatchResponse, NextLine
    <3>3. /\ Answerable(i) /\ stdoutQ[1].id = i /\ fut'[i] = stdoutQ[1].kind
      BY <2>2, <3>1, <3>2 DEF DispatchResponse, StdoutMsgs
    <3>4. AnswersAt(stdoutQ, 1, i)
      BY <3>2, <3>3 DEF AnswersAt
    <3>5. firstOut[i] # "none"
      BY <3>2, <3>4 DEF AnswerInv, AskedIds, NoAnswer
    <3>6. FirstAnswer(stdoutQ, i, firstOut[i])
      BY <3>3, <3>5 DEF AnswerInv, AnswerDue
    <3>7. stdoutQ[1].kind = firstOut[i]
      BY <3>2, <3>4, <3>6, AnswerAtHead
    <3> QED BY <1>0, <3>3, <3>5, <3>7
  <2> QED BY <2>1, <2>2
<1>2. ASSUME NEW i \in Ids, outcome'[i] \in Answers
      PROVE  outcome'[i] = firstOut'[i]
  <2>1. CASE outcome'[i] = outcome[i]
    <3>1. outcome[i] = firstOut[i] /\ firstOut[i] # "none"
      BY <1>2, <2>1 DEF AnswerInv, AnsweredFirst, FirstAnswerWins, Answers
    <3> QED BY <1>0, <2>1, <3>1
  <2>2. CASE outcome'[i] # outcome[i]
    <3>1. CallStep
      BY <2>2, QuietSteps
    <3>2. PICK j \in Ids : Opens(j) \/ Finishes(j)
      BY <2>2, <3>1, CallSteps
    <3>3. outcome'[i] = firstOut[i] /\ firstOut[i] # "none"
      BY <1>2, <2>2, <3>2 DEF Opens, Finishes, Answers
    <3> QED BY <1>0, <3>3
  <2> QED BY <2>1, <2>2
<1> QED BY <1>1, <1>2 DEF AnsweredFirst, FirstAnswerWins

LEMMA OpenStep ==
  ASSUME TypeOK, SessionInv, AnswerInv, [Next]_vars
  PROVE  OpenCalls'
<1> USE DEF TypeOK, DataType, SessionType, HistoryType, CoroutineType
<1>1. /\ \A c \in Callers : InRequest(c) => outcome[rid[c]] = "none"
      /\ \A i \in Ids : i >= nextId => outcome[i] = "none"
      /\ nextId \in Nat /\ MaxRequests \in Nat
  BY AppServerAssumption, AllocationSteps DEF AnswerInv, OpenCalls
<1>2. CASE OtherStep
  <2>1. CallersUnchanged
    BY <1>2, OtherLeavesCallers
  <2> QED BY <1>1, <2>1 DEF CallersUnchanged, OpenCalls, InRequest
<1>3. ASSUME NEW c \in Callers, CallerStep(c) \/ WriterStep(c)
      PROVE  OpenCalls'
  <2>1. ASSUME NEW d \in Callers, d # c
        PROVE  /\ InRequest(d)' <=> InRequest(d)
               /\ rid'[d] = rid[d]
    BY <1>3, <2>1 DEF CallerStep, Request, Notify, Timeout, Resume, CallerCancelled,
       WriterStep, LockGranted, DrainReturns, DrainRaises, InRequest, coros, Writers
  <2>2. ASSUME NEW d \in Callers, InRequest(d)
        PROVE  rid[d] \in Ids /\ rid[d] < nextId
    BY <2>2 DEF SessionInv, InFlightIds
  <2>3. CASE CallStep /\ ~UNCHANGED <<outcome, nextId>>
    <3>1. PICK i \in Ids : Opens(i) \/ Finishes(i)
      BY <2>3, CallSteps
    <3>2. CASE Request(c)
      <4>1. nextId' = nextId + 1 /\ nextId \in Ids /\ rid'[c] = nextId
        BY <3>2 DEF Request
      <4>2. \A j \in Ids : j # nextId => outcome'[j] = outcome[j]
        BY <3>2 DEF Request
      <4>3. InRequest(c)' => outcome'[nextId] = outcome[nextId]
        BY <3>2, <4>1 DEF Request, InRequest, WriteStage, AfterStage, AfterRaise,
           OwnBodies, Writers
      <4>4. \A j \in Ids : j >= nextId + 1 => outcome'[j] = "none"
        BY <1>1, <4>2 DEF Ids
      <4>5. ASSUME NEW d \in Callers, InRequest(d)'
            PROVE  outcome'[rid'[d]] = "none"
        <5>1. CASE d = c
          BY <1>1, <4>1, <4>3, <4>5, <5>1 DEF Ids
        <5>2. CASE d # c
          BY <1>1, <2>1, <2>2, <4>1, <4>2, <4>5, <5>2
        <5> QED BY <5>1, <5>2
      <4> QED BY <4>1, <4>4, <4>5 DEF OpenCalls
    <3>3. ASSUME ~Request(c)
          PROVE  OpenCalls'
      <4>1. /\ nextId' = nextId /\ rid' = rid /\ InRequest(c) /\ ~InRequest(c)'
            /\ \A j \in Ids : j # rid[c] => outcome'[j] = outcome[j]
        BY <1>3, <2>3, <3>3 DEF CallerStep, Notify, Timeout, Resume, CallerCancelled,
           WriterStep, LockGranted, DrainReturns, DrainRaises, InRequest, coros, session,
           history, AfterRaise, OwnBodies, Writers, SessionInv, InFlightIds
      <4>2. \A j \in Ids : j >= nextId => outcome'[j] = "none"
        BY <1>1, <2>2, <4>1 DEF Ids
      <4>3. ASSUME NEW d \in Callers, InRequest(d)'
            PROVE  outcome'[rid'[d]] = "none"
        <5>1. d # c /\ InRequest(d) /\ rid[d] # rid[c]
          BY <2>1, <4>1, <4>3 DEF SessionInv, InFlightIds
        <5> QED BY <1>1, <2>2, <4>1, <5>1
      <4> QED BY <4>1, <4>2, <4>3 DEF OpenCalls
    <3> QED BY <3>2, <3>3
  <2>4. CASE UNCHANGED <<outcome, nextId>>
    <3>1. ASSUME InRequest(c)'
          PROVE  InRequest(c) /\ rid'[c] = rid[c]
      BY <1>3, <2>4, <3>1, <1>1 DEF CallerStep, Request, Notify, Timeout, Resume,
         CallerCancelled, WriterStep, LockGranted, DrainReturns, DrainRaises, InRequest,
         AfterWrite, AfterRaise, OwnBodies, Writers, coros, SessionInv, InFlightIds
    <3>2. ASSUME NEW d \in Callers, InRequest(d)'
          PROVE  outcome'[rid'[d]] = "none"
      <4>1. InRequest(d) /\ rid'[d] = rid[d]
        BY <2>1, <3>1, <3>2
      <4> QED BY <1>1, <2>4, <4>1
    <3> QED BY <1>1, <2>4, <3>2 DEF OpenCalls
  <2>5. CallStep \/ UNCHANGED <<outcome, nextId>>
    BY QuietSteps
  <2> QED BY <2>3, <2>4, <2>5
<1> QED BY <1>2, <1>3 DEF Next, OtherStep, Writers

LEMMA AnswerStepInv ==
  ASSUME TypeOK, SessionInv, AnswerInv, [Next]_vars
  PROVE  AnswerInv'
  BY AskedStep, DueStep, AnsweredStep, OpenStep DEF AnswerInv

\* The invariant behind the refinement: a request is read by the child only
\* after its id was allocated, the first answer to it is ahead of its future as
\* long as that is not done, and a call in flight has no outcome yet.
THEOREM AnswerInvariant == Spec => [](TypeOK /\ SessionInv /\ AnswerInv)
<1>1. Init => TypeOK /\ SessionInv /\ AnswerInv
  BY InitType, InitInv, InitAnswers
<1>2. TypeOK /\ SessionInv /\ AnswerInv /\ [Next]_vars
         => (TypeOK /\ SessionInv /\ AnswerInv)'
  BY TypeStep, InvStep, AnswerStepInv
<1> QED BY <1>1, <1>2, PTL DEF Spec

\* Whatever late, duplicate or foreign answers the reader meets, request()
\* returns or raises the first answer the child wrote to its own id.
THEOREM FirstAnswerIsReturned == Spec => []FirstAnswerWins
<1>1. AnswerInv => FirstAnswerWins
  BY DEF AnswerInv, AnsweredFirst
<1> QED BY <1>1, AnswerInvariant, PTL

-----------------------------------------------------------------------------
(* Part 2: AppServer implements OneShotRpc.                                *)

LEMMA InitRefines == Init => Rpc!Init
<1> SUFFICES ASSUME Init PROVE Rpc!Init
  OBVIOUS
<1> USE DEF Init
<1>1. \A i \in Ids : CallOf(i) = "new"
  BY AppServerAssumption DEF CallOf, FirstId, Ids
<1>2. ~FailFast /\ stdin # "lost"
  BY DEF FailFast
<1> QED BY <1>1, <1>2 DEF Rpc!Init

LEMMA StepRefines ==
  ASSUME TypeOK, SessionInv, AnswerInv, [Next]_vars
  PROVE  [Rpc!Next]_Rpc!vars
<1> DEFINE calls == [i \in Ids |-> CallOf(i)]
<1> USE DEF TypeOK, DataType, SessionType, HistoryType
<1>0. nextId \in Nat /\ nextId' \in Nat /\ Ids \subseteq Nat
  BY AppServerAssumption, AllocationSteps DEF Ids
<1>1. CASE ~CallStep /\ ~AnswerStep
  <2>1. UNCHANGED <<outcome, nextId, firstOut>>
    BY <1>1, QuietSteps
  <2>2. calls' = calls
    BY <2>1 DEF CallOf
  <2>3. CASE UNCHANGED Gone
    BY <2>1, <2>2, <2>3 DEF Rpc!vars, Gone
  <2>4. CASE ~UNCHANGED Gone
    <3>1. ~Gone /\ Gone'
      BY <2>4, QuietSteps DEF Gone, FailFast
    <3> QED BY <2>1, <2>2, <3>1 DEF Rpc!Next, Rpc!Vanish, Gone
  <2> QED BY <2>3, <2>4
<1>2. CASE AnswerStep
  <2>1. PICK i \in Ids, kind \in Answers : ChildAnswers(i, kind)
    BY <1>2 DEF AnswerStep
  <2>2. UNCHANGED <<outcome, nextId, Gone>>
    BY <1>2, <2>1, QuietSteps DEF ChildAnswers, Emit, session
  <2>3. calls' = calls
    BY <2>2 DEF CallOf
  <2>4. i < nextId
    BY <1>0, <2>1 DEF ChildAnswers, AnswerInv, AskedIds
  <2>5. calls[i] # "new"
    BY <2>4 DEF CallOf, Settled, Answers
  <2>6. CASE firstOut[i] = "none"
    <3>1. firstOut' = [firstOut EXCEPT ![i] = kind]
      BY <2>1, <2>6 DEF ChildAnswers
    <3>2. Rpc!Answer(i, kind)
      BY <2>2, <2>3, <2>5, <2>6, <3>1 DEF Rpc!Answer, Gone
    <3> QED BY <3>2 DEF Rpc!Next, Rpc!Answers, Answers
  <2>7. CASE firstOut[i] # "none"
    <3>1. firstOut' = firstOut
      BY <2>1, <2>7 DEF ChildAnswers
    <3> QED BY <2>2, <2>3, <3>1 DEF Rpc!vars, Gone
  <2> QED BY <2>6, <2>7
<1>3. CASE CallStep /\ ~AnswerStep
  <2>1. UNCHANGED <<firstOut, Gone>>
    BY <1>3, QuietSteps
  <2>2. CASE UNCHANGED <<outcome, nextId>>
    <3>1. calls' = calls
      BY <2>2 DEF CallOf
    <3> QED BY <2>1, <3>1 DEF Rpc!vars, Gone
  <2>3. ASSUME NEW i \in Ids, Opens(i)
        PROVE  Rpc!Next
    <3>1. calls[i] = "new" /\ outcome[i] = "none"
      BY <1>0, <2>3 DEF Opens, CallOf, AnswerInv, OpenCalls
    <3>0. \A j \in Ids : j < nextId' <=> j < nextId \/ j = i
      BY <1>0, <2>3 DEF Opens
    <3>2. CASE ~Gone
      <4>0. \A j \in Ids : CallOf(j)' = IF j = i THEN "open" ELSE CallOf(j)
        BY <2>3, <3>0, <3>1, <3>2 DEF Opens, CallOf
      <4>1. calls' = [calls EXCEPT ![i] = "open"]
        BY <4>0
      <4>2. Rpc!Open(i)
        BY <2>1, <3>1, <3>2, <4>1 DEF Rpc!Open, Rpc!Become, Gone
      <4> QED BY <4>2 DEF Rpc!Next
    <3>3. CASE Gone
      <4>0. \A j \in Ids : CallOf(j)' = IF j = i THEN "connError" ELSE CallOf(j)
        BY <2>3, <3>0, <3>1, <3>3 DEF Opens, CallOf
      <4>1. calls' = [calls EXCEPT ![i] = "connError"]
        BY <4>0
      <4>2. Rpc!OpenFails(i)
        BY <2>1, <3>1, <3>3, <4>1 DEF Rpc!OpenFails, Rpc!Become, Gone
      <4> QED BY <4>2 DEF Rpc!Next
    <3> QED BY <3>2, <3>3
  <2>4. ASSUME NEW i \in Ids, Finishes(i)
        PROVE  Rpc!Next
    <3>1. PICK how \in {"timeout", "cancelled", "connError"} \cup Answers :
             /\ outcome' = [outcome EXCEPT ![i] = how]
             /\ how = "connError" => Gone
             /\ how \in Answers => how = firstOut[i]
      BY <2>4 DEF Finishes
    <3>2. calls[i] = "open" /\ how # "none" /\ nextId' = nextId
      BY <2>4 DEF Finishes, CallOf, Answers
    <3>0. \A j \in Ids : CallOf(j)' = IF j = i THEN how ELSE CallOf(j)
      BY <3>1, <3>2 DEF CallOf
    <3>3. calls' = [calls EXCEPT ![i] = how]
      BY <3>0
    <3>4. CASE how \in {"timeout", "cancelled"}
      <4>1. Rpc!GiveUp(i, how)
        BY <2>1, <3>2, <3>3 DEF Rpc!GiveUp, Rpc!Become, Gone
      <4> QED BY <3>4, <4>1 DEF Rpc!Next
    <3>5. CASE how = "connError"
      <4>1. Rpc!Lose(i)
        BY <2>1, <3>1, <3>2, <3>3, <3>5 DEF Rpc!Lose, Rpc!Become, Gone
      <4> QED BY <4>1 DEF Rpc!Next
    <3>6. CASE how \in Answers
      <4>1. Rpc!Return(i)
        BY <2>1, <3>1, <3>2, <3>3, <3>6 DEF Rpc!Return, Rpc!Become, Gone
      <4> QED BY <4>1 DEF Rpc!Next
    <3> QED BY <3>4, <3>5, <3>6
  <2> QED BY <1>3, <2>2, <2>3, <2>4, CallSteps
<1> QED BY <1>1, <1>2, <1>3

\* Every behaviour of the channel is one of OneShotRpc: each request() ends once,
\* with the first answer the child wrote to it or without one, with a
\* ConnectionError only when the channel is gone, which it stays.
THEOREM Refinement == Spec => ImplementsRpc
<1>1. Init => Rpc!Init
  BY InitRefines
<1>2. TypeOK /\ SessionInv /\ AnswerInv /\ [Next]_vars => [Rpc!Next]_Rpc!vars
  BY StepRefines
<1> QED BY <1>1, <1>2, AnswerInvariant, PTL DEF Spec, ImplementsRpc, Rpc!Spec

=============================================================================
