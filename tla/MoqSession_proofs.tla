--------------------------- MODULE MoqSession_proofs ---------------------------
(***************************************************************************)
(* The safety of the MOQ session, for any sessions, addresses, tracks and  *)
(* numbers of attempts: what Stop of the server closes, what a closed      *)
(* session leaves in the backend, what the input handlers forward and what *)
(* the output adapters keep.  None of it uses the fairness of Spec.        *)
(*                                                                         *)
(* The state falls into four sides, which few steps share: the owner's and *)
(* the server's, the message loop's, the output tracks' and the inputs'.   *)
(***************************************************************************)
EXTENDS MoqSession, TLAPS

USE MoqAssumption

\* The numbers of attempts whose set-up has begun.
Begun(s) == IF loop[s] = "manager" THEN tried[s] - 1 ELSE tried[s]

OwnerPc == {"none", "starting", "handshake", "waiting", "leaving", "closing", "done"}
LoopPc == {"idle", "manager", "factory", "sender", "wire", "rollback", "delegate"}

\* The set-up of the current attempt is under way.
SettingUp == {"factory", "sender", "wire", "rollback"}

OwnerTypes ==
  /\ transport \in [Sessions -> {"none", "up", "gone"}]
  /\ moq \in [Sessions -> {"new", "open", "closed"}]
  /\ owner \in [Sessions -> OwnerPc]
  /\ sessions \in [Addresses -> Sessions \cup {Nothing}]
  /\ server \in {"running", "stopping", "stopped"}
  /\ toClose \subseteq Sessions
  /\ missed \in [Sessions -> BOOLEAN]
  /\ closing \in [Sessions -> {"no", "handler", "manager", "moq"}]

\* An attempt is current, or cancelled, only when its set-up has begun.
LoopTypes ==
  /\ loop \in [Sessions -> LoopPc]
  /\ tried \in [Sessions -> Nat]
  /\ current \in [Sessions -> Nat]
  /\ handler \in [Sessions -> BOOLEAN]
  /\ authenticated \in [Sessions -> BOOLEAN]
  /\ backend \in [Sessions -> {"none", "active", "departed"}]
  /\ overtaken \in [Sessions -> BOOLEAN]
  /\ connected \in [Sessions -> SUBSET Nat]
  /\ cancelled \in [Sessions -> SUBSET Nat]
  /\ \A s \in Sessions :
       /\ loop[s] = "manager" => tried[s] > 0
       /\ loop[s] \in SettingUp => tried[s] > 0 /\ current[s] = tried[s]
       /\ tried[s] <= Tries[s]
       /\ current[s] <= Begun(s)
       /\ \A n \in cancelled[s] : 1 <= n /\ n <= Begun(s)

OutputTypes ==
  /\ writing \in [Sessions -> SUBSET Outputs]
  /\ buffered \in [Sessions -> SUBSET Outputs]
  /\ published \in [Sessions -> SUBSET Outputs]

ownerSide == <<transport, moq, owner, sessions, server, toClose, missed, closing>>
loopSide == <<loop, tried, current, handler, authenticated, backend, overtaken, connected, cancelled>>
outputSide == <<writing, buffered, published>>
inputSide == <<stage, reader, dropped>>

-------------------------------------------------------------------------------
(* Who steps on which side.                                                *)

OwnerStep(s) ==
  \/ Connect(s) \/ TransportCloses(s) \/ RegisterSession(s) \/ Run(s) \/ OwnerWakes(s)
  \/ UnregisterSession(s) \/ StopCloses(s) \/ Close(s)

LoopStep(s) ==
  SetUp(s) \/ SubscribeAgain(s) \/ CloseHandler(s) \/ CloseManager(s)

OutputStep(s) ==
  \/ Rollback(s) \/ Delegate(s) \/ CloseManager(s)
  \/ \E o \in Outputs : WriteSample(s, o) \/ BufferSample(s, o)

InputStep(s) ==
  \/ StartManager(s) \/ SetConnectionHandler(s) \/ Rollback(s) \/ CloseManager(s)
  \/ \E n \in Attempts(s) :
       \/ Inputting(s, n)
       \/ \E k \in Kinds : ProcessObject(s, n, k) \/ ReadLoopStops(s, n, k) \/ ReadFails(s, n, k)

LEMMA OwnerFrame ==
  ASSUME [Next]_vars, ~Stop, ~Stopped, \A s \in Sessions : ~OwnerStep(s)
  PROVE  UNCHANGED ownerSide
<1>1. CASE UNCHANGED vars
  BY <1>1 DEF vars, ownerSide, ownerVars, serverVars, closeVars
<1>2. ASSUME NEW s \in Sessions,
             \/ HandleSubscribe(s) \/ StartManager(s) \/ FactoryReturns(s) \/ FactoryRefuses(s)
             \/ SetReceiveSender(s) \/ SubscribeAgain(s) \/ SetConnectionHandler(s) \/ Rollback(s)
             \/ Delegate(s)
      PROVE  UNCHANGED ownerSide
  BY <1>2 DEF HandleSubscribe, StartManager, FactoryReturns, FactoryRefuses, SetReceiveSender,
     SubscribeAgain, SetConnectionHandler, Rollback, Delegate, ownerSide, ownerVars,
     serverVars, closeVars
<1>3. ASSUME NEW s \in Sessions, NEW o \in Outputs,
             WriteSample(s, o) \/ BufferSample(s, o)
      PROVE  UNCHANGED ownerSide
  BY <1>3 DEF WriteSample, BufferSample, ownerSide, ownerVars, serverVars, closeVars
<1>4. ASSUME NEW s \in Sessions, NEW n \in Attempts(s),
             HandleAnnouncements(s, n) \/ SubscribeToInput(s, n) \/ StoreHandler(s, n)
      PROVE  UNCHANGED ownerSide
  BY <1>4 DEF HandleAnnouncements, SubscribeToInput, StoreHandler, ownerSide, ownerVars, serverVars,
     closeVars
<1>5. ASSUME NEW s \in Sessions, NEW n \in Attempts(s), NEW o \in Outputs,
             AnnounceOutput(s, n, o)
      PROVE  UNCHANGED ownerSide
  BY <1>5 DEF AnnounceOutput, ownerSide, ownerVars, serverVars, closeVars
<1>6. ASSUME NEW s \in Sessions, NEW n \in Attempts(s), NEW k \in Kinds,
             ProcessObject(s, n, k) \/ ReadLoopStops(s, n, k) \/ ReadFails(s, n, k)
      PROVE  UNCHANGED ownerSide
  BY <1>6 DEF ProcessObject, ReadLoopStops, ReadFails, ownerSide, ownerVars, serverVars, closeVars
<1>7. QED
  BY <1>1, <1>2, <1>3, <1>4, <1>5, <1>6 DEF Next, OwnerStep, SetUp, Close, GoAway, Inputting

LEMMA LoopFrame ==
  ASSUME [Next]_vars, \A s \in Sessions : ~LoopStep(s)
  PROVE  UNCHANGED loopSide
<1>1. CASE Stop \/ Stopped \/ UNCHANGED vars
  BY <1>1 DEF Stop, Stopped, vars, loopSide, setupVars, closeVars, managerVars
<1>2. ASSUME NEW s \in Sessions,
             \/ Connect(s) \/ RegisterSession(s) \/ Run(s) \/ OwnerWakes(s)
             \/ UnregisterSession(s) \/ StopCloses(s) \/ CloseMoq(s) \/ TransportCloses(s)
      PROVE  UNCHANGED loopSide
  BY <1>2 DEF Connect, RegisterSession, Run, OwnerWakes, UnregisterSession, StopCloses, CloseMoq,
     TransportCloses, loopSide, setupVars, closeVars, managerVars
<1>3. ASSUME NEW s \in Sessions, NEW o \in Outputs,
             WriteSample(s, o) \/ BufferSample(s, o)
      PROVE  UNCHANGED loopSide
  BY <1>3 DEF WriteSample, BufferSample, loopSide, setupVars, closeVars, managerVars
<1>4. ASSUME NEW s \in Sessions, NEW n \in Attempts(s),
             HandleAnnouncements(s, n) \/ SubscribeToInput(s, n) \/ StoreHandler(s, n)
      PROVE  UNCHANGED loopSide
  BY <1>4 DEF HandleAnnouncements, SubscribeToInput, StoreHandler, loopSide, setupVars, closeVars,
     managerVars
<1>5. ASSUME NEW s \in Sessions, NEW n \in Attempts(s), NEW o \in Outputs,
             AnnounceOutput(s, n, o)
      PROVE  UNCHANGED loopSide
  BY <1>5 DEF AnnounceOutput, loopSide, setupVars, closeVars, managerVars
<1>6. ASSUME NEW s \in Sessions, NEW n \in Attempts(s), NEW k \in Kinds,
             ProcessObject(s, n, k) \/ ReadLoopStops(s, n, k) \/ ReadFails(s, n, k)
      PROVE  UNCHANGED loopSide
  BY <1>6 DEF ProcessObject, ReadLoopStops, ReadFails, loopSide, setupVars, closeVars, managerVars
<1>7. QED
  BY <1>1, <1>2, <1>3, <1>4, <1>5, <1>6 DEF Next, LoopStep, SetUp, Close, GoAway, Inputting

LEMMA OutputFrame ==
  ASSUME [Next]_vars, \A s \in Sessions : ~OutputStep(s)
  PROVE  UNCHANGED outputSide
<1>1. CASE Stop \/ Stopped \/ UNCHANGED vars
  BY <1>1 DEF Stop, Stopped, vars, outputSide, trackVars, inputVars, outputVars
<1>2. ASSUME NEW s \in Sessions,
             \/ Connect(s) \/ RegisterSession(s) \/ Run(s) \/ OwnerWakes(s)
             \/ UnregisterSession(s) \/ StopCloses(s) \/ CloseMoq(s) \/ TransportCloses(s)
      PROVE  UNCHANGED outputSide
  BY <1>2 DEF Connect, RegisterSession, Run, OwnerWakes, UnregisterSession, StopCloses, CloseMoq,
     TransportCloses, outputSide, trackVars, inputVars, outputVars
<1>3. ASSUME NEW s \in Sessions,
             \/ HandleSubscribe(s) \/ StartManager(s) \/ FactoryReturns(s) \/ FactoryRefuses(s)
             \/ SetReceiveSender(s) \/ SubscribeAgain(s) \/ SetConnectionHandler(s) \/ CloseHandler(s)
      PROVE  UNCHANGED outputSide
  BY <1>3 DEF HandleSubscribe, StartManager, FactoryReturns, FactoryRefuses, SetReceiveSender,
     SubscribeAgain, SetConnectionHandler, CloseHandler, outputSide, trackVars, inputVars,
     outputVars
<1>4. ASSUME NEW s \in Sessions, NEW n \in Attempts(s),
             HandleAnnouncements(s, n) \/ SubscribeToInput(s, n) \/ StoreHandler(s, n)
      PROVE  UNCHANGED outputSide
  BY <1>4 DEF HandleAnnouncements, SubscribeToInput, StoreHandler, outputSide, trackVars, inputVars,
     outputVars
<1>5. ASSUME NEW s \in Sessions, NEW n \in Attempts(s), NEW o \in Outputs,
             AnnounceOutput(s, n, o)
      PROVE  UNCHANGED outputSide
  BY <1>5 DEF AnnounceOutput, outputSide, trackVars, inputVars, outputVars
<1>6. ASSUME NEW s \in Sessions, NEW n \in Attempts(s), NEW k \in Kinds,
             ProcessObject(s, n, k) \/ ReadLoopStops(s, n, k) \/ ReadFails(s, n, k)
      PROVE  UNCHANGED outputSide
  BY <1>6 DEF ProcessObject, ReadLoopStops, ReadFails, outputSide, trackVars, inputVars, outputVars
<1>7. QED
  BY <1>1, <1>2, <1>3, <1>4, <1>5, <1>6 DEF Next, OutputStep, SetUp, Close, GoAway, Inputting

LEMMA InputFrame ==
  ASSUME [Next]_vars, \A s \in Sessions : ~InputStep(s)
  PROVE  UNCHANGED inputSide
<1>1. CASE Stop \/ Stopped \/ UNCHANGED vars
  BY <1>1 DEF Stop, Stopped, vars, inputSide, trackVars, inputVars
<1>2. ASSUME NEW s \in Sessions,
             \/ Connect(s) \/ RegisterSession(s) \/ Run(s) \/ OwnerWakes(s)
             \/ UnregisterSession(s) \/ StopCloses(s) \/ CloseMoq(s) \/ TransportCloses(s)
      PROVE  UNCHANGED inputSide
  BY <1>2 DEF Connect, RegisterSession, Run, OwnerWakes, UnregisterSession, StopCloses, CloseMoq,
     TransportCloses, inputSide, trackVars, inputVars
<1>3. ASSUME NEW s \in Sessions,
             \/ HandleSubscribe(s) \/ FactoryReturns(s) \/ FactoryRefuses(s) \/ SetReceiveSender(s)
             \/ SubscribeAgain(s) \/ Delegate(s) \/ CloseHandler(s)
      PROVE  UNCHANGED inputSide
  BY <1>3 DEF HandleSubscribe, FactoryReturns, FactoryRefuses, SetReceiveSender, SubscribeAgain,
     Delegate, CloseHandler, inputSide, trackVars, inputVars
<1>4. ASSUME NEW s \in Sessions, NEW o \in Outputs,
             WriteSample(s, o) \/ BufferSample(s, o)
      PROVE  UNCHANGED inputSide
  BY <1>4 DEF WriteSample, BufferSample, inputSide, trackVars, inputVars
<1>5. ASSUME NEW s \in Sessions, NEW n \in Attempts(s), NEW o \in Outputs,
             AnnounceOutput(s, n, o)
      PROVE  UNCHANGED inputSide
  BY <1>5 DEF AnnounceOutput, inputSide, trackVars, inputVars
<1>6. QED
  BY <1>1, <1>2, <1>3, <1>4, <1>5 DEF Next, InputStep, SetUp, Close, GoAway, Inputting

-------------------------------------------------------------------------------
(* Types.                                                                  *)

LEMMA InitTypes == Init => OwnerTypes /\ LoopTypes /\ OutputTypes
  BY DEF Init, OwnerTypes, OwnerPc, LoopTypes, LoopPc, SettingUp, Begun, OutputTypes

LEMMA NextOwnerTypes ==
  ASSUME OwnerTypes, [Next]_vars
  PROVE  OwnerTypes'
<1>1. CASE Stop \/ Stopped
  BY <1>1 DEF Stop, Stopped, OwnerTypes, ownerVars, closeVars
<1>2. ASSUME NEW s \in Sessions, OwnerStep(s)
      PROVE  OwnerTypes'
  <2>0. Addr[s] \in Addresses
    BY DEF Addresses
  <2>1. CASE Connect(s) \/ TransportCloses(s) \/ Run(s) \/ OwnerWakes(s)
    BY <2>1 DEF Connect, TransportCloses, Run, OwnerWakes, OwnerTypes, OwnerPc, serverVars, closeVars
  <2>2. CASE RegisterSession(s) \/ UnregisterSession(s)
    <3>1. /\ owner' \in [Sessions -> OwnerPc]
          /\ closing' \in [Sessions -> {"no", "handler", "manager", "moq"}]
          /\ UNCHANGED <<transport, moq, server, toClose>>
      BY <2>2 DEF RegisterSession, UnregisterSession, OwnerTypes, OwnerPc, closeVars
    <3>2. sessions' \in [Addresses -> Sessions \cup {Nothing}]
      BY <2>0, <2>2 DEF RegisterSession, UnregisterSession, OwnerTypes
    <3>3. missed' \in [Sessions -> BOOLEAN]
      BY <2>2 DEF RegisterSession, UnregisterSession, OwnerTypes
    <3>4. QED
      BY <3>1, <3>2, <3>3 DEF OwnerTypes
  <2>3. CASE StopCloses(s) \/ CloseHandler(s) \/ CloseManager(s)
    BY <2>3 DEF StopCloses, CloseHandler, CloseManager, OwnerTypes, ownerVars, serverVars
  <2>4. CASE CloseMoq(s)
    BY <2>4 DEF CloseMoq, OwnerTypes, OwnerPc
  <2>5. QED
    BY <1>2, <2>1, <2>2, <2>3, <2>4 DEF OwnerStep, Close
<1>3. CASE UNCHANGED ownerSide
  BY <1>3 DEF OwnerTypes, ownerSide
<1>4. QED
  BY <1>1, <1>2, <1>3, OwnerFrame

\* An attempt that is cancelled is a current one.
LEMMA CancelTypes ==
  ASSUME LoopTypes, NEW s \in Sessions, current[s] # 0, ManagerCloses(s, current[s])
  PROVE  /\ UNCHANGED connected
         /\ cancelled' \in [Sessions -> SUBSET Nat]
         /\ \A t \in Sessions : \A n \in cancelled'[t] : n \in Nat /\ 1 <= n /\ n <= Begun(t)
<1>1. current[s] \in Nat /\ 1 <= current[s] /\ current[s] <= Begun(s)
  BY DEF LoopTypes
<1>2. cancelled[s] \cup {current[s]} \in SUBSET Nat
  BY <1>1 DEF LoopTypes
<1>3. cancelled' = [cancelled EXCEPT ![s] = @ \cup {current[s]}] /\ UNCHANGED connected
  BY DEF ManagerCloses
<1>4. cancelled' \in [Sessions -> SUBSET Nat]
  BY <1>2, <1>3 DEF LoopTypes
<1>5. ASSUME NEW t \in Sessions, NEW n \in cancelled'[t]
      PROVE  n \in Nat /\ 1 <= n /\ n <= Begun(t)
  BY <1>1, <1>3, <1>5 DEF LoopTypes
<1>6. QED
  BY <1>3, <1>4, <1>5

LEMMA NextLoopTypes ==
  ASSUME LoopTypes, [Next]_vars
  PROVE  LoopTypes'
<1>1. ASSUME NEW s \in Sessions, LoopStep(s)
      PROVE  LoopTypes'
  <2>1. CASE HandleSubscribe(s)
    BY <2>1 DEF HandleSubscribe, Verdicts, LoopTypes, LoopPc, SettingUp, Begun, closeVars, managerVars
  <2>2. CASE StartManager(s)
    BY <2>2 DEF StartManager, LoopTypes, LoopPc, SettingUp, Begun, closeVars, managerVars
  <2>3. CASE \/ FactoryReturns(s) \/ FactoryRefuses(s) \/ SetReceiveSender(s)
             \/ SubscribeAgain(s) \/ Delegate(s)
    BY <2>3 DEF FactoryReturns, FactoryRefuses, SetReceiveSender, SubscribeAgain, Delegate,
       LoopTypes, LoopPc, SettingUp, Begun, closeVars, managerVars
  <2>4. CASE SetConnectionHandler(s)
    BY <2>4 DEF SetConnectionHandler, LoopTypes, LoopPc, SettingUp, Begun, closeVars
  <2>5. CASE Rollback(s)
    <3>1. /\ loop' = [loop EXCEPT ![s] = "idle"] /\ loop[s] = "rollback"
          /\ current' = [current EXCEPT ![s] = 0]
          /\ UNCHANGED <<tried, handler, authenticated, backend, overtaken>>
          /\ ManagerCloses(s, current[s])
      BY <2>5 DEF Rollback, closeVars
    <3>2. \A t \in Sessions : Begun(t)' = Begun(t)
      BY <3>1 DEF Begun, LoopTypes
    <3>3. current[s] # 0
      BY <3>1 DEF LoopTypes, SettingUp
    <3>4. /\ UNCHANGED connected
          /\ cancelled' \in [Sessions -> SUBSET Nat]
          /\ \A t \in Sessions : \A n \in cancelled'[t] : 1 <= n /\ n <= Begun(t)
      BY <3>1, <3>3, CancelTypes
    <3>5. /\ loop' \in [Sessions -> LoopPc]
          /\ current' \in [Sessions -> Nat]
          /\ \A t \in Sessions : /\ loop'[t] \in SettingUp \cup {"manager"} => t # s /\ loop'[t] = loop[t]
                                  /\ current'[t] = IF t = s THEN 0 ELSE current[t]
      BY <3>1 DEF LoopTypes, LoopPc, SettingUp
    <3>6. \A t \in Sessions : 0 <= Begun(t)
      BY DEF LoopTypes, Begun
    <3>7. QED
      BY <3>1, <3>2, <3>4, <3>5, <3>6 DEF LoopTypes, SettingUp
  <2>6. CASE CloseHandler(s)
    BY <2>6 DEF CloseHandler, HasHandler, LoopTypes, SettingUp, Begun, managerVars
  <2>7. CASE CloseManager(s)
    <3>1. UNCHANGED <<loop, tried, current, handler, authenticated, backend, overtaken>>
      BY <2>7 DEF CloseManager, setupVars
    <3>2. \A t \in Sessions : Begun(t)' = Begun(t)
      BY <3>1 DEF Begun
    <3>3. UNCHANGED <<connected, cancelled>> \/ (current[s] # 0 /\ ManagerCloses(s, current[s]))
      BY <2>7 DEF CloseManager, managerVars
    <3>4. QED
      BY <3>1, <3>2, <3>3, CancelTypes DEF LoopTypes
  <2>8. QED
    BY <1>1, <2>1, <2>2, <2>3, <2>4, <2>5, <2>6, <2>7 DEF LoopStep, SetUp
<1>2. CASE UNCHANGED loopSide
  BY <1>2 DEF LoopTypes, SettingUp, Begun, loopSide
<1>3. QED
  BY <1>1, <1>2, LoopFrame

LEMMA NextOutputTypes ==
  ASSUME OutputTypes, [Next]_vars
  PROVE  OutputTypes'
<1>1. ASSUME NEW s \in Sessions, OutputStep(s)
      PROVE  OutputTypes'
  <2>1. CASE Rollback(s) \/ CloseManager(s)
    BY <2>1 DEF Rollback, CloseManager, ManagerCloses, StopOutputs, OutputTypes, trackVars, outputVars
  <2>2. CASE Delegate(s)
    <3>1. UNCHANGED writing
      BY <2>2 DEF Delegate
    <3>2. ASSUME NEW o \in Outputs, AddPublisher(s, o)
          PROVE  buffered' \in [Sessions -> SUBSET Outputs] /\ published' \in [Sessions -> SUBSET Outputs]
      <4>1. published[s] \cup {o} \in SUBSET Outputs /\ buffered[s] \ {o} \in SUBSET Outputs
        BY DEF OutputTypes
      <4>2. QED
        BY <3>2, <4>1 DEF AddPublisher, OutputTypes
    <3>3. QED
      BY <2>2, <3>1, <3>2 DEF Delegate, OutputTypes
  <2>3. CASE \E o \in Outputs : WriteSample(s, o) \/ BufferSample(s, o)
    <3>1. PICK o \in Outputs : WriteSample(s, o) \/ BufferSample(s, o)
      BY <2>3
    <3>2. /\ writing[s] \cup {o} \in SUBSET Outputs
          /\ writing[s] \ {o} \in SUBSET Outputs
          /\ buffered[s] \cup {o} \in SUBSET Outputs
      BY DEF OutputTypes
    <3>3. writing' \in [Sessions -> SUBSET Outputs]
      BY <3>1, <3>2 DEF WriteSample, BufferSample, OutputTypes
    <3>4. buffered' \in [Sessions -> SUBSET Outputs] /\ UNCHANGED published
      BY <3>1, <3>2 DEF WriteSample, BufferSample, OutputTypes
    <3>5. QED
      BY <3>3, <3>4 DEF OutputTypes
  <2>4. QED
    BY <1>1, <2>1, <2>2, <2>3 DEF OutputStep
<1>2. CASE UNCHANGED outputSide
  BY <1>2 DEF OutputTypes, outputSide
<1>3. QED
  BY <1>1, <1>2, OutputFrame

-------------------------------------------------------------------------------
(* What the output adapters keep.                                          *)

LEMMA RollbackBacklog ==
  ASSUME LoopTypes, OutputTypes, BacklogAwaited, NEW s \in Sessions,
         ManagerCloses(s, current[s])
  PROVE  \A t \in Sessions : \A o \in buffered'[t] : t # s /\ o \in buffered[t]
  BY DEF ManagerCloses, StopOutputs, BacklogAwaited, Closed, LoopTypes, OutputTypes

LEMMA NextBacklog ==
  LoopTypes /\ OutputTypes /\ BacklogAwaited /\ [Next]_vars => BacklogAwaited'
<1> SUFFICES ASSUME LoopTypes, OutputTypes, BacklogAwaited, [Next]_vars
             PROVE  BacklogAwaited'
  OBVIOUS
<1> DEFINE kept == <<buffered, published>>
           closes == <<current, cancelled>>
<1>1. ASSUME UNCHANGED kept, UNCHANGED closes
      PROVE  BacklogAwaited'
  BY <1>1 DEF BacklogAwaited, Closed
<1>2. ASSUME NEW s \in Sessions, Rollback(s) \/ (CloseManager(s) /\ current[s] # 0)
      PROVE  BacklogAwaited'
  <2>1. ManagerCloses(s, current[s]) /\ \A t \in Sessions \ {s} : current'[t] = current[t]
    BY <1>2 DEF Rollback, CloseManager, setupVars, LoopTypes
  <2>2. \A t \in Sessions \ {s} : cancelled'[t] = cancelled[t] /\ published'[t] = published[t]
    BY <2>1 DEF ManagerCloses, StopOutputs, LoopTypes, OutputTypes
  <2>3. QED
    BY <2>1, <2>2, RollbackBacklog DEF BacklogAwaited, Closed
<1>3. ASSUME NEW s \in Sessions, CloseManager(s), current[s] = 0
      PROVE  BacklogAwaited'
  BY <1>1, <1>3 DEF CloseManager, setupVars, managerVars, trackVars, outputVars
<1>4. ASSUME NEW s \in Sessions, StartManager(s)
      PROVE  BacklogAwaited'
  <2>1. tried[s] \notin cancelled[s]
    BY <1>4 DEF StartManager, LoopTypes, Begun
  <2>2. UNCHANGED kept /\ UNCHANGED cancelled /\ current' = [current EXCEPT ![s] = tried[s]]
    BY <1>4 DEF StartManager, managerVars, outputVars
  <2>3. QED
    BY <2>1, <2>2 DEF BacklogAwaited, Closed, LoopTypes
<1>5. ASSUME NEW s \in Sessions, Delegate(s)
      PROVE  BacklogAwaited'
  BY <1>5 DEF Delegate, AddPublisher, managerVars, BacklogAwaited, Closed, OutputTypes
<1>6. ASSUME NEW s \in Sessions, NEW o \in Outputs, WriteSample(s, o) \/ BufferSample(s, o)
      PROVE  BacklogAwaited'
  <2>1. UNCHANGED closes /\ UNCHANGED published
    BY <1>6 DEF WriteSample, BufferSample, managerVars
  <2>2. \A t \in Sessions : \A p \in buffered'[t] :
          p \in buffered[t] \/ (t = s /\ p = o /\ StillUnread(s, o))
    BY <1>6 DEF WriteSample, BufferSample, OutputTypes
  <2>3. QED
    BY <2>1, <2>2 DEF BacklogAwaited, StillUnread, Closed
<1>7. ASSUME NEW s \in Sessions,
             \/ HandleSubscribe(s) \/ FactoryReturns(s) \/ FactoryRefuses(s)
             \/ SetReceiveSender(s) \/ SetConnectionHandler(s) \/ SubscribeAgain(s) \/ CloseHandler(s)
      PROVE  UNCHANGED closes
  BY <1>7 DEF HandleSubscribe, FactoryReturns, FactoryRefuses, SetReceiveSender,
     SetConnectionHandler, SubscribeAgain, CloseHandler, managerVars
<1>8. CASE \A s \in Sessions : ~OutputStep(s) /\ ~StartManager(s)
  <2>1. UNCHANGED kept
    BY <1>8, OutputFrame DEF outputSide
  <2>2. UNCHANGED closes
    BY <1>7, <1>8, LoopFrame DEF loopSide, LoopStep, OutputStep, SetUp
  <2>3. QED
    BY <1>1, <2>1, <2>2
<1>9. QED
  BY <1>2, <1>3, <1>4, <1>5, <1>6, <1>8 DEF OutputStep

-------------------------------------------------------------------------------
(* The server's map, the owner and Stop.                                   *)

\* Registered and not yet unregistered.
Joined == {"handshake", "waiting", "leaving"}

\* Who is in the map, is to be closed, or is being closed.
MapHoldsJoined ==
  \A a \in Addresses : sessions[a] # Nothing => Addr[sessions[a]] = a /\ owner[sessions[a]] \in Joined

ToCloseJoined == \A s \in toClose : server = "stopping" /\ owner[s] \in Joined

CloserKnown == \A s \in Sessions : closing[s] # "no" => owner[s] = "closing" \/ s \in toClose

\* Only a session that waits for its transport is open.
OpenWaits == \A s \in Sessions : moq[s] = "open" => owner[s] = "waiting"

NobodyUnconnected == \A s \in Sessions : transport[s] = "none" => owner[s] = "none"

\* A session that joined is in the map, unless the map lost it, and Stop gets
\* at what is in the map.
MappedOrMissed ==
  \A s \in Sessions : owner[s] \in Joined /\ ~missed[s] =>
    /\ sessions[Addr[s]] = s
    /\ server = "running" \/ s \in toClose \/ moq[s] = "closed"

Membership ==
  /\ MapHoldsJoined
  /\ ToCloseJoined
  /\ CloserKnown
  /\ OpenWaits
  /\ NobodyUnconnected
  /\ MappedOrMissed

LEMMA InitMembership == Init => Membership
  BY DEF Init, Membership, MapHoldsJoined, ToCloseJoined, CloserKnown, OpenWaits, NobodyUnconnected, MappedOrMissed, Joined

LEMMA RegisterMembership ==
  ASSUME OwnerTypes, Membership, NEW s \in Sessions, RegisterSession(s)
  PROVE  Membership'
<1> DEFINE a == Addr[s]
<1>0. a \in Addresses
  BY DEF Addresses
<1>1. /\ owner[s] = "starting" /\ server # "stopping"
      /\ owner' = [owner EXCEPT ![s] = "handshake"]
      /\ sessions' = [sessions EXCEPT ![a] = s]
      /\ missed' = [t \in Sessions |-> missed[t] \/ t = sessions[a] \/ (t = s /\ server = "stopped")]
      /\ UNCHANGED <<transport, moq, server, toClose, closing>>
  BY DEF RegisterSession, closeVars
<1>2. MapHoldsJoined'
  BY <1>0, <1>1 DEF OwnerTypes, Membership, MapHoldsJoined, Joined
<1>3. ToCloseJoined' /\ CloserKnown' /\ OpenWaits' /\ NobodyUnconnected'
  BY <1>1 DEF OwnerTypes, Membership, ToCloseJoined, CloserKnown, OpenWaits, NobodyUnconnected, Joined
<1>4. MappedOrMissed'
  <2> SUFFICES ASSUME NEW t \in Sessions, owner'[t] \in Joined, ~missed'[t]
               PROVE  sessions'[Addr[t]] = t /\ (server = "running" \/ t \in toClose \/ moq[t] = "closed")
    BY <1>1 DEF MappedOrMissed
  <2>1. CASE t = s
    BY <1>0, <1>1, <2>1 DEF OwnerTypes
  <2>2. CASE t # s
    <3>1. owner[t] \in Joined /\ ~missed[t] /\ t # sessions[a]
      BY <1>1, <2>2 DEF OwnerTypes
    <3>2. sessions[Addr[t]] = t /\ (server = "running" \/ t \in toClose \/ moq[t] = "closed")
      BY <3>1 DEF Membership, MappedOrMissed
    <3>3. QED
      BY <1>0, <1>1, <3>1, <3>2 DEF OwnerTypes
  <2>3. QED
    BY <2>1, <2>2
<1>5. QED
  BY <1>2, <1>3, <1>4 DEF Membership

LEMMA UnregisterMembership ==
  ASSUME OwnerTypes, Membership, NEW s \in Sessions, UnregisterSession(s)
  PROVE  Membership'
<1> DEFINE a == Addr[s]
<1>0. a \in Addresses
  BY DEF Addresses
<1>1. /\ owner[s] = "leaving" /\ server # "stopping"
      /\ owner' = [owner EXCEPT ![s] = "closing"]
      /\ closing' = [closing EXCEPT ![s] = "handler"]
      /\ sessions' = [sessions EXCEPT ![a] = Nothing]
      /\ missed' = [t \in Sessions |-> missed[t] \/ (t = sessions[a] /\ t # s)]
      /\ UNCHANGED <<transport, moq, server, toClose>>
  BY DEF UnregisterSession
<1>2. toClose = {}
  BY <1>1 DEF Membership, ToCloseJoined
<1>3. MapHoldsJoined'
  BY <1>0, <1>1 DEF OwnerTypes, Membership, MapHoldsJoined, Joined
<1>4. ToCloseJoined' /\ CloserKnown' /\ OpenWaits' /\ NobodyUnconnected'
  BY <1>1, <1>2 DEF OwnerTypes, Membership, ToCloseJoined, CloserKnown, OpenWaits, NobodyUnconnected
<1>5. MappedOrMissed'
  <2> SUFFICES ASSUME NEW t \in Sessions, owner'[t] \in Joined, ~missed'[t]
               PROVE  sessions'[Addr[t]] = t /\ (server = "running" \/ t \in toClose \/ moq[t] = "closed")
    BY <1>1 DEF MappedOrMissed
  <2>1. t # s
    BY <1>1 DEF OwnerTypes, Joined
  <2>2. owner[t] \in Joined /\ ~missed[t] /\ t # sessions[a]
    BY <1>1, <2>1 DEF OwnerTypes
  <2>3. sessions[Addr[t]] = t /\ (server = "running" \/ t \in toClose \/ moq[t] = "closed")
    BY <2>2 DEF Membership, MappedOrMissed
  <2>4. QED
    BY <1>0, <1>1, <2>2, <2>3 DEF OwnerTypes
<1>6. QED
  BY <1>3, <1>4, <1>5 DEF Membership

LEMMA CloseMembership ==
  ASSUME OwnerTypes, Membership, NEW s \in Sessions, StopCloses(s) \/ Close(s)
  PROVE  Membership'
<1>1. CASE StopCloses(s)
  BY <1>1 DEF StopCloses, OwnerTypes, Membership, MapHoldsJoined, ToCloseJoined, CloserKnown, OpenWaits, NobodyUnconnected,
     MappedOrMissed, ownerVars, serverVars
<1>2. CASE CloseHandler(s) \/ CloseManager(s)
  BY <1>2 DEF CloseHandler, CloseManager, OwnerTypes, Membership, MapHoldsJoined, ToCloseJoined,
     CloserKnown, OpenWaits, NobodyUnconnected, MappedOrMissed, ownerVars, serverVars
<1>3. CASE CloseMoq(s)
  <2>1. /\ closing' = [closing EXCEPT ![s] = "no"]
        /\ moq' = [moq EXCEPT ![s] = "closed"]
        /\ owner' = [owner EXCEPT ![s] = IF @ = "closing" THEN "done" ELSE @]
        /\ toClose' = toClose \ {s}
        /\ UNCHANGED <<transport, sessions, server, missed>>
    BY <1>3 DEF CloseMoq
  <2>2. \A t \in Sessions : owner'[t] \in Joined <=> owner[t] \in Joined
    BY <2>1 DEF OwnerTypes, Joined
  <2>3. MapHoldsJoined'
    BY <2>1, <2>2 DEF OwnerTypes, Membership, MapHoldsJoined
  <2>4. ToCloseJoined'
    BY <2>1, <2>2 DEF OwnerTypes, Membership, ToCloseJoined
  <2>5. CloserKnown' /\ OpenWaits' /\ NobodyUnconnected'
    BY <2>1 DEF OwnerTypes, Membership, CloserKnown, OpenWaits, NobodyUnconnected
  <2>6. MappedOrMissed'
    BY <2>1, <2>2 DEF OwnerTypes, Membership, MappedOrMissed
  <2>7. QED
    BY <2>3, <2>4, <2>5, <2>6 DEF Membership
<1>4. QED
  BY <1>1, <1>2, <1>3 DEF Close

LEMMA StopMembership ==
  ASSUME OwnerTypes, Membership, Stop \/ Stopped
  PROVE  Membership'
<1>1. UNCHANGED <<transport, sessions, owner, moq, missed, closing>>
  BY DEF Stop, Stopped, ownerVars, closeVars
<1>2. CASE Stop
  <2>1. server = "running" /\ server' = "stopping" /\ toClose' = {sessions[a] : a \in Addresses} \ {Nothing}
    BY <1>2 DEF Stop
  <2>2. toClose = {}
    BY <2>1 DEF Membership, ToCloseJoined
  <2>3. \A s \in toClose' : owner[s] \in Joined
    BY <2>1 DEF OwnerTypes, Membership, MapHoldsJoined
  <2>4. \A s \in Sessions : sessions[Addr[s]] = s => s \in toClose'
    BY <2>1 DEF Addresses
  <2>5. QED
    BY <1>1, <2>1, <2>2, <2>3, <2>4 DEF Membership, MapHoldsJoined, ToCloseJoined, CloserKnown,
       OpenWaits, NobodyUnconnected, MappedOrMissed
<1>3. CASE Stopped
  BY <1>1, <1>3 DEF Stopped, Membership, MapHoldsJoined, ToCloseJoined, CloserKnown, OpenWaits, NobodyUnconnected,
     MappedOrMissed
<1>4. QED
  BY <1>2, <1>3

LEMMA NextMembership ==
  OwnerTypes /\ Membership /\ [Next]_vars => Membership'
<1> SUFFICES ASSUME OwnerTypes, Membership, [Next]_vars PROVE Membership'
  OBVIOUS
<1>1. ASSUME NEW s \in Sessions, Connect(s) \/ TransportCloses(s) \/ Run(s) \/ OwnerWakes(s)
      PROVE  Membership'
  <2>1. UNCHANGED <<sessions, server, toClose, missed, closing>>
    BY <1>1 DEF Connect, TransportCloses, Run, OwnerWakes, serverVars, closeVars
  <2>2. \A t \in Sessions : /\ owner[t] = "closing" <=> owner'[t] = "closing"
                            /\ owner[t] \in Joined => owner'[t] \in Joined
                            /\ owner'[t] \in Joined => owner[t] \in Joined
                            /\ moq[t] = "closed" => moq'[t] = "closed"
    BY <1>1 DEF Connect, TransportCloses, Run, OwnerWakes, OwnerTypes, Joined, Membership, NobodyUnconnected
  <2>3. OpenWaits' /\ NobodyUnconnected'
    BY <1>1 DEF Connect, TransportCloses, Run, OwnerWakes, OwnerTypes, Membership, OpenWaits, NobodyUnconnected
  <2>4. QED
    BY <2>1, <2>2, <2>3 DEF OwnerTypes, Membership, MapHoldsJoined, ToCloseJoined, CloserKnown,
       MappedOrMissed
<1>2. CASE UNCHANGED ownerSide
  BY <1>2 DEF ownerSide, Membership, MapHoldsJoined, ToCloseJoined, CloserKnown, OpenWaits, NobodyUnconnected, MappedOrMissed
<1>3. QED
  BY <1>1, <1>2, OwnerFrame, RegisterMembership, UnregisterMembership, CloseMembership, StopMembership
     DEF OwnerStep

-------------------------------------------------------------------------------
(* The set-up and the close that may overtake it.                          *)

\* A session has a handler from the factory's return on, and is authenticated
\* when its set-up is over; the backend's session is its handler's.
HandlerFollowsLoop ==
  \A s \in Sessions :
    /\ handler[s] => authenticated[s] \/ loop[s] \in {"sender", "wire"}
    /\ authenticated[s] => loop[s] \in {"idle", "delegate"}
    /\ backend[s] = "active" => handler[s]

\* The owner has been through CloseHandler.
HandlerClosed(s) == owner[s] = "done" \/ (owner[s] = "closing" /\ closing[s] \in {"manager", "moq"})

\* What is active then, or may still become so, the close has overtaken.
ClosedOrOvertaken ==
  \A s \in Sessions :
    HandlerClosed(s) /\ (backend[s] = "active" \/ loop[s] \in {"manager", "factory"}) => overtaken[s]

LEMMA InitSetUp == Init => HandlerFollowsLoop /\ ClosedOrOvertaken
  BY DEF Init, HandlerFollowsLoop, ClosedOrOvertaken, HandlerClosed

LEMMA NextHandler ==
  LoopTypes /\ HandlerFollowsLoop /\ [Next]_vars => HandlerFollowsLoop'
<1> SUFFICES ASSUME LoopTypes, HandlerFollowsLoop, [Next]_vars PROVE HandlerFollowsLoop'
  OBVIOUS
<1>1. ASSUME NEW s \in Sessions, LoopStep(s)
      PROVE  HandlerFollowsLoop'
  <2>1. CASE SetUp(s) \/ SubscribeAgain(s)
    BY <2>1 DEF SetUp, HandleSubscribe, Verdicts, StartManager, FactoryReturns, FactoryRefuses,
       SetReceiveSender, SetConnectionHandler, Rollback, Delegate, SubscribeAgain,
       LoopTypes, HandlerFollowsLoop
  <2>2. CASE CloseHandler(s) \/ CloseManager(s)
    BY <2>2 DEF CloseHandler, CloseManager, setupVars, LoopTypes, HandlerFollowsLoop
  <2>3. QED
    BY <1>1, <2>1, <2>2 DEF LoopStep, SetUp
<1>2. CASE UNCHANGED loopSide
  BY <1>2 DEF loopSide, HandlerFollowsLoop
<1>3. QED
  BY <1>1, <1>2, LoopFrame

\* A step of the loop alone: nothing becomes active that was not on its way.
LEMMA LoopOvertaken ==
  ASSUME OwnerTypes, LoopTypes, Membership, HandlerFollowsLoop, ClosedOrOvertaken,
         NEW s \in Sessions, SetUp(s) \/ SubscribeAgain(s)
  PROVE  ClosedOrOvertaken'
<1>1. UNCHANGED <<owner, closing, overtaken>>
  BY DEF SetUp, HandleSubscribe, StartManager, FactoryReturns, FactoryRefuses, SetReceiveSender,
     SetConnectionHandler, Rollback, Delegate, SubscribeAgain, ownerVars, closeVars
<1>2. CASE HandleSubscribe(s)
  <2>1. owner[s] = "waiting"
    BY <1>2 DEF HandleSubscribe, Membership, OpenWaits
  <2>2. UNCHANGED backend /\ \A t \in Sessions \ {s} : loop'[t] = loop[t]
    BY <1>2 DEF HandleSubscribe, LoopTypes
  <2>3. QED
    BY <1>1, <2>1, <2>2 DEF ClosedOrOvertaken, HandlerClosed
<1>3. CASE ~HandleSubscribe(s)
  <2>1. /\ \A t \in Sessions \ {s} : loop'[t] = loop[t] /\ backend'[t] = backend[t]
        /\ loop'[s] \in {"manager", "factory"} => loop[s] \in {"manager", "factory"}
        /\ backend'[s] = "active" => backend[s] = "active" \/ loop[s] = "factory"
    BY <1>3 DEF SetUp, StartManager, FactoryReturns, FactoryRefuses, SetReceiveSender,
       SetConnectionHandler, Rollback, Delegate, SubscribeAgain, LoopTypes
  <2>2. QED
    BY <1>1, <2>1 DEF ClosedOrOvertaken, HandlerClosed
<1>4. QED
  BY <1>2, <1>3

LEMMA OwnerOvertaken ==
  ASSUME OwnerTypes, LoopTypes, Membership, HandlerFollowsLoop, ClosedOrOvertaken,
         NEW s \in Sessions, OwnerStep(s)
  PROVE  ClosedOrOvertaken'
<1>1. CASE CloseHandler(s)
  <2>1. /\ UNCHANGED <<owner, loop, handler>>
        /\ \A t \in Sessions \ {s} : /\ closing'[t] = closing[t]
                                     /\ backend'[t] = backend[t]
                                     /\ overtaken'[t] = overtaken[t]
    BY <1>1 DEF CloseHandler, ownerVars, OwnerTypes, LoopTypes
  <2>2. backend'[s] = "active" \/ loop[s] \in {"manager", "factory"} => overtaken'[s]
    BY <1>1 DEF CloseHandler, HasHandler, LoopTypes, HandlerFollowsLoop
  <2>3. QED
    BY <2>1, <2>2 DEF ClosedOrOvertaken, HandlerClosed
<1>2. CASE ~CloseHandler(s)
  <2>1. UNCHANGED <<loop, backend, overtaken>>
    BY <1>2 DEF OwnerStep, Connect, TransportCloses, RegisterSession, Run, OwnerWakes,
       UnregisterSession, StopCloses, Close, CloseManager, CloseMoq, setupVars, closeVars
  <2>2. ASSUME NEW t \in Sessions, HandlerClosed(t)'
        PROVE  HandlerClosed(t)
    <3>1. CASE Connect(s) \/ TransportCloses(s) \/ RegisterSession(s) \/ Run(s) \/ OwnerWakes(s)
      BY <2>2, <3>1 DEF Connect, TransportCloses, RegisterSession, Run, OwnerWakes, closeVars, OwnerTypes,
         HandlerClosed
    <3>2. CASE UnregisterSession(s)
      BY <2>2, <3>2 DEF UnregisterSession, OwnerTypes, HandlerClosed
    <3>3. CASE StopCloses(s)
      BY <2>2, <3>3 DEF StopCloses, ownerVars, OwnerTypes, HandlerClosed
    <3>4. CASE CloseManager(s)
      BY <2>2, <3>4 DEF CloseManager, ownerVars, OwnerTypes, HandlerClosed
    <3>5. CASE CloseMoq(s)
      BY <2>2, <3>5 DEF CloseMoq, OwnerTypes, HandlerClosed
    <3>6. QED
      BY <1>2, <3>1, <3>2, <3>3, <3>4, <3>5 DEF OwnerStep, Close
  <2>3. QED
    BY <2>1, <2>2 DEF ClosedOrOvertaken
<1>3. QED
  BY <1>1, <1>2

LEMMA NextOvertaken ==
  /\ OwnerTypes /\ LoopTypes /\ Membership /\ HandlerFollowsLoop
  /\ ClosedOrOvertaken /\ [Next]_vars
  => ClosedOrOvertaken'
<1> SUFFICES ASSUME OwnerTypes, LoopTypes, Membership, HandlerFollowsLoop, ClosedOrOvertaken, [Next]_vars
             PROVE  ClosedOrOvertaken'
  OBVIOUS
<1>1. CASE Stop \/ Stopped
  BY <1>1 DEF Stop, Stopped, ownerVars, setupVars, closeVars, ClosedOrOvertaken, HandlerClosed
<1>2. CASE /\ ~Stop /\ ~Stopped
           /\ \A s \in Sessions : ~OwnerStep(s) /\ ~SetUp(s) /\ ~SubscribeAgain(s)
  <2>1. UNCHANGED ownerSide
    BY <1>2, OwnerFrame
  <2>2. UNCHANGED loopSide
    BY <1>2, LoopFrame DEF LoopStep, SetUp, OwnerStep, Close
  <2>3. QED
    BY <2>1, <2>2 DEF ownerSide, loopSide, ClosedOrOvertaken, HandlerClosed
<1>3. QED
  BY <1>1, <1>2, OwnerOvertaken, LoopOvertaken

-------------------------------------------------------------------------------
(* The inputs.                                                             *)

Stages == [i : DOMAIN Inputs, at : {"none", "prefix", "track", "created", "end"}]
Readers == [running : BOOLEAN, wired : BOOLEAN, stored : BOOLEAN, stopped : BOOLEAN]

InputTypes ==
  /\ DOMAIN stage = Sessions /\ \A s \in Sessions : stage[s] \in [Attempts(s) -> Stages]
  /\ DOMAIN reader = Sessions /\ \A s \in Sessions : reader[s] \in [Attempts(s) -> [Kinds -> Readers]]
  /\ dropped \in [Sessions -> SUBSET Kinds]

\* The attempts for which the message loop has answered: not the one whose
\* set-up holds it.
AnsweredUpTo(s) == IF loop[s] \in SettingUp \cup {"manager"} THEN tried[s] - 1 ELSE tried[s]

Running(s, n, k) == reader[s][n][k].running

ReadersAnswered ==
  \A s \in Sessions : \A n \in Attempts(s) :
    /\ stage[s][n].at # "none" => n <= Begun(s)
    /\ \A k \in Kinds : Running(s, n, k) => n <= AnsweredUpTo(s)

\* In a session that is set up the manager has the connection handler, and so
\* has every input handler of it.
ReadersWired ==
  \A s \in Sessions : authenticated[s] =>
    /\ current[s] \in connected[s]
    /\ \A k \in Kinds :
         current[s] \in Attempts(s) /\ Running(s, current[s], k) => reader[s][current[s]][k].wired

Forwarding ==
  /\ InputTypes
  /\ ReadersAnswered
  /\ ReadersWired
  /\ InputForwarded

\* Most steps start no reader and take no handler from one.
NoNewReader ==
  \A s \in Sessions : \A n \in Attempts(s), k \in Kinds :
    Running(s, n, k)' => Running(s, n, k) /\ (reader[s][n][k].wired => reader'[s][n][k].wired)

LEMMA FirstInput == 1 \in DOMAIN Inputs
  OBVIOUS

LEMMA NextKindIsStage ==
  ASSUME NEW i \in DOMAIN Inputs
  PROVE  NextKind(i) \in Stages /\ NextKind(i).at # "none"
<1>1. Len(Inputs) \in Nat /\ DOMAIN Inputs = 1..Len(Inputs)
  OBVIOUS
<1>2. QED
  BY <1>1 DEF NextKind, Stages

LEMMA InitForwarding == Init => Forwarding
<1> SUFFICES ASSUME Init PROVE Forwarding
  OBVIOUS
<1>1. InputTypes
  BY FirstInput DEF Init, InputTypes, Stages, Readers, NoReader
<1>2. ReadersAnswered /\ ReadersWired /\ InputForwarded
  BY DEF Init, ReadersAnswered, ReadersWired, InputForwarded, Running, NoReader
<1>3. QED
  BY <1>1, <1>2 DEF Forwarding

\* One stage changes.
LEMMA OneStage ==
  ASSUME InputTypes, NEW s \in Sessions, NEW n \in Attempts(s), NEW g \in Stages,
         stage' = [stage EXCEPT ![s][n] = g]
  PROVE  /\ DOMAIN stage' = Sessions
         /\ \A t \in Sessions : stage'[t] \in [Attempts(t) -> Stages]
         /\ \A t \in Sessions : \A m \in Attempts(t) :
              stage'[t][m] = IF t = s /\ m = n THEN g ELSE stage[t][m]
  BY DEF InputTypes

\* The loop goes on to later attempts only, and a session that is set up keeps
\* its manager.
LoopGoesOn ==
  \A s \in Sessions :
    /\ Begun(s) <= Begun(s)' /\ Begun(s)' \in Int /\ Begun(s) \in Int
    /\ AnsweredUpTo(s) <= AnsweredUpTo(s)' /\ AnsweredUpTo(s)' \in Int /\ AnsweredUpTo(s) \in Int

ManagerKept ==
  \A s \in Sessions : authenticated'[s] =>
    authenticated[s] /\ current'[s] = current[s] /\ connected[s] \subseteq connected'[s]

LEMMA StepGoesOn ==
  ASSUME LoopTypes, [Next]_vars
  PROVE  LoopGoesOn
<1>1. ASSUME NEW s \in Sessions, LoopStep(s)
      PROVE  LoopGoesOn
  <2>1. CASE SetUp(s) \/ SubscribeAgain(s)
    BY <2>1 DEF SetUp, HandleSubscribe, Verdicts, StartManager, FactoryReturns, FactoryRefuses,
       SetReceiveSender, SetConnectionHandler, Rollback, Delegate, SubscribeAgain,
       LoopTypes, LoopGoesOn, Begun, AnsweredUpTo, SettingUp
  <2>2. CASE CloseHandler(s) \/ CloseManager(s)
    <3>1. UNCHANGED <<loop, tried>>
      BY <2>2 DEF CloseHandler, CloseManager, setupVars
    <3>2. QED
      BY <3>1 DEF LoopTypes, LoopGoesOn, Begun, AnsweredUpTo
  <2>3. QED
    BY <1>1, <2>1, <2>2 DEF LoopStep, SetUp
<1>2. CASE UNCHANGED loopSide
  BY <1>2 DEF loopSide, LoopTypes, LoopGoesOn, Begun, AnsweredUpTo
<1>3. QED
  BY <1>1, <1>2, LoopFrame

LEMMA StepKeepsManager ==
  ASSUME LoopTypes, HandlerFollowsLoop, [Next]_vars, \A s \in Sessions : ~SetConnectionHandler(s)
  PROVE  ManagerKept
<1>1. ASSUME NEW s \in Sessions, LoopStep(s)
      PROVE  ManagerKept
  <2>1. CASE StartManager(s) \/ Rollback(s)
    <3>1. ~authenticated[s] /\ UNCHANGED <<authenticated, connected>>
      BY <2>1 DEF StartManager, Rollback, ManagerCloses, managerVars, HandlerFollowsLoop
    <3>2. \A t \in Sessions \ {s} : current'[t] = current[t]
      BY <2>1 DEF StartManager, Rollback, LoopTypes
    <3>3. QED
      BY <3>1, <3>2 DEF ManagerKept
  <2>2. CASE ~(StartManager(s) \/ Rollback(s))
    <3>1. UNCHANGED <<authenticated, connected, current>>
      BY <1>1, <2>2 DEF LoopStep, SetUp, HandleSubscribe, FactoryReturns, FactoryRefuses,
         SetReceiveSender, Delegate, SubscribeAgain, CloseHandler, CloseManager, ManagerCloses,
         setupVars, managerVars
    <3>2. QED
      BY <3>1 DEF ManagerKept
  <2>3. QED
    BY <2>1, <2>2
<1>2. CASE UNCHANGED loopSide
  BY <1>2 DEF loopSide, ManagerKept
<1>3. QED
  BY <1>1, <1>2, LoopFrame

\* Where no reader is started, and none but a begun attempt gets a goroutine.
LEMMA QuietForwarding ==
  ASSUME LoopTypes, Forwarding, InputTypes', LoopGoesOn, ManagerKept, NoNewReader, UNCHANGED dropped,
         \A s \in Sessions : \A n \in Attempts(s) :
           stage'[s][n].at # "none" => stage[s][n].at # "none" \/ n <= Begun(s)'
  PROVE  Forwarding'
<1>1. ReadersAnswered'
  <2> SUFFICES ASSUME NEW s \in Sessions, NEW n \in Attempts(s)
               PROVE  /\ stage'[s][n].at # "none" => n <= Begun(s)'
                      /\ \A k \in Kinds : Running(s, n, k)' => n <= AnsweredUpTo(s)'
    BY DEF ReadersAnswered
  <2>1. n \in Int
    BY DEF Attempts
  <2>2. QED
    BY <2>1 DEF Forwarding, ReadersAnswered, LoopGoesOn, NoNewReader
<1>2. ReadersWired'
  BY DEF Forwarding, ReadersWired, ManagerKept, NoNewReader
<1>3. InputForwarded'
  BY DEF Forwarding, InputForwarded
<1>4. QED
  BY <1>1, <1>2, <1>3 DEF Forwarding

LEMMA UnchangedReaders ==
  ASSUME UNCHANGED reader
  PROVE  NoNewReader
  BY DEF NoNewReader, Running

\* Stop of the manager's handlers, and of one.
LEMMA ManagerReaders ==
  ASSUME LoopTypes, InputTypes, NEW s \in Sessions, current[s] # 0, ManagerCloses(s, current[s])
  PROVE  InputTypes' /\ NoNewReader /\ UNCHANGED <<stage, dropped>>
<1> DEFINE n == current[s]
<1>1. n \in Attempts(s)
  <2>1. current[s] \in Nat /\ tried[s] \in Nat /\ Tries[s] \in Nat /\ tried[s] <= Tries[s]
    BY DEF LoopTypes
  <2>2. current[s] <= tried[s]
    BY <2>1 DEF LoopTypes, Begun
  <2>3. QED
    BY <2>1, <2>2 DEF Attempts
<1>2. /\ reader' = [reader EXCEPT ![s][n] = StopHandlers(@)]
      /\ UNCHANGED <<stage, dropped>>
  BY DEF ManagerCloses
<1>3. reader[s][n] \in [Kinds -> Readers]
  BY <1>1 DEF InputTypes
<1>4. StopHandlers(reader[s][n]) \in [Kinds -> Readers]
  BY <1>3 DEF StopHandlers, Readers
<1>5. \A k \in Kinds : /\ StopHandlers(reader[s][n])[k].running = reader[s][n][k].running
                       /\ StopHandlers(reader[s][n])[k].wired = reader[s][n][k].wired
  BY <1>3 DEF StopHandlers, Readers
<1>6. InputTypes'
  BY <1>1, <1>2, <1>4 DEF InputTypes
<1>7. NoNewReader
  BY <1>1, <1>2, <1>5 DEF InputTypes, NoNewReader, Running
<1>8. QED
  BY <1>2, <1>6, <1>7

LEMMA InputQuiet ==
  ASSUME LoopTypes, Forwarding, NEW s \in Sessions, NEW n \in Attempts(s),
         \/ HandleAnnouncements(s, n) \/ StoreHandler(s, n)
         \/ \E k \in Kinds : ReadLoopStops(s, n, k) \/ ReadFails(s, n, k)
  PROVE  /\ InputTypes' /\ NoNewReader /\ UNCHANGED dropped
         /\ \A t \in Sessions : \A m \in Attempts(t) :
              stage'[t][m].at # "none" => stage[t][m].at # "none"
<1> DEFINE g == stage[s][n]
           Later == \A t \in Sessions : \A m \in Attempts(t) :
                      stage'[t][m].at # "none" => stage[t][m].at # "none"
<1>1. g \in Stages /\ NextKind(g.i) \in Stages /\ Inputs[g.i] \in Kinds
  BY NextKindIsStage DEF Forwarding, InputTypes, Stages, Kinds
<1>2. InputTypes
  BY DEF Forwarding
<1>3. CASE HandleAnnouncements(s, n)
  <2>1. PICK h \in Stages : stage' = [stage EXCEPT ![s][n] = h]
    BY <1>1, <1>3 DEF HandleAnnouncements, Stages
  <2>2. g.at = "prefix" /\ UNCHANGED <<reader, dropped>>
    BY <1>3 DEF HandleAnnouncements
  <2>3. InputTypes' /\ Later
    BY <1>2, <2>1, <2>2, OneStage DEF InputTypes
  <2>4. QED
    BY <2>2, <2>3, UnchangedReaders
<1>4. CASE StoreHandler(s, n)
  <2> DEFINE k == Inputs[g.i]
             r == [reader[s][n][k] EXCEPT !.stored = TRUE]
  <2>1. g.at = "created" /\ UNCHANGED dropped /\ stage' = [stage EXCEPT ![s][n] = NextKind(g.i)]
    BY <1>4 DEF StoreHandler
  <2>2. reader[s][n][k] \in Readers
    BY <1>1, <1>2 DEF InputTypes
  <2>3. r \in Readers /\ r.running = reader[s][n][k].running /\ r.wired = reader[s][n][k].wired
    BY <2>2 DEF Readers
  <2>4. reader' = [reader EXCEPT ![s][n][k] = r]
    BY <1>4 DEF StoreHandler
  <2> HIDE DEF r, k
  <2>5. k \in Kinds
    BY <1>1 DEF k
  <2>6. /\ DOMAIN reader' = Sessions
        /\ \A t \in Sessions : reader'[t] \in [Attempts(t) -> [Kinds -> Readers]]
        /\ \A t \in Sessions : \A m \in Attempts(t), j \in Kinds :
             reader'[t][m][j] = IF t = s /\ m = n /\ j = k THEN r ELSE reader[t][m][j]
    BY <1>2, <2>3, <2>4, <2>5 DEF InputTypes
  <2>7. NoNewReader
    BY <2>3, <2>6 DEF NoNewReader, Running
  <2>8. InputTypes' /\ Later
    BY <1>1, <1>2, <2>1, <2>6, OneStage DEF InputTypes
  <2>9. QED
    BY <2>1, <2>7, <2>8
<1>5. ASSUME NEW k \in Kinds, ReadLoopStops(s, n, k) \/ ReadFails(s, n, k)
      PROVE  InputTypes' /\ NoNewReader /\ UNCHANGED <<stage, dropped>>
  <2>1. reader' = [reader EXCEPT ![s][n][k] = NoReader] /\ UNCHANGED <<stage, dropped>>
    BY <1>5 DEF ReadLoopStops, ReadFails
  <2>2. NoReader \in Readers /\ ~NoReader.running
    BY DEF NoReader, Readers
  <2>3. /\ DOMAIN reader' = Sessions
        /\ \A t \in Sessions : reader'[t] \in [Attempts(t) -> [Kinds -> Readers]]
        /\ \A t \in Sessions : \A m \in Attempts(t), j \in Kinds :
             reader'[t][m][j] = IF t = s /\ m = n /\ j = k THEN NoReader ELSE reader[t][m][j]
    BY <1>2, <2>1, <2>2 DEF InputTypes
  <2>4. InputTypes'
    BY <1>2, <2>1, <2>3 DEF InputTypes
  <2>5. NoNewReader
    BY <2>2, <2>3 DEF NoNewReader, Running
  <2>6. QED
    BY <2>1, <2>4, <2>5
<1>6. QED
  BY <1>3, <1>4, <1>5

\* An object of a session that is set up finds the handler: none is dropped.
LEMMA ProcessForwarding ==
  ASSUME Forwarding, NEW s \in Sessions, NEW n \in Attempts(s), NEW k \in Kinds, ProcessObject(s, n, k)
  PROVE  UNCHANGED inputSide
<1>1. reader[s][n][k].wired \/ ~authenticated[s] \/ n # current[s]
  BY DEF ProcessObject, Forwarding, ReadersWired, Running
<1>2. dropped' = [dropped EXCEPT ![s] = dropped[s]] /\ UNCHANGED <<stage, reader>>
  BY <1>1 DEF ProcessObject
<1>3. dropped' = dropped
  BY <1>2 DEF Forwarding, InputTypes
<1>4. QED
  BY <1>2, <1>3 DEF inputSide

LEMMA SubscribeForwarding ==
  ASSUME LoopTypes, Forwarding, NEW s \in Sessions, NEW n \in Attempts(s), SubscribeToInput(s, n),
         LoopGoesOn, ManagerKept
  PROVE  Forwarding'
<1> DEFINE g == stage[s][n]
           k == Inputs[g.i]
           w == WiredFromStart(s, n)
           r == [reader[s][n][k] EXCEPT !.running = TRUE, !.wired = w]
<1>1. InputTypes /\ g \in Stages /\ NextKind(g.i) \in Stages /\ k \in Kinds
  BY NextKindIsStage DEF Forwarding, InputTypes, Stages, Kinds
<1>2. PICK h \in Stages : stage' = [stage EXCEPT ![s][n] = h]
  <2>1. [g EXCEPT !.at = "created"] \in Stages
    BY <1>1 DEF Stages
  <2>2. QED
    BY <1>1, <2>1 DEF SubscribeToInput
<1>3. g.at = "track" /\ UNCHANGED <<loop, tried, authenticated, current, connected, dropped>>
  BY DEF SubscribeToInput, setupVars, managerVars
<1>4. \A t \in Sessions : \A m \in Attempts(t) : stage'[t][m].at # "none" => stage[t][m].at # "none"
  BY <1>1, <1>2, <1>3, OneStage
<1>5. CASE UNCHANGED reader
  <2>1. InputTypes'
    BY <1>1, <1>2, <1>3, <1>5, OneStage DEF InputTypes
  <2>2. QED
    BY <1>3, <1>4, <1>5, <2>1, UnchangedReaders, QuietForwarding
<1>6. CASE Answered(s) /\ reader' = [reader EXCEPT ![s][n][k].running = TRUE,
                                                   ![s][n][k].wired = WiredFromStart(s, n)]
  <2>1. reader[s][n][k] \in Readers
    BY <1>1 DEF InputTypes
  <2>2. reader' = [reader EXCEPT ![s][n][k] = r]
    <3>1. DOMAIN reader = Sessions /\ reader[s] \in [Attempts(s) -> [Kinds -> Readers]]
      BY <1>1 DEF InputTypes
    <3>2. reader' = [reader EXCEPT ![s][n][k].running = TRUE, ![s][n][k].wired = w]
      BY <1>6
    <3> HIDE DEF w, k
    <3>3. QED
      BY <1>1, <2>1, <3>1, <3>2 DEF Readers
  <2>3. r \in Readers /\ (r.wired <=> n \in connected[s])
    <3>1. w \in BOOLEAN /\ (w <=> n \in connected[s])
      BY DEF WiredFromStart
    <3> HIDE DEF w
    <3>2. QED
      BY <2>1, <3>1 DEF Readers
  <2> HIDE DEF r, k
  <2>4. /\ DOMAIN reader' = Sessions
        /\ \A t \in Sessions : reader'[t] \in [Attempts(t) -> [Kinds -> Readers]]
        /\ \A t \in Sessions : \A m \in Attempts(t), j \in Kinds :
             reader'[t][m][j] = IF t = s /\ m = n /\ j = k THEN r ELSE reader[t][m][j]
    BY <1>1, <2>2, <2>3 DEF InputTypes
  <2>5. InputTypes'
    BY <1>1, <1>2, <1>3, <2>4, OneStage DEF InputTypes
  <2>6. n <= AnsweredUpTo(s)
    <3>1. n <= Begun(s)
      BY <1>3 DEF Forwarding, ReadersAnswered
    <3>2. QED
      BY <1>6, <3>1 DEF Answered, Begun, AnsweredUpTo, SettingUp
  <2>7. ReadersAnswered'
    <3>1. \A t \in Sessions : Begun(t)' = Begun(t) /\ AnsweredUpTo(t)' = AnsweredUpTo(t)
      BY <1>3 DEF Begun, AnsweredUpTo
    <3>2. QED
      BY <1>4, <2>4, <2>6, <3>1 DEF Forwarding, ReadersAnswered, Running
  <2>8. ReadersWired'
    <3> SUFFICES ASSUME NEW t \in Sessions, authenticated[t]
                 PROVE  /\ current[t] \in connected[t]
                        /\ \A j \in Kinds : current[t] \in Attempts(t) /\ reader'[t][current[t]][j].running
                             => reader'[t][current[t]][j].wired
      BY <1>3 DEF ReadersWired, Running
    <3>1. /\ current[t] \in connected[t]
          /\ \A j \in Kinds : current[t] \in Attempts(t) /\ reader[t][current[t]][j].running
               => reader[t][current[t]][j].wired
      BY DEF Forwarding, ReadersWired, Running
    <3>2. t = s /\ n = current[t] => r.wired
      BY <2>3, <3>1
    <3>3. ASSUME NEW j \in Kinds, current[t] \in Attempts(t), reader'[t][current[t]][j].running
          PROVE  reader'[t][current[t]][j].wired
      <4>1. CASE t = s /\ n = current[t] /\ j = k
        <5>1. reader'[t][current[t]][j] = r
          BY <2>4, <3>3, <4>1
        <5>2. QED
          BY <3>2, <4>1, <5>1
      <4>2. CASE ~(t = s /\ n = current[t] /\ j = k)
        <5>1. reader'[t][current[t]][j] = reader[t][current[t]][j]
          BY <2>4, <3>3, <4>2
        <5>2. QED
          BY <3>1, <3>3, <5>1
      <4>3. QED
        BY <4>1, <4>2
    <3>4. QED
      BY <3>1, <3>3
  <2>9. InputForwarded'
    BY <1>3 DEF Forwarding, InputForwarded
  <2>10. QED
    BY <2>5, <2>7, <2>8, <2>9 DEF Forwarding
<1>7. QED
  BY <1>5, <1>6 DEF SubscribeToInput

\* No reader of the attempt is running when it gets the connection handler: the
\* loop has answered nobody since the attempt began.
LEMMA ConnectionForwarding ==
  ASSUME LoopTypes, Forwarding, LoopGoesOn, NEW s \in Sessions, SetConnectionHandler(s)
  PROVE  Forwarding'
<1> DEFINE n == current[s]
           rs == [k \in Kinds |-> IF reader[s][n][k].stored THEN Wired(reader[s][n][k]) ELSE reader[s][n][k]]
<1>1. /\ loop[s] = "wire"
      /\ reader' = [reader EXCEPT ![s][n] = rs]
      /\ connected' = [connected EXCEPT ![s] = @ \cup {n}]
      /\ authenticated' = [authenticated EXCEPT ![s] = TRUE]
      /\ UNCHANGED <<stage, dropped, current>>
  BY DEF SetConnectionHandler
<1>2. n = tried[s] /\ n \in Attempts(s) /\ AnsweredUpTo(s) = n - 1
  <2>1. tried[s] \in Nat /\ Tries[s] \in Nat /\ tried[s] > 0 /\ n = tried[s] /\ tried[s] <= Tries[s]
    BY <1>1 DEF LoopTypes, SettingUp
  <2>2. QED
    BY <1>1, <2>1 DEF Attempts, AnsweredUpTo, SettingUp
<1>3. \A k \in Kinds : ~Running(s, n, k)
  BY <1>2 DEF Forwarding, ReadersAnswered, Attempts
<1>4. reader[s][n] \in [Kinds -> Readers]
  BY <1>2 DEF Forwarding, InputTypes
<1>5. rs \in [Kinds -> Readers] /\ \A k \in Kinds : ~rs[k].running
  BY <1>3, <1>4 DEF Running, Readers, Wired
<1> HIDE DEF rs, n
<1>6. /\ DOMAIN reader' = Sessions
      /\ \A t \in Sessions : reader'[t] \in [Attempts(t) -> [Kinds -> Readers]]
      /\ \A t \in Sessions : \A m \in Attempts(t) :
           reader'[t][m] = IF t = s /\ m = n THEN rs ELSE reader[t][m]
  BY <1>1, <1>2, <1>5 DEF Forwarding, InputTypes
<1>7. InputTypes'
  BY <1>1, <1>6 DEF Forwarding, InputTypes
<1>8. ReadersAnswered'
  <2> SUFFICES ASSUME NEW t \in Sessions, NEW m \in Attempts(t)
               PROVE  /\ stage'[t][m].at # "none" => m <= Begun(t)'
                      /\ \A k \in Kinds : Running(t, m, k)' => m <= AnsweredUpTo(t)'
    BY DEF ReadersAnswered
  <2>1. m \in Int
    BY DEF Attempts
  <2>2. \A k \in Kinds : Running(t, m, k)' => Running(t, m, k)
    BY <1>5, <1>6 DEF Running
  <2>3. QED
    BY <1>1, <2>1, <2>2 DEF Forwarding, ReadersAnswered, LoopGoesOn
<1>9. ReadersWired'
  <2> SUFFICES ASSUME NEW t \in Sessions, authenticated'[t]
               PROVE  /\ current'[t] \in connected'[t]
                      /\ \A k \in Kinds :
                           current'[t] \in Attempts(t) /\ Running(t, current[t], k)'
                             => reader'[t][current'[t]][k].wired
    BY <1>1 DEF ReadersWired, Running
  <2>1. CASE t = s
    <3>1. current'[t] = n /\ n \in connected'[t]
      BY <1>1, <2>1 DEF LoopTypes, n
    <3>2. \A k \in Kinds : ~Running(t, current[t], k)'
      BY <1>1, <1>2, <1>5, <1>6, <2>1, <3>1 DEF Running, n
    <3>3. QED
      BY <1>1, <3>1, <3>2
  <2>2. CASE t # s
    <3>1. current'[t] = current[t] /\ connected'[t] = connected[t] /\ authenticated[t]
      BY <1>1, <2>2 DEF LoopTypes
    <3>2. \A m \in Attempts(t) : reader'[t][m] = reader[t][m]
      BY <1>6, <2>2
    <3>3. QED
      BY <1>1, <3>1, <3>2 DEF Forwarding, ReadersWired, Running
  <2>3. QED
    BY <2>1, <2>2
<1>10. QED
  BY <1>1, <1>7, <1>8, <1>9 DEF Forwarding, InputForwarded

LEMMA NextForwarding ==
  LoopTypes /\ HandlerFollowsLoop /\ Forwarding /\ [Next]_vars => Forwarding'
<1> SUFFICES ASSUME LoopTypes, HandlerFollowsLoop, Forwarding, [Next]_vars PROVE Forwarding'
  OBVIOUS
<1>1. LoopGoesOn
  BY StepGoesOn
<1>2. ASSUME NEW s \in Sessions, SetConnectionHandler(s) PROVE Forwarding'
  BY <1>1, <1>2, ConnectionForwarding
<1>3. CASE \A s \in Sessions : ~SetConnectionHandler(s)
  <2>1. ManagerKept
    BY <1>3, StepKeepsManager
  <2>2. ASSUME UNCHANGED inputSide PROVE Forwarding'
    <3>1. InputTypes' /\ UNCHANGED <<stage, reader, dropped>>
      BY <2>2 DEF Forwarding, InputTypes, inputSide
    <3>2. QED
      BY <1>1, <2>1, <3>1, UnchangedReaders, QuietForwarding
  <2>3. ASSUME NEW s \in Sessions, StartManager(s) PROVE Forwarding'
    <3> DEFINE n == tried[s]
               g == [i |-> 1, at |-> "prefix"]
    <3>1. stage' = [stage EXCEPT ![s][n] = g] /\ UNCHANGED <<reader, dropped>>
      BY <2>3 DEF StartManager
    <3>2. n \in Attempts(s) /\ n \in Nat
      BY <2>3 DEF StartManager, LoopTypes, Attempts
    <3>3. Begun(s)' = n
      BY <2>3 DEF StartManager, LoopTypes, Begun
    <3>4. g \in Stages
      BY FirstInput DEF Stages
    <3> HIDE DEF g, n
    <3>5. /\ DOMAIN stage' = Sessions
          /\ \A t \in Sessions : stage'[t] \in [Attempts(t) -> Stages]
          /\ \A t \in Sessions : \A m \in Attempts(t) :
               stage'[t][m] = IF t = s /\ m = n THEN g ELSE stage[t][m]
      BY <3>1, <3>2, <3>4, OneStage DEF Forwarding
    <3>6. InputTypes'
      BY <3>1, <3>5 DEF Forwarding, InputTypes
    <3>7. ASSUME NEW t \in Sessions, NEW m \in Attempts(t), stage'[t][m].at # "none"
          PROVE  stage[t][m].at # "none" \/ m <= Begun(t)'
      <4>1. CASE t = s /\ m = n
        <5>1. Begun(t)' = n
          BY <3>3, <4>1 DEF Begun
        <5>2. QED
          BY <3>2, <4>1, <5>1
      <4>2. CASE ~(t = s /\ m = n)
        BY <3>5, <3>7, <4>2
      <4>3. QED
        BY <4>1, <4>2
    <3>8. QED
      BY <1>1, <2>1, <3>1, <3>6, <3>7, UnchangedReaders, QuietForwarding
  <2>4. ASSUME NEW s \in Sessions, Rollback(s) \/ CloseManager(s) PROVE Forwarding'
    <3>1. CASE current[s] # 0 /\ ManagerCloses(s, current[s])
      <4>1. InputTypes' /\ NoNewReader /\ UNCHANGED <<stage, dropped>>
        BY <3>1, ManagerReaders DEF Forwarding
      <4>2. QED
        BY <1>1, <2>1, <4>1, QuietForwarding
    <3>2. CASE UNCHANGED trackVars
      BY <2>2, <3>2 DEF trackVars, inputVars, inputSide
    <3>3. CASE Rollback(s)
      <4>1. loop[s] \in SettingUp
        BY <3>3 DEF Rollback, SettingUp
      <4>2. current[s] # 0
        BY <4>1 DEF LoopTypes
      <4>3. QED
        BY <3>1, <3>3, <4>2 DEF Rollback
    <3>4. CASE CloseManager(s)
      BY <3>1, <3>2, <3>4 DEF CloseManager
    <3>5. QED
      BY <2>4, <3>3, <3>4
  <2>5. ASSUME NEW s \in Sessions, NEW n \in Attempts(s),
               \/ HandleAnnouncements(s, n) \/ StoreHandler(s, n)
               \/ \E k \in Kinds : ReadLoopStops(s, n, k) \/ ReadFails(s, n, k)
        PROVE  Forwarding'
    <3>1. /\ InputTypes' /\ NoNewReader /\ UNCHANGED dropped
          /\ \A t \in Sessions : \A m \in Attempts(t) :
               stage'[t][m].at # "none" => stage[t][m].at # "none"
      BY <2>5, InputQuiet
    <3>2. QED
      BY <1>1, <2>1, <3>1, QuietForwarding
  <2>6. ASSUME NEW s \in Sessions, NEW n \in Attempts(s), SubscribeToInput(s, n) PROVE Forwarding'
    BY <1>1, <2>1, <2>6, SubscribeForwarding
  <2>7. ASSUME NEW s \in Sessions, NEW n \in Attempts(s), NEW k \in Kinds, ProcessObject(s, n, k)
        PROVE  Forwarding'
    BY <2>2, <2>7, ProcessForwarding
  <2>8. QED
    BY <1>3, <2>2, <2>3, <2>4, <2>5, <2>6, <2>7, InputFrame DEF InputStep, Inputting
<1>4. QED
  BY <1>2, <1>3

-------------------------------------------------------------------------------
(* The theorems.                                                           *)

SessionInvariant ==
  /\ OwnerTypes /\ LoopTypes /\ OutputTypes
  /\ BacklogAwaited
  /\ Membership
  /\ HandlerFollowsLoop /\ ClosedOrOvertaken
  /\ Forwarding

LEMMA SessionIsInvariant == Spec => []SessionInvariant
<1>1. Init => SessionInvariant
  <2>1. Init => BacklogAwaited
    BY DEF Init, BacklogAwaited
  <2>2. QED
    BY <2>1, InitTypes, InitMembership, InitSetUp, InitForwarding DEF SessionInvariant
<1>2. SessionInvariant /\ [Next]_vars => SessionInvariant'
  BY NextOwnerTypes, NextLoopTypes, NextOutputTypes, NextBacklog, NextMembership, NextHandler, NextOvertaken,
     NextForwarding DEF SessionInvariant
<1>3. QED
  BY <1>1, <1>2, PTL DEF Spec

\* What an adapter keeps waits for a publisher still to come, whatever the order
\* in which the writers, SUBSCRIBE and Close get its lock.
THEOREM BacklogStaysAwaited == Spec => []BacklogAwaited
<1>1. SessionInvariant => BacklogAwaited
  BY DEF SessionInvariant
<1>2. QED
  BY <1>1, SessionIsInvariant, PTL

\* Nothing a client sends is dropped for want of a connection handler once its
\* session is set up, in whichever attempt.
THEOREM NothingIsDropped == Spec => []InputForwarded
<1>1. SessionInvariant => InputForwarded
  BY DEF SessionInvariant, Forwarding
<1>2. QED
  BY <1>1, SessionIsInvariant, PTL

\* The backend has departed every session that was closed, unless the close was
\* overtaken by its own set-up.
THEOREM ClosedSessionsAreDeparted == Spec => []ClosedSessionsDepart
<1>1. SessionInvariant => ClosedSessionsDepart
  BY DEF SessionInvariant, ClosedOrOvertaken, HandlerClosed, ClosedSessionsDepart
<1>2. QED
  BY <1>1, SessionIsInvariant, PTL

\* After Stop only the sessions that the map of the server missed are open.
THEOREM StopLeavesNoneOpen == Spec => []StopClosesSessions
<1>1. SessionInvariant => StopClosesSessions
  BY DEF SessionInvariant, OwnerTypes, Membership, ToCloseJoined, MappedOrMissed, Joined, StopClosesSessions
<1>2. QED
  BY <1>1, SessionIsInvariant, PTL
================================================================================
