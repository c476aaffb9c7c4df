------------------------ MODULE SpawnPipelineProofs ------------------------
(***************************************************************************)
(* Theorems about SpawnPipeline, for every set of message shapes, every    *)
(* bound and every way requests may end.                                   *)
(***************************************************************************)
EXTENDS SpawnPipeline, SequenceTheorems, TLAPS

\* Lanterns as SpawnLantern records them.
LanternRecord == [for: Nat, image: Nat, text: Nat]

-----------------------------------------------------------------------------
(* Type correctness *)

\* A field of a message is a number: the message's, or 0.
LEMMA FieldOfType ==
  ASSUME NEW n \in Nat, NEW f \in {"pid", "text", "img", "callback"}
  PROVE  FieldOf(n, f) \in Nat /\ FieldOf(n, f) \in {0, n}
BY DEF FieldOf

\* SpawnLantern (LanternManager.cpp:181) keeps its variables well typed.
LEMMA SpawnLanternType ==
  ASSUME TypeOK,
         NEW n \in Nat, NEW image \in Nat, NEW text \in Nat,
         NEW url \in Nat, NEW pid \in Nat,
         SpawnLantern(n, image, text, url, pid)
  PROVE  /\ spawned' \in Seq([for: Nat, image: Nat, text: Nat])
         /\ LanternArray' \in Seq(Nat)
         /\ posted' \subseteq [url: Nat, pid: Nat, lantern: Nat]
         /\ callbacksPending' \subseteq Nat
         /\ shotsPending' \subseteq Nat
         /\ bIsSpawning' \in BOOLEAN
<1> DEFINE k == Len(spawned) + 1
<1>1. k \in Nat
  BY DEF TypeOK
<1>2. spawned' \in Seq([for: Nat, image: Nat, text: Nat])
  BY DEF SpawnLantern, TypeOK
<1>3. WithRoom(LanternArray) \in Seq(Nat)
  BY MaxLanternsAssumption DEF WithRoom, TypeOK
<1>4. LanternArray' \in Seq(Nat)
  BY <1>1, <1>3 DEF SpawnLantern
<1>5. shotsPending' \subseteq Nat
  BY <1>1 DEF SpawnLantern, Capture, TypeOK
<1>6. CallbackHTTP(k, url, pid)
  BY DEF SpawnLantern, Capture
<1>7. /\ posted' \subseteq [url: Nat, pid: Nat, lantern: Nat]
      /\ callbacksPending' \subseteq Nat
  <2> HIDE DEF k
  <2>1. CASE url = 0
    BY <1>6, <2>1 DEF CallbackHTTP, TypeOK
  <2>2. CASE url # 0
    <3>1. [url |-> url, pid |-> pid, lantern |-> k] \in [url: Nat, pid: Nat, lantern: Nat]
      BY <1>1
    <3>2. posted \subseteq [url: Nat, pid: Nat, lantern: Nat] /\ callbacksPending \subseteq Nat
      BY DEF TypeOK
    <3> QED
      BY ONLY <1>1, <1>6, <2>2, <3>1, <3>2 DEF CallbackHTTP
  <2> QED
    BY <2>1, <2>2
<1> QED
  BY <1>2, <1>4, <1>5, <1>7 DEF SpawnLantern

\* Each handler, timer and task keeps every variable in its type.
LEMMA TypeOKStep == TypeOK /\ [Next]_vars => TypeOK'
<1> SUFFICES ASSUME TypeOK, [Next]_vars PROVE TypeOK'
  OBVIOUS
<1> USE SpawnCoolDownAssumption, OperatorSpawnsAssumption
<1>1. CASE \E m \in Forms : OnMessage(m)
  <2> PICK m \in Forms : OnMessage(m)
    BY <1>1
  <2>1. m \in Form
    BY FormsAssumption
  <2>2. accepted' \in Seq(Form) /\ MqttMessageArray' \in Seq(Nat)
    <3>1. CASE CheckIsLanternData(m)
      <4>1. accepted' = Append(accepted, m)
        BY <3>1 DEF OnMessage
      <4>2. MqttMessageArray' = Append(MqttMessageArray, Len(accepted) + 1)
        BY <3>1 DEF OnMessage
      <4>3. accepted \in Seq(Form) /\ MqttMessageArray \in Seq(Nat)
        BY DEF TypeOK
      <4>4. Len(accepted) + 1 \in Nat
        BY <4>3
      <4> QED
        BY ONLY <2>1, <4>1, <4>2, <4>3, <4>4
    <3>2. CASE ~CheckIsLanternData(m)
      BY <3>2 DEF OnMessage, TypeOK
    <3> QED
      BY <3>1, <3>2
  <2> QED
    BY <2>2 DEF OnMessage, TypeOK, parsedFields, lanternVars
<1>2. CASE StartSpawnDelayElapsed
  BY <1>2 DEF StartSpawnDelayElapsed, TypeOK, parsedFields, lanternVars
<1>3. CASE TickCoolDown
  BY <1>3 DEF TickCoolDown, TypeOK, parsedFields, lanternVars
<1>4. CASE TickRequest
  <2>1. MqttMessageArray' \in Seq(Nat) /\ CurrentMessage' \in Nat
    BY <1>4 DEF TickRequest, RequestLanternData, HasMessage, TypeOK
  <2> QED
    BY <1>4, <2>1 DEF TickRequest, RequestLanternData, TypeOK, lanternVars
<1>5. CASE FinishRequest
  <2>1. CurrentMessage \in Nat
    BY DEF TypeOK
  <2>2. PId' \in Nat /\ Text' \in Nat /\ ImageURL' \in Nat /\ CallbackURL' \in Nat
    BY <1>5, <2>1, FieldOfType
    DEF FinishRequest, ParseMessage, parsedFields, TypeOK
  <2>3. CASE ImageURL' # 0
    BY <1>5, <2>1, <2>2, <2>3 DEF FinishRequest, TypeOK, lanternVars
  <2>4. CASE ImageURL' = 0
    <3>1. SpawnLantern(CurrentMessage, 0, Text', CallbackURL', PId')
      BY <1>5, <2>4 DEF FinishRequest
    <3> HIDE DEF SpawnLantern
    <3>2. 0 \in Nat
      OBVIOUS
    <3>3. /\ spawned' \in Seq([for: Nat, image: Nat, text: Nat])
          /\ LanternArray' \in Seq(Nat)
          /\ posted' \subseteq [url: Nat, pid: Nat, lantern: Nat]
          /\ callbacksPending' \subseteq Nat
          /\ shotsPending' \subseteq Nat
          /\ bIsSpawning' \in BOOLEAN
      BY ONLY <2>1, <2>2, <3>1, <3>2, SpawnLanternType, TypeOK
    <3> QED
      BY <1>5, <2>2, <2>4, <3>3 DEF FinishRequest, TypeOK
  <2> QED
    BY <2>3, <2>4
<1>6. CASE \E n \in imageRequests, outcome \in ImageOutcomes :
             OnResponseReceived(n, outcome)
  <2> PICK n \in imageRequests, outcome \in ImageOutcomes :
             OnResponseReceived(n, outcome)
    BY <1>6
  <2>1. n \in Nat
    BY DEF TypeOK
  <2>2. CASE OnImageReceived(n, outcome)
    <3> DEFINE image == IF outcome = "image" THEN n ELSE 0
    <3>1. image \in Nat
      BY <2>1
    <3>2. SpawnLantern(n, image, Text, CallbackURL, PId)
      BY <2>2 DEF OnImageReceived
    <3>3. Text \in Nat /\ CallbackURL \in Nat /\ PId \in Nat
      BY DEF TypeOK
    <3> HIDE DEF image
    <3>4. /\ spawned' \in Seq([for: Nat, image: Nat, text: Nat])
          /\ LanternArray' \in Seq(Nat)
          /\ posted' \subseteq [url: Nat, pid: Nat, lantern: Nat]
          /\ callbacksPending' \subseteq Nat
          /\ shotsPending' \subseteq Nat
          /\ bIsSpawning' \in BOOLEAN
      BY ONLY <2>1, <3>1, <3>2, <3>3, SpawnLanternType, TypeOK
    <3> QED
      BY <2>2, <3>4 DEF OnImageReceived, TypeOK, parsedFields
  <2>3. CASE OnImageFailed(n, outcome)
    BY <2>1, <2>3 DEF OnImageFailed, TypeOK, parsedFields, lanternVars
  <2>4. CASE OnImageFatal(n, outcome)
    BY <2>1, <2>4 DEF OnImageFatal, TypeOK, parsedFields, lanternVars
  <2> QED
    BY <2>2, <2>3, <2>4 DEF OnResponseReceived
<1>7. CASE \E k \in callbacksPending, outcome \in CallbackOutcomes :
             OnCallbackResponseReceived(k, outcome)
  BY <1>7 DEF OnCallbackResponseReceived, TypeOK, parsedFields
<1>8. CASE RemoveAllLantern
  BY <1>8 DEF RemoveAllLantern, TypeOK, parsedFields
<1>9. CASE OperatorSpawnLantern
  <2>1. SpawnLantern(0, 0, 0, CallbackURL, PId)
    BY <1>9 DEF OperatorSpawnLantern
  <2>2. 0 \in Nat /\ CallbackURL \in Nat /\ PId \in Nat
    BY DEF TypeOK
  <2>3. /\ spawned' \in Seq([for: Nat, image: Nat, text: Nat])
        /\ LanternArray' \in Seq(Nat)
        /\ posted' \subseteq [url: Nat, pid: Nat, lantern: Nat]
        /\ callbacksPending' \subseteq Nat
        /\ shotsPending' \subseteq Nat
        /\ bIsSpawning' \in BOOLEAN
    BY ONLY <2>1, <2>2, SpawnLanternType, TypeOK
  <2> QED
    BY <1>9, <2>3 DEF OperatorSpawnLantern, TypeOK, parsedFields
<1>10. CASE \E k \in shotsPending : SaveScreenshot(k)
  <2> PICK k \in shotsPending : SaveScreenshot(k)
    BY <1>10
  <2>1. GetPId \subseteq Nat \cup {Torn}
    BY DEF GetPId, TypeOK
  <2>2. screenshots' \subseteq [name: Nat \cup {Torn}, of: Nat]
    BY <2>1 DEF SaveScreenshot, TypeOK
  <2> QED
    BY <2>2 DEF SaveScreenshot, TypeOK, parsedFields
<1>11. CASE UNCHANGED vars
  BY <1>11 DEF vars, TypeOK, parsedFields, lanternVars
<1> QED
  BY <1>1, <1>2, <1>3, <1>4, <1>5, <1>6, <1>7, <1>8, <1>9, <1>10, <1>11
  DEF Next

LEMMA TypeOKInit == Init => TypeOK
<1> SUFFICES ASSUME Init PROVE TypeOK
  OBVIOUS
<1>1. <<>> \in Seq(Form) /\ <<>> \in Seq(Nat) /\ <<>> \in Seq(LanternRecord)
  OBVIOUS
<1>2. accepted \in Seq(Form) /\ MqttMessageArray \in Seq(Nat) /\ LanternArray \in Seq(Nat)
  BY <1>1 DEF Init
<1>3. spawned \in Seq([for: Nat, image: Nat, text: Nat])
  BY <1>1 DEF Init, LanternRecord
<1>4. CurrentSpawnCoolDown \in 0 .. SpawnCoolDown /\ operatorSpawns \in 0 .. OperatorSpawns
  BY SpawnCoolDownAssumption, OperatorSpawnsAssumption DEF Init
<1> QED BY <1>2, <1>3, <1>4 DEF Init, TypeOK

\* Every variable of the pipeline stays in its type, whatever the order of
\* messages, completions, timers, operator commands and background tasks.
THEOREM TypeCorrect == Spec => []TypeOK
BY TypeOKInit, TypeOKStep, PTL DEF Spec

-----------------------------------------------------------------------------
(* The pipeline without operator spawns *)

Phase == Delayed \/ Ready \/ Parsing \/ Waiting \/ Stuck \/ Dead

\* The counters of the model are numbers.
LEMMA Counters ==
  ASSUME TypeOK
  PROVE  /\ Len(accepted) \in Nat /\ Len(spawned) \in Nat
         /\ Len(MqttMessageArray) \in Nat /\ Taken \in Int
         /\ (QueueInOrder => Taken \in 0 .. Len(accepted))
BY DEF TypeOK, Taken, QueueInOrder

\* What an accepted message says does not change: a step either leaves the
\* history of accepted messages alone or appends to it.
LEMMA FieldOfStable ==
  ASSUME TypeOK, TypeOK',
         \/ accepted' = accepted
         \/ \E m \in Form : accepted' = Append(accepted, m),
         NEW n \in 1 .. Len(accepted), NEW f
  PROVE  /\ FieldOf(n, f)' = FieldOf(n, f)
         /\ accepted'[n] = accepted[n]
         /\ Len(accepted') >= Len(accepted)
         /\ Len(accepted') \in Nat
<1>1. accepted \in Seq(Form) /\ accepted' \in Seq(Form)
  BY DEF TypeOK
<1>2. accepted'[n] = accepted[n] /\ Len(accepted') >= Len(accepted) /\ Len(accepted') \in Nat
  <2> HIDE DEF Form
  <2> QED
    BY <1>1
<1> QED
  BY <1>2 DEF FieldOf

\* SpawnLantern (LanternManager.cpp:181) for the next message in order, called
\* with that message's fields, extends the history by that message's lantern.
LEMMA SpawnInOrder ==
  ASSUME TypeOK, TypeOK', OperatorSpawns = 0, accepted' = accepted,
         screenshots' = screenshots,
         ReferencesValid, LanternsInOrder, CallbacksMatch, NoEarlierName,
         NEW n \in 1 .. Len(accepted), n = Len(spawned) + 1,
         NEW image \in {0, FieldOf(n, "img")},
         SpawnLantern(n, image, FieldOf(n, "text"),
                      FieldOf(n, "callback"), FieldOf(n, "pid"))
  PROVE  /\ Len(spawned') = n
         /\ ReferencesValid' /\ LanternsInOrder'
         /\ CallbacksMatch' /\ NoEarlierName'
<1> DEFINE l == [for |-> n, image |-> image, text |-> FieldOf(n, "text")]
<1>0. Len(spawned) \in Nat /\ Len(accepted) \in Nat
  BY Counters
<1>1. spawned' = Append(spawned, l) /\ spawned \in Seq(LanternRecord)
  BY DEF SpawnLantern, TypeOK, LanternRecord
<1>2. /\ Len(spawned') = n
      /\ \A k \in 1 .. Len(spawned) : spawned'[k] = spawned[k]
      /\ spawned'[n] = l
  <2> HIDE DEF l
  <2> QED
    BY <1>1
<1>3. \A k, f : FieldOf(k, f)' = FieldOf(k, f)
  BY DEF FieldOf
<1>4. LanternsInOrder'
  <2> SUFFICES ASSUME NEW k \in 1 .. Len(spawned')
               PROVE  /\ k <= Len(accepted)
                      /\ spawned'[k].for = k
                      /\ spawned'[k].text = FieldOf(k, "text")
                      /\ spawned'[k].image \in {0, FieldOf(k, "img")}
    BY <1>3 DEF LanternsInOrder
  <2>1. CASE k = n
    BY <1>2, <2>1
  <2>2. CASE k # n
    <3>1. k \in 1 .. Len(spawned)
      BY <1>0, <1>2, <2>2
    <3> QED
      BY <1>2, <3>1 DEF LanternsInOrder
  <2> QED
    BY <2>1, <2>2
<1>5. /\ shotsPending' = shotsPending \cup {n}
      /\ callbacksPending' \subseteq callbacksPending \cup {n}
  BY DEF SpawnLantern, Capture, CallbackHTTP
<1>6. CallbackHTTP(n, FieldOf(n, "callback"), FieldOf(n, "pid"))
  BY DEF SpawnLantern, Capture
<1>7. \A p \in posted' :
        \/ p \in posted
        \/ p.lantern = n /\ p.url = n /\ p.pid = FieldOf(n, "pid")
  BY <1>6 DEF CallbackHTTP, FieldOf
<1>8. ReferencesValid'
  <2>1. 1 .. Len(spawned') = 1 .. Len(spawned) \cup {n}
    BY <1>0, <1>2
  <2>2. \A p \in posted' : p.lantern \in 1 .. Len(spawned')
    BY <1>7, <2>1 DEF ReferencesValid
  <2>3. callbacksPending' \cup shotsPending' \subseteq 1 .. Len(spawned')
    BY <1>5, <2>1 DEF ReferencesValid
  <2>4. \A s \in screenshots' : s.of \in 1 .. Len(spawned')
    BY <2>1 DEF ReferencesValid
  <2> QED
    BY <2>2, <2>3, <2>4 DEF ReferencesValid
<1>9. CallbacksMatch'
  BY <1>3, <1>7 DEF CallbacksMatch
<1>10. NoEarlierName'
  BY <1>2 DEF NoEarlierName, ReferencesValid
<1> QED
  BY <1>2, <1>4, <1>8, <1>9, <1>10

\* Taking no message, spawning no lantern and saving no file leaves the
\* history part of the invariant as it is.
LEMMA HistoryStable ==
  ASSUME TypeOK, TypeOK', OperatorSpawns = 0,
         \/ accepted' = accepted
         \/ \E m \in Form : accepted' = Append(accepted, m),
         spawned' = spawned, posted' = posted,
         LanternsInOrder, CallbacksMatch, ReferencesValid
  PROVE  LanternsInOrder' /\ CallbacksMatch'
<1>0. Len(spawned) \in Nat /\ Len(accepted) \in Nat
  BY Counters
<1>1. \A k \in 1 .. Len(accepted) :
        /\ \A f : FieldOf(k, f)' = FieldOf(k, f)
        /\ Len(accepted') >= Len(accepted) /\ Len(accepted') \in Nat
  BY FieldOfStable
<1>2. \A k \in 1 .. Len(spawned) : k \in 1 .. Len(accepted)
  BY <1>0 DEF LanternsInOrder
<1>3. LanternsInOrder'
  <2> SUFFICES ASSUME NEW k \in 1 .. Len(spawned)
               PROVE  /\ k <= Len(accepted')
                      /\ spawned[k].for = k
                      /\ spawned[k].text = FieldOf(k, "text")'
                      /\ spawned[k].image \in {0, FieldOf(k, "img")'}
    BY DEF LanternsInOrder
  <2>1. /\ k <= Len(accepted)
        /\ spawned[k].for = k
        /\ spawned[k].text = FieldOf(k, "text")
        /\ spawned[k].image \in {0, FieldOf(k, "img")}
    BY DEF LanternsInOrder
  <2>2. k \in 1 .. Len(accepted)
    BY <1>2
  <2> QED
    BY <1>0, <1>1, <2>1, <2>2
<1>4. CallbacksMatch'
  BY <1>1, <1>2 DEF CallbacksMatch, ReferencesValid
<1> QED
  BY <1>3, <1>4

\* Every step of the pipeline keeps its phase, its queue and its fields in
\* agreement.
LEMMA PipelineInvStep ==
  ASSUME OperatorSpawns = 0, TypeOK, TypeOK', PipelineInv, [Next]_vars
  PROVE  PipelineInv'
<1> DEFINE Lanterns == \A i \in 1 .. Len(accepted) : accepted[i].lantern
           Parts == /\ QueueInOrder /\ Lanterns /\ Phase /\ FieldsCurrent
                    /\ ReferencesValid /\ LanternsInOrder /\ CallbacksMatch
                    /\ NoEarlierName
<1>0. Parts
  BY DEF PipelineInv, Phase
<1>c. /\ Len(accepted) \in Nat /\ Len(spawned) \in Nat
      /\ Len(MqttMessageArray) \in Nat /\ Taken \in 0 .. Len(accepted)
  BY <1>0, Counters
<1> SUFFICES Parts'
  BY DEF PipelineInv, Phase
<1>1. ASSUME NEW m \in Forms, OnMessage(m)
      PROVE  Parts'
  <2>m. m \in Form
    BY FormsAssumption
  <2>1. \/ accepted' = accepted
        \/ \E x \in Form : accepted' = Append(accepted, x)
    BY <1>1, <2>m DEF OnMessage
  <2>2. LanternsInOrder' /\ CallbacksMatch'
    BY <1>0, <1>1, <2>1, HistoryStable DEF OnMessage, lanternVars
  <2>3. ReferencesValid' /\ NoEarlierName'
    BY <1>0, <1>1 DEF OnMessage, lanternVars, ReferencesValid, NoEarlierName
  <2>4. \A n \in 1 .. Len(accepted) :
          /\ \A f : FieldOf(n, f)' = FieldOf(n, f)
          /\ accepted'[n] = accepted[n]
    BY <2>1, FieldOfStable
  <2>5. Taken' = Taken /\ QueueInOrder' /\ Lanterns'
    <3>1. CASE CheckIsLanternData(m)
      <4>1. accepted' = Append(accepted, m)
        BY <1>1, <3>1 DEF OnMessage
      <4>2. MqttMessageArray' = Append(MqttMessageArray, Len(accepted) + 1)
        BY <1>1, <3>1 DEF OnMessage
      <4>3. accepted \in Seq(Form) /\ MqttMessageArray \in Seq(Nat)
        BY DEF TypeOK
      <4>4. /\ Len(accepted') = Len(accepted) + 1
            /\ accepted'[Len(accepted) + 1] = m
        <5> HIDE DEF Form
        <5> QED
          BY ONLY <2>m, <4>1, <4>3
      <4>5. /\ Len(MqttMessageArray') = Len(MqttMessageArray) + 1
            /\ MqttMessageArray'[Len(MqttMessageArray) + 1] = Len(accepted) + 1
            /\ \A i \in 1 .. Len(MqttMessageArray) :
                  MqttMessageArray'[i] = MqttMessageArray[i]
        BY <1>c, <4>2, <4>3
      <4>6. Taken' = Taken
        BY <1>c, <4>4, <4>5 DEF Taken
      <4>7. QueueInOrder'
        <5>1. Len(MqttMessageArray') <= Len(accepted')
          BY <1>0, <1>c, <4>4, <4>5 DEF QueueInOrder
        <5>2. ASSUME NEW i \in 1 .. Len(MqttMessageArray')
              PROVE  MqttMessageArray'[i] = Taken + i
          <6>1. CASE i = Len(MqttMessageArray) + 1
            BY <1>c, <4>5, <6>1 DEF Taken
          <6>2. CASE i # Len(MqttMessageArray) + 1
            <7>1. i \in 1 .. Len(MqttMessageArray)
              BY <1>c, <4>5, <6>2
            <7> QED
              BY <1>0, <4>5, <7>1 DEF QueueInOrder
          <6> QED
            BY <6>1, <6>2
        <5> QED
          BY <4>6, <5>1, <5>2 DEF QueueInOrder
      <4>8. Lanterns'
        <5> SUFFICES ASSUME NEW i \in 1 .. Len(accepted') PROVE accepted'[i].lantern
          OBVIOUS
        <5>1. CASE i = Len(accepted) + 1
          BY <3>1, <4>4, <5>1 DEF CheckIsLanternData
        <5>2. CASE i # Len(accepted) + 1
          <6>1. i \in 1 .. Len(accepted)
            BY <1>c, <4>4, <5>2
          <6> QED
            BY <1>0, <2>4, <6>1
        <5> QED
          BY <5>1, <5>2
      <4> QED
        BY <4>6, <4>7, <4>8
    <3>2. CASE ~CheckIsLanternData(m)
      <4>1. accepted' = accepted /\ MqttMessageArray' = MqttMessageArray
        BY <1>1, <3>2 DEF OnMessage
      <4> QED
        BY <1>0, <4>1 DEF Taken, QueueInOrder
    <3> QED
      BY <3>1, <3>2
  <2>6. FieldsCurrent'
    BY <1>0, <1>1, <1>c, <2>4, <2>5
    DEF OnMessage, GameThreadIdle, FieldsCurrent, Current, parsedFields
  <2>7. Phase'
    BY <1>0, <1>1, <1>c, <2>4, <2>5
    DEF OnMessage, lanternVars, Phase, InWork, Delayed, Ready, Parsing,
        Waiting, Stuck, Dead
  <2> QED
    BY <2>2, <2>3, <2>5, <2>6, <2>7
\* Steps that touch only the flag, the cool-down, the outstanding requests,
\* the failures or the display: queue, fields and history stay.
<1>f. ASSUME accepted' = accepted, MqttMessageArray' = MqttMessageArray,
             CurrentMessage' = CurrentMessage,
             PId' = PId, Text' = Text, CallbackURL' = CallbackURL
      PROVE  /\ Taken' = Taken /\ QueueInOrder' /\ Lanterns' /\ FieldsCurrent'
             /\ \A n, f : FieldOf(n, f)' = FieldOf(n, f)
  BY <1>0, <1>f
  DEF Taken, QueueInOrder, FieldsCurrent, Current, FieldOf
<1>h. ASSUME accepted' = accepted, spawned' = spawned, posted' = posted,
             screenshots' = screenshots, shotsPending' = shotsPending,
             callbacksPending' \subseteq callbacksPending
      PROVE  /\ LanternsInOrder' /\ CallbacksMatch' /\ ReferencesValid'
             /\ NoEarlierName'
  BY <1>0, <1>h
  DEF LanternsInOrder, CallbacksMatch, ReferencesValid, NoEarlierName, FieldOf
<1>2. ASSUME StartSpawnDelayElapsed PROVE Parts'
  <2>1. Phase'
    BY <1>0, <1>2, <1>f
    DEF StartSpawnDelayElapsed, parsedFields, lanternVars, Phase, InWork,
        Delayed, Ready, Parsing, Waiting, Stuck, Dead
  <2> QED
    BY <1>2, <1>f, <1>h, <2>1
    DEF StartSpawnDelayElapsed, parsedFields, lanternVars
<1>3. ASSUME TickCoolDown PROVE Parts'
  <2>1. Phase'
    BY <1>0, <1>3, <1>f
    DEF TickCoolDown, parsedFields, lanternVars, Phase, InWork,
        Delayed, Ready, Parsing, Waiting, Stuck, Dead
  <2> QED
    BY <1>3, <1>f, <1>h, <2>1 DEF TickCoolDown, parsedFields, lanternVars
<1>4. ASSUME TickRequest PROVE Parts'
  <2>1. Ready /\ MqttMessageArray # <<>> /\ MqttMessageArray \in Seq(Nat)
    BY <1>0, <1>4
    DEF TickRequest, HasMessage, Phase, InWork, Delayed, Ready, Parsing,
        Waiting, Stuck, Dead, TypeOK
  <2>2. /\ CurrentMessage' = MqttMessageArray[1]
        /\ Len(MqttMessageArray') = Len(MqttMessageArray) - 1
        /\ Len(MqttMessageArray) >= 1
        /\ \A i \in 1 .. Len(MqttMessageArray') :
              MqttMessageArray'[i] = MqttMessageArray[i + 1]
    BY <1>4, <2>1 DEF TickRequest, RequestLanternData
  <2>3. Taken' = Taken + 1 /\ Len(MqttMessageArray') \in Nat
    BY <1>4, <1>c, <2>2 DEF TickRequest, Taken
  <2>4. CurrentMessage' = Taken + 1
    BY <1>0, <1>c, <2>2 DEF QueueInOrder
  <2>5. QueueInOrder'
    <3>1. Len(MqttMessageArray') <= Len(accepted')
      BY <1>0, <1>c, <1>4, <2>2 DEF TickRequest, QueueInOrder
    <3>2. ASSUME NEW i \in 1 .. Len(MqttMessageArray')
          PROVE  MqttMessageArray'[i] = (Taken + 1) + i
      <4>1. i + 1 \in 1 .. Len(MqttMessageArray)
        BY <1>c, <2>2
      <4>2. MqttMessageArray[i + 1] = Taken + (i + 1)
        BY <1>0, <4>1 DEF QueueInOrder
      <4> QED
        BY <1>c, <2>2, <4>2
    <3> QED
      BY <2>3, <3>1, <3>2 DEF QueueInOrder
  <2>6. Parsing'
    BY <1>4, <1>c, <2>1, <2>3, <2>4
    DEF TickRequest, lanternVars, Ready, Parsing, InWork
  <2>7. FieldsCurrent'
    BY <1>4, <1>c, <2>4
    DEF TickRequest, RequestLanternData, FieldsCurrent, Current
  <2>8. Lanterns'
    BY <1>0, <1>4 DEF TickRequest
  <2> QED
    BY <1>4, <1>h, <2>5, <2>6, <2>7, <2>8 DEF TickRequest, lanternVars, Phase
<1>5. ASSUME FinishRequest PROVE Parts'
  <2>1. Parsing
    BY <1>0, <1>5
    DEF FinishRequest, Phase, InWork, Delayed, Ready, Parsing, Waiting, Stuck,
        Dead
  <2> DEFINE n == Taken
  <2>2. /\ n \in 1 .. Len(accepted) /\ CurrentMessage = n /\ n = Len(spawned) + 1
        /\ n # 0
    BY <1>c, <2>1 DEF Parsing, InWork
  <2>3. /\ accepted' = accepted /\ MqttMessageArray' = MqttMessageArray
        /\ Taken' = n /\ CurrentMessage' = 0 /\ startDelay' = startDelay
        /\ crashed' = crashed /\ imagesFailed' = imagesFailed
        /\ screenshots' = screenshots
        /\ \A f : FieldOf(n, f)' = FieldOf(n, f)
    BY <1>5 DEF FinishRequest, Taken, FieldOf
  <2>4. /\ PId' = FieldOf(n, "pid") /\ Text' = FieldOf(n, "text")
        /\ ImageURL' = FieldOf(n, "img") /\ CallbackURL' = FieldOf(n, "callback")
    BY <1>0, <1>5, <2>2 DEF FinishRequest, ParseMessage, CheckIsLanternData
  <2>5. QueueInOrder' /\ Lanterns'
    BY <1>0, <2>3 DEF QueueInOrder
  <2>6. FieldsCurrent'
    BY <2>2, <2>3, <2>4 DEF FieldsCurrent, Current
  <2>7. CASE ImageURL' # 0
    <3>1. accepted[n].img
      BY <2>4, <2>7 DEF FieldOf
    <3>2. Waiting'
      BY <1>5, <2>1, <2>2, <2>3, <2>7, <3>1
      DEF FinishRequest, lanternVars, Parsing, Waiting, InWork
    <3> QED
      BY <1>5, <1>h, <2>3, <2>5, <2>6, <2>7, <3>2
      DEF FinishRequest, lanternVars, Phase
  <2>8. CASE ImageURL' = 0
    <3>1. SpawnLantern(n, 0, FieldOf(n, "text"), FieldOf(n, "callback"),
                       FieldOf(n, "pid"))
      BY <1>5, <2>2, <2>4, <2>8 DEF FinishRequest
    <3>2. 0 \in {0, FieldOf(n, "img")}
      OBVIOUS
    <3>3. /\ Len(spawned') = n
          /\ ReferencesValid' /\ LanternsInOrder'
          /\ CallbacksMatch' /\ NoEarlierName'
      BY ONLY <1>0, <2>2, <2>3, <3>1, <3>2, SpawnInOrder, TypeOK, TypeOK',
              OperatorSpawns = 0
    <3>4. Ready'
      BY <1>5, <2>1, <2>3, <2>8, <3>1, <3>3
      DEF FinishRequest, SpawnLantern, Parsing, InWork, Ready
    <3> QED
      BY <2>5, <2>6, <3>3, <3>4 DEF Phase
  <2> QED
    BY <2>7, <2>8
<1>w. ASSUME NEW n \in imageRequests, GameThreadIdle
      PROVE  /\ Waiting /\ n = Taken /\ n = Len(spawned) + 1
             /\ n \in 1 .. Len(accepted)
             /\ Text = FieldOf(n, "text") /\ PId = FieldOf(n, "pid")
             /\ CallbackURL = FieldOf(n, "callback")
  <2>1. Waiting /\ n = Taken
    BY <1>0
    DEF Phase, InWork, Delayed, Ready, Parsing, Waiting, Stuck, Dead
  <2>2. n = Len(spawned) + 1 /\ n \in 1 .. Len(accepted)
    BY <1>c, <2>1 DEF Waiting, InWork
  <2> QED
    BY <1>0, <2>1, <2>2 DEF Waiting, FieldsCurrent, Current
<1>6. ASSUME NEW n \in imageRequests, NEW outcome \in ImageOutcomes,
             OnResponseReceived(n, outcome)
      PROVE  Parts'
  <2>0. GameThreadIdle
    BY <1>6
    DEF OnResponseReceived, OnImageReceived, OnImageFailed, OnImageFatal
  <2>1. /\ Waiting /\ n = Taken /\ n = Len(spawned) + 1
        /\ n \in 1 .. Len(accepted)
        /\ Text = FieldOf(n, "text") /\ PId = FieldOf(n, "pid")
        /\ CallbackURL = FieldOf(n, "callback")
    BY <1>w, <2>0
  <2>2. Taken' = Taken /\ QueueInOrder' /\ Lanterns' /\ FieldsCurrent'
    BY <1>6, <1>f
    DEF OnResponseReceived, OnImageReceived, OnImageFailed, OnImageFatal,
        parsedFields
  <2>3. CASE OnImageReceived(n, outcome)
    <3> DEFINE image == IF outcome = "image" THEN n ELSE 0
    <3>1. image \in {0, FieldOf(n, "img")}
      BY <2>1 DEF Waiting, FieldOf
    <3>2. SpawnLantern(n, image, FieldOf(n, "text"), FieldOf(n, "callback"),
                       FieldOf(n, "pid"))
      BY <2>1, <2>3 DEF OnImageReceived
    <3>3. accepted' = accepted /\ screenshots' = screenshots
      BY <2>3 DEF OnImageReceived
    <3> HIDE DEF image
    <3>4. /\ Len(spawned') = n
          /\ ReferencesValid' /\ LanternsInOrder'
          /\ CallbacksMatch' /\ NoEarlierName'
      BY ONLY <1>0, <2>1, <3>1, <3>2, <3>3, SpawnInOrder, TypeOK, TypeOK',
              OperatorSpawns = 0
    <3>5. Ready'
      BY <2>1, <2>2, <2>3, <3>2, <3>4
      DEF OnImageReceived, SpawnLantern, Waiting, InWork, Ready
    <3> QED
      BY <2>2, <3>4, <3>5 DEF Phase
  <2>4. CASE OnImageFailed(n, outcome)
    <3>1. Stuck'
      BY <2>1, <2>2, <2>4 DEF OnImageFailed, lanternVars, Waiting, InWork, Stuck
    <3> QED
      BY <1>h, <2>2, <2>4, <3>1 DEF OnImageFailed, lanternVars, Phase
  <2>5. CASE OnImageFatal(n, outcome)
    <3>1. Dead'
      BY <2>1, <2>2, <2>5 DEF OnImageFatal, lanternVars, Waiting, InWork, Dead
    <3> QED
      BY <1>h, <2>2, <2>5, <3>1 DEF OnImageFatal, lanternVars, Phase
  <2> QED
    BY <1>6, <2>3, <2>4, <2>5 DEF OnResponseReceived
<1>7. ASSUME NEW k \in callbacksPending, NEW outcome \in CallbackOutcomes,
             OnCallbackResponseReceived(k, outcome)
      PROVE  Parts'
  <2>1. ~Dead
    BY <1>7 DEF OnCallbackResponseReceived, GameThreadIdle, Dead
  <2>2. Phase'
    BY <1>0, <1>7, <1>f, <2>1
    DEF OnCallbackResponseReceived, parsedFields, Phase, InWork,
        Delayed, Ready, Parsing, Waiting, Stuck
  <2> QED
    BY <1>7, <1>f, <1>h, <2>2 DEF OnCallbackResponseReceived, parsedFields
<1>8. ASSUME RemoveAllLantern PROVE Parts'
  <2>1. Phase'
    BY <1>0, <1>8, <1>f
    DEF RemoveAllLantern, parsedFields, Phase, InWork,
        Delayed, Ready, Parsing, Waiting, Stuck, Dead
  <2> QED
    BY <1>8, <1>f, <1>h, <2>1 DEF RemoveAllLantern, parsedFields
<1>9. ASSUME OperatorSpawnLantern PROVE Parts'
  BY <1>9 DEF OperatorSpawnLantern, TypeOK
<1>10. ASSUME NEW k \in shotsPending, SaveScreenshot(k) PROVE Parts'
  <2>1. Phase'
    BY <1>0, <1>10, <1>f
    DEF SaveScreenshot, parsedFields, Phase, InWork,
        Delayed, Ready, Parsing, Waiting, Stuck, Dead
  <2>2. /\ Taken' = Taken /\ QueueInOrder' /\ Lanterns' /\ FieldsCurrent'
        /\ \A n, f : FieldOf(n, f)' = FieldOf(n, f)
    BY <1>10, <1>f DEF SaveScreenshot, parsedFields
  <2>3. LanternsInOrder' /\ CallbacksMatch'
    BY <1>0, <1>10, <2>2 DEF SaveScreenshot, LanternsInOrder, CallbacksMatch
  <2>4. k \in 1 .. Len(spawned)
    BY <1>0 DEF ReferencesValid
  <2>5. PICK name \in GetPId :
          screenshots' = screenshots \cup {[name |-> name, of |-> k]}
    BY <1>10 DEF SaveScreenshot
  <2>6. ReferencesValid'
    BY <1>0, <1>10, <2>4, <2>5 DEF SaveScreenshot, ReferencesValid
  <2>7. name > 0 => name >= spawned[k].for
    <3> SUFFICES ASSUME name > 0 PROVE name >= k
      BY <1>0, <2>4 DEF LanternsInOrder
    <3>1. name = PId /\ PId # 0
      BY DEF GetPId, Torn
    <3>2. PId = Taken
      BY <1>0, <3>1 DEF FieldsCurrent, Current, FieldOf
    <3>3. Len(spawned) <= Taken
      BY <1>0, <1>c
      DEF Phase, InWork, Delayed, Ready, Parsing, Waiting, Stuck, Dead
    <3> QED
      BY <1>c, <2>4, <3>1, <3>2, <3>3
  <2>8. NoEarlierName'
    BY <1>0, <1>10, <2>5, <2>7 DEF SaveScreenshot, NoEarlierName
  <2> QED
    BY <2>1, <2>2, <2>3, <2>6, <2>8
<1>11. ASSUME UNCHANGED vars PROVE Parts'
  <2>1. Phase'
    BY <1>0, <1>11, <1>f
    DEF vars, parsedFields, lanternVars, Phase, InWork,
        Delayed, Ready, Parsing, Waiting, Stuck, Dead
  <2> QED
    BY <1>11, <1>f, <1>h, <2>1 DEF vars, parsedFields, lanternVars
<1> QED
  BY <1>1, <1>2, <1>3, <1>4, <1>5, <1>6, <1>7, <1>8, <1>9, <1>10, <1>11
  DEF Next

\* A fresh pipeline is in its first phase.
LEMMA PipelineInvInit == Init => PipelineInv
<1> SUFFICES ASSUME Init PROVE PipelineInv
  OBVIOUS
<1>1. /\ Len(accepted) = 0 /\ Len(spawned) = 0 /\ Len(MqttMessageArray) = 0
      /\ Taken = 0
  BY DEF Init, Taken
<1>2. QueueInOrder /\ Delayed /\ FieldsCurrent
  BY <1>1 DEF Init, QueueInOrder, Delayed, FieldsCurrent, Current
<1>3. ReferencesValid /\ LanternsInOrder /\ CallbacksMatch /\ NoEarlierName
  BY <1>1
  DEF Init, ReferencesValid, LanternsInOrder, CallbacksMatch, NoEarlierName
<1> QED
  BY <1>1, <1>2, <1>3 DEF PipelineInv

\* The flag, the queue, the outstanding request and the parsed fields always
\* agree: the invariant the theorems below follow from.
THEOREM PipelineCorrect == Spec => []PipelineInv
<1>1. TypeOK /\ TypeOK' /\ PipelineInv /\ [Next]_vars => PipelineInv'
  <2>1. CASE OperatorSpawns = 0
    BY <2>1, PipelineInvStep
  <2>2. CASE OperatorSpawns # 0
    BY <2>2 DEF PipelineInv
  <2> QED
    BY <2>1, <2>2
<1> QED
  BY <1>1, PipelineInvInit, TypeCorrect, PTL DEF Spec

\* Lanterns appear in the order of the messages, one each, with the text and
\* the image of their own message: Tick (LanternManager.cpp:77) never lets
\* RequestLanternData overwrite Text while an image for it is on its way.
THEOREM LanternsInOrderCorrect == Spec => []LanternsInOrder
<1>1. PipelineInv => LanternsInOrder
  BY DEF PipelineInv, LanternsInOrder
<1> QED
  BY <1>1, PipelineCorrect, PTL

\* The callback goes to the sender of the message whose lantern it pictures.
THEOREM CallbacksMatchCorrect == Spec => []CallbacksMatch
<1>1. PipelineInv => CallbacksMatch
  BY DEF PipelineInv, CallbacksMatch
<1> QED
  BY <1>1, PipelineCorrect, PTL

\* There is never a second image request on its way.
THEOREM OneRequestAtATimeCorrect == Spec => []OneRequestAtATime
<1>1. ASSUME TypeOK, PipelineInv PROVE OneRequestAtATime
  <2> SUFFICES ASSUME OperatorSpawns = 0, NEW n \in imageRequests
               PROVE  /\ n = Taken /\ bIsSpawning /\ imageRequests = {n}
                      /\ Len(spawned) = n - 1
    BY DEF OneRequestAtATime
  <2>1. Waiting
    BY <1>1
    DEF PipelineInv, InWork, Delayed, Ready, Parsing, Waiting, Stuck, Dead
  <2>2. Len(spawned) \in Nat
    BY <1>1, Counters
  <2> QED
    BY <2>1, <2>2 DEF Waiting, InWork
<1> QED
  BY <1>1, PipelineCorrect, TypeCorrect, PTL

\* The pipeline stands still exactly after an image completion that
\* OnResponseReceived (MqttManager.cpp:327) only logs.
THEOREM StalledIffImageFailedCorrect == Spec => []StalledIffImageFailed
<1>1. ASSUME TypeOK, PipelineInv PROVE StalledIffImageFailed
  <2>1. Len(spawned) \in Nat
    BY <1>1, Counters
  <2> SUFFICES ASSUME OperatorSpawns = 0, ~crashed
               PROVE  Stalled <=> imagesFailed # {}
    BY DEF StalledIffImageFailed
  <2>2. CASE Stuck
    BY <2>2 DEF Stuck, InWork, Stalled
  <2>3. CASE Delayed \/ Ready \/ Waiting
    BY <2>3 DEF Delayed, Ready, Waiting, Stalled
  <2>4. CASE Parsing
    <3>1. CurrentMessage # 0 /\ imagesFailed = {}
      BY <2>1, <2>4 DEF Parsing, InWork
    <3> QED
      BY <3>1 DEF Stalled
  <2> QED
    BY <1>1, <2>2, <2>3, <2>4 DEF PipelineInv, Dead
<1> QED
  BY <1>1, PipelineCorrect, TypeCorrect, PTL

\* A screenshot written while its message is the last one taken bears that
\* message's pid (Capturer.cpp:124 reads PId when the background task runs).
THEOREM OwnNameCorrect == Spec => OwnNameWhenCurrent
<1> DEFINE A == OperatorSpawns = 0 =>
                  \A s \in screenshots' \ screenshots :
                    spawned[s.of].for = Taken =>
                      s.name = FieldOf(spawned[s.of].for, "pid")
<1>1. ASSUME TypeOK, PipelineInv, [Next]_vars PROVE A
  <2> SUFFICES ASSUME OperatorSpawns = 0,
                      NEW s \in screenshots' \ screenshots,
                      spawned[s.of].for = Taken
               PROVE  s.name = FieldOf(Taken, "pid")
    OBVIOUS
  <2>1. PICK k \in shotsPending : SaveScreenshot(k)
    BY <1>1
    DEF Next, vars, OnMessage, StartSpawnDelayElapsed, TickCoolDown,
        TickRequest, FinishRequest, OnResponseReceived, OnImageReceived,
        OnImageFailed, OnImageFatal, OnCallbackResponseReceived,
        RemoveAllLantern, OperatorSpawnLantern
  <2>2. s.of = k /\ s.name \in GetPId
    BY <2>1 DEF SaveScreenshot
  <2>3. k \in 1 .. Len(spawned) /\ spawned[k].for = k
    BY <1>1 DEF PipelineInv, ReferencesValid, LanternsInOrder
  <2>4. Taken = k /\ Len(spawned) \in Nat
    BY <1>1, <2>2, <2>3, Counters
  <2>5. CurrentMessage = 0
    BY <1>1, <2>3, <2>4
    DEF PipelineInv, InWork, Delayed, Ready, Parsing, Waiting, Stuck, Dead
  <2> QED
    BY <1>1, <2>2, <2>3, <2>4, <2>5 DEF PipelineInv, GetPId, FieldsCurrent, Current
<1>2. OwnNameWhenCurrent <=> [][A]_vars
  BY DEF OwnNameWhenCurrent
<1> HIDE DEF A
<1> QED
  BY <1>1, <1>2, PipelineCorrect, TypeCorrect, PTL DEF Spec

-----------------------------------------------------------------------------
(* The pipeline implements the display *)

\* Each step of the pipeline is a step of the display or invisible in it.
LEMMA DisplayStep ==
  ASSUME OperatorSpawns = 0, TypeOK, PipelineInv, [Next]_vars
  PROVE  Display!Next \/ UNCHANGED Display!displayVars
<1> USE DEF Display!displayVars
<1>c. Len(accepted) \in Nat /\ Len(spawned) \in Nat
  BY Counters
<1>1. ASSUME NEW m \in Forms, OnMessage(m)
      PROVE  Display!Next \/ UNCHANGED Display!displayVars
  BY <1>1
  DEF OnMessage, lanternVars, Display!Next, Display!Accept
<1>5. ASSUME FinishRequest
      PROVE  Display!Next \/ UNCHANGED Display!displayVars
  <2>1. Parsing /\ ~crashed
    BY <1>5
    DEF PipelineInv, FinishRequest, InWork, Delayed, Ready, Parsing, Waiting,
        Stuck, Dead
  <2> DEFINE n == Len(spawned) + 1
  <2>2. CurrentMessage = n /\ n \in 1 .. Len(accepted) /\ Taken = n
    BY <1>c, <2>1, Counters DEF PipelineInv, Parsing, InWork
  <2>3. CASE ImageURL' # 0
    BY <1>5, <2>3 DEF FinishRequest, lanternVars
  <2>4. CASE ImageURL' = 0
    <3>1. Text' = FieldOf(n, "text")
      BY <1>5, <2>2
      DEF FinishRequest, ParseMessage, CheckIsLanternData, PipelineInv
    <3>2. spawned' = Append(spawned, [for |-> n, image |-> 0,
                                       text |-> FieldOf(n, "text")])
      BY <1>5, <2>2, <2>4, <3>1 DEF FinishRequest, SpawnLantern
    <3>3. [for |-> n, image |-> 0, text |-> FieldOf(n, "text")]
            \in Display!LanternsOf(n)
      BY DEF Display!LanternsOf, FieldOf
    <3>4. Display!Show
      BY <1>5, <1>c, <2>1, <2>2, <3>2, <3>3
      DEF FinishRequest, Parsing, Display!Show
    <3> QED
      BY <3>4 DEF Display!Next
  <2> QED
    BY <2>3, <2>4
<1>6. ASSUME NEW n \in imageRequests, NEW outcome \in ImageOutcomes,
             OnResponseReceived(n, outcome)
      PROVE  Display!Next \/ UNCHANGED Display!displayVars
  <2>1. /\ Waiting /\ ~crashed /\ n = Taken /\ n = Len(spawned) + 1
        /\ n \in 1 .. Len(accepted) /\ Text = FieldOf(n, "text")
    <3>1. Waiting /\ ~crashed /\ n = Taken
      BY <1>6
      DEF OnResponseReceived, OnImageReceived, OnImageFailed, OnImageFatal,
          GameThreadIdle, PipelineInv, InWork, Delayed, Ready, Parsing,
          Waiting, Stuck, Dead
    <3>2. n = Len(spawned) + 1 /\ n \in 1 .. Len(accepted)
      BY <1>c, <3>1, Counters DEF PipelineInv, Waiting, InWork
    <3> QED
      BY <3>1, <3>2 DEF PipelineInv, FieldsCurrent, Current, Waiting
  <2>2. CASE OnImageReceived(n, outcome)
    <3> DEFINE image == IF outcome = "image" THEN n ELSE 0
               l == [for |-> n, image |-> image, text |-> FieldOf(n, "text")]
    <3>1. spawned' = Append(spawned, l)
      BY <2>1, <2>2 DEF OnImageReceived, SpawnLantern
    <3>2. l \in Display!LanternsOf(n)
      BY <2>1 DEF Display!LanternsOf, FieldOf, Waiting
    <3> HIDE DEF l
    <3>3. Display!Show
      BY <1>c, <2>1, <2>2, <3>1, <3>2
      DEF OnImageReceived, Waiting, Display!Show
    <3> QED
      BY <3>3 DEF Display!Next
  <2>3. CASE OnImageFailed(n, outcome) \/ OnImageFatal(n, outcome)
    <3>1. imagesFailed' # {} \/ crashed'
      BY <2>3 DEF OnImageFailed, OnImageFatal
    <3>2. accepted # <<>>
      BY <2>1
    <3>3. accepted' = accepted /\ spawned' = spawned
      BY <2>3 DEF OnImageFailed, OnImageFatal, lanternVars
    <3> QED
      BY <3>1, <3>2, <3>3 DEF Display!Next, Display!Stop
  <2> QED
    BY <1>6, <2>2, <2>3 DEF OnResponseReceived
<1>7. ASSUME NEW k \in callbacksPending, NEW outcome \in CallbackOutcomes,
             OnCallbackResponseReceived(k, outcome)
      PROVE  Display!Next \/ UNCHANGED Display!displayVars
  <2>1. /\ accepted' = accepted /\ spawned' = spawned /\ ~crashed
        /\ imagesFailed' = imagesFailed /\ crashed' \in BOOLEAN
    BY <1>7 DEF OnCallbackResponseReceived, GameThreadIdle
  <2>2. CASE crashed'
    <3>1. k \in 1 .. Len(spawned) /\ k <= Len(accepted)
      BY <1>7 DEF PipelineInv, ReferencesValid, LanternsInOrder
    <3>2. accepted # <<>>
      BY <1>c, <3>1
    <3> QED
      BY <2>1, <2>2, <3>2 DEF Display!Next, Display!Stop
  <2>3. CASE ~crashed'
    BY <2>1, <2>3
  <2> QED
    BY <2>2, <2>3
<1>2. ASSUME \/ StartSpawnDelayElapsed \/ TickCoolDown \/ TickRequest
             \/ RemoveAllLantern
             \/ \E k \in shotsPending : SaveScreenshot(k)
             \/ UNCHANGED vars
      PROVE  UNCHANGED Display!displayVars
  BY <1>2
  DEF StartSpawnDelayElapsed, TickCoolDown, TickRequest, RemoveAllLantern,
      SaveScreenshot, vars, lanternVars
<1>9. ~OperatorSpawnLantern
  BY DEF OperatorSpawnLantern, TypeOK
<1> QED
  BY <1>1, <1>2, <1>5, <1>6, <1>7, <1>9 DEF Next

\* For every number of messages, every capacity, cool-down and way of failing,
\* the pipeline shows what LanternDisplay allows, as long as no Blueprint
\* spawns lanterns behind its back.
THEOREM DisplayImplemented ==
  ASSUME OperatorSpawns = 0
  PROVE  Spec => Display!SafeSpec
<1>1. Init => Display!Init
  BY DEF Init, Display!Init
<1>2. TypeOK /\ PipelineInv /\ [Next]_vars =>
        [Display!Next]_(Display!displayVars)
  BY DisplayStep
<1> QED
  BY <1>1, <1>2, TypeCorrect, PipelineCorrect, PTL
  DEF Spec, Display!SafeSpec

-----------------------------------------------------------------------------
(* The pipeline with operator spawns *)

\* What stands behind NoEarlierData: the fields that a completion reads are
\* empty or those of the last message taken, and every lantern and every
\* request outstanding is that message's or an earlier one's.
DataInv ==
  /\ QueueInOrder
  /\ CurrentMessage \in {0, Taken} /\ PId \in {0, Taken} /\ Text \in {0, Taken}
  /\ \A n \in imageRequests : n <= Taken
  /\ \A k \in 1 .. Len(spawned) : spawned[k].for <= Taken
  /\ ReferencesValid
  /\ NoEarlierData /\ NoEarlierName /\ NewestLanternsKept

LEMMA LanternNumbers ==
  ASSUME TypeOK
  PROVE  \A k \in 1 .. Len(spawned) : spawned[k].for \in Nat
<1>1. spawned \in Seq(LanternRecord)
  BY DEF TypeOK, LanternRecord
<1>2. \A k \in 1 .. Len(spawned) : spawned[k] \in LanternRecord
  BY <1>1
<1> QED BY <1>2 DEF LanternRecord

\* A message that is queued is not taken.
LEMMA OnMessageTaken ==
  ASSUME TypeOK, QueueInOrder, NEW m \in Forms, OnMessage(m)
  PROVE  Taken' = Taken /\ QueueInOrder'
<1>0. /\ accepted \in Seq(Form) /\ MqttMessageArray \in Seq(Nat) /\ m \in Form
      /\ Len(accepted) \in Nat /\ Len(MqttMessageArray) \in Nat
  BY FormsAssumption, Counters DEF TypeOK
<1>1. CASE CheckIsLanternData(m)
  <2>1. accepted' = Append(accepted, m) /\ MqttMessageArray' = Append(MqttMessageArray, Len(accepted) + 1)
    BY <1>1 DEF OnMessage
  <2>2. Len(accepted') = Len(accepted) + 1
    <3> HIDE DEF Form
    <3> QED BY ONLY <1>0, <2>1
  <2>3. /\ Len(MqttMessageArray') = Len(MqttMessageArray) + 1
        /\ MqttMessageArray'[Len(MqttMessageArray) + 1] = Len(accepted) + 1
        /\ \A i \in 1 .. Len(MqttMessageArray) : MqttMessageArray'[i] = MqttMessageArray[i]
    BY <1>0, <2>1
  <2>4. Taken' = Taken
    BY <1>0, <2>2, <2>3 DEF Taken
  <2>5. ASSUME NEW i \in 1 .. Len(MqttMessageArray') PROVE MqttMessageArray'[i] = Taken + i
    <3>1. CASE i = Len(MqttMessageArray) + 1
      BY <1>0, <2>3, <3>1 DEF Taken
    <3>2. CASE i # Len(MqttMessageArray) + 1
      <4>1. i \in 1 .. Len(MqttMessageArray)
        BY <1>0, <2>3, <3>2
      <4> QED BY <2>3, <4>1 DEF QueueInOrder
    <3> QED BY <3>1, <3>2
  <2>6. Len(MqttMessageArray') <= Len(accepted')
    BY <1>0, <2>2, <2>3 DEF QueueInOrder
  <2> QED BY <2>4, <2>5, <2>6 DEF QueueInOrder
<1>2. CASE ~CheckIsLanternData(m)
  BY <1>2 DEF OnMessage, Taken, QueueInOrder
<1> QED BY <1>1, <1>2

\* Messages are taken in the order they were accepted.
LEMMA RequestTaken ==
  ASSUME TypeOK, QueueInOrder, HasMessage, RequestLanternData, accepted' = accepted
  PROVE  /\ CurrentMessage' = Taken + 1 /\ Taken' = Taken + 1 /\ QueueInOrder'
         /\ PId' = 0 /\ Text' = 0
<1>1. /\ MqttMessageArray \in Seq(Nat) /\ MqttMessageArray # <<>>
      /\ Len(accepted) \in Nat /\ Len(MqttMessageArray) \in Nat
      /\ MqttMessageArray' = Tail(MqttMessageArray) /\ CurrentMessage' = Head(MqttMessageArray)
  BY Counters DEF TypeOK, HasMessage, RequestLanternData
<1>2. /\ Len(MqttMessageArray') = Len(MqttMessageArray) - 1 /\ Len(MqttMessageArray) >= 1
      /\ CurrentMessage' = MqttMessageArray[1]
      /\ \A i \in 1 .. Len(MqttMessageArray') : MqttMessageArray'[i] = MqttMessageArray[i + 1]
  BY <1>1
<1>3. Taken' = Taken + 1 /\ Taken \in Int
  BY <1>1, <1>2 DEF Taken
<1>4. \A i \in 1 .. Len(MqttMessageArray') : i + 1 \in 1 .. Len(MqttMessageArray)
  BY <1>1, <1>2
<1>5. \A i \in 1 .. Len(MqttMessageArray') : MqttMessageArray'[i] = Taken' + i
  BY <1>2, <1>3, <1>4 DEF QueueInOrder
<1>6. CurrentMessage' = Taken + 1
  BY <1>1, <1>2 DEF QueueInOrder
<1>7. Len(MqttMessageArray') <= Len(accepted')
  BY <1>1, <1>2 DEF QueueInOrder
<1> QED BY <1>3, <1>5, <1>6, <1>7 DEF QueueInOrder, RequestLanternData

\* SpawnLantern, whoever calls it, with data of message n or of a later one.
LEMMA SpawnKeeps ==
  ASSUME TypeOK, TypeOK', DataInv, Taken' = Taken, screenshots' = screenshots,
         NEW n \in Nat, n <= Taken, NEW image \in Nat, NEW url \in Nat,
         NEW text \in Nat, text # 0 => text >= n,
         NEW pid \in Nat, pid # 0 => pid >= n,
         SpawnLantern(n, image, text, url, pid)
  PROVE  /\ \A k \in 1 .. Len(spawned') : spawned'[k].for <= Taken'
         /\ ReferencesValid'
         /\ NoEarlierData' /\ NoEarlierName' /\ NewestLanternsKept'
<1> DEFINE l == [for |-> n, image |-> image, text |-> text]
           s == Len(spawned) + 1
<1>1. spawned' = Append(spawned, l) /\ spawned \in Seq(LanternRecord) /\ Len(spawned) \in Nat
  BY Counters DEF SpawnLantern, TypeOK, LanternRecord
<1>2. /\ Len(spawned') = s /\ spawned'[s] = l /\ s \in Nat
      /\ \A k \in 1 .. Len(spawned) : spawned'[k] = spawned[k]
  <2> HIDE DEF l
  <2> QED BY <1>1
<1>3. 1 .. Len(spawned') = 1 .. Len(spawned) \cup {s}
  BY <1>1, <1>2
<1>4. CallbackHTTP(s, url, pid) /\ shotsPending' = shotsPending \cup {s}
  BY DEF SpawnLantern, Capture
<1>5. /\ \A p \in posted' : p \in posted \/ (p.lantern = s /\ p.pid = pid)
      /\ callbacksPending' \subseteq callbacksPending \cup {s}
  BY <1>4 DEF CallbackHTTP
<1>6. LanternArray' = Append(WithRoom(LanternArray), s)
  BY DEF SpawnLantern
<1> HIDE DEF s
<1>7. \A k \in 1 .. Len(spawned') : spawned'[k].for <= Taken'
  BY <1>2, <1>3 DEF DataInv
<1>8. ReferencesValid'
  <2>1. \A p \in posted' : p.lantern \in 1 .. Len(spawned')
    BY <1>3, <1>5 DEF DataInv, ReferencesValid
  <2>2. callbacksPending' \cup shotsPending' \subseteq 1 .. Len(spawned')
    BY <1>3, <1>4, <1>5 DEF DataInv, ReferencesValid
  <2>3. \A x \in screenshots' : x.of \in 1 .. Len(spawned')
    BY <1>3 DEF DataInv, ReferencesValid
  <2> QED BY <2>1, <2>2, <2>3 DEF ReferencesValid
<1>9. NoEarlierData'
  <2>1. ASSUME NEW k \in 1 .. Len(spawned') PROVE spawned'[k].text # 0 => spawned'[k].text >= spawned'[k].for
    BY <1>2, <1>3 DEF DataInv, NoEarlierData
  <2>2. ASSUME NEW p \in posted' PROVE p.pid # 0 => p.pid >= spawned'[p.lantern].for
    <3>1. CASE p \in posted
      BY <1>2, <3>1 DEF DataInv, NoEarlierData, ReferencesValid
    <3>2. CASE p.lantern = s /\ p.pid = pid
      BY <1>2, <3>2
    <3> QED BY <1>5, <3>1, <3>2
  <2> QED BY <2>1, <2>2 DEF NoEarlierData
<1>10. NoEarlierName'
  BY <1>2 DEF DataInv, NoEarlierName, ReferencesValid
<1>11. NewestLanternsKept'
  <2>a. LanternArray \in Seq(Nat) /\ Len(LanternArray) \in Nat
    BY DEF TypeOK
  <2>b. MaxLanterns \in Nat /\ MaxLanterns >= 1
    BY MaxLanternsAssumption
  <2>c. /\ Len(LanternArray) <= MaxLanterns
        /\ \A i \in 1 .. Len(LanternArray) : LanternArray[i] = Len(spawned) - Len(LanternArray) + i
    BY DEF DataInv, NewestLanternsKept
  <2>0. /\ LanternArray \in Seq(Nat) /\ Len(LanternArray) \in Nat /\ Len(LanternArray) <= MaxLanterns
        /\ MaxLanterns \in Nat /\ MaxLanterns >= 1
        /\ \A i \in 1 .. Len(LanternArray) : LanternArray[i] = Len(spawned) - Len(LanternArray) + i
    BY <2>a, <2>b, <2>c
  <2> DEFINE w == WithRoom(LanternArray)
  <2>1. /\ w \in Seq(Nat) /\ Len(w) \in Nat /\ Len(w) + 1 <= MaxLanterns
        /\ \A i \in 1 .. Len(w) : w[i] = Len(spawned) - Len(w) + i
    <3>1. CASE Len(LanternArray) = MaxLanterns
      <4>1. LanternArray # <<>> /\ w = Tail(LanternArray)
        BY <2>0, <3>1 DEF WithRoom
      <4>2. /\ w \in Seq(Nat) /\ Len(w) = Len(LanternArray) - 1
            /\ \A i \in 1 .. Len(w) : w[i] = LanternArray[i + 1]
        BY <2>0, <4>1
      <4>3. \A i \in 1 .. Len(w) : i + 1 \in 1 .. Len(LanternArray)
        BY <2>0, <4>2
      <4> HIDE DEF w
      <4> QED BY <1>1, <2>0, <3>1, <4>2, <4>3
    <3>2. CASE Len(LanternArray) # MaxLanterns
      <4>1. w = LanternArray
        BY <3>2 DEF WithRoom
      <4>2. Len(LanternArray) + 1 <= MaxLanterns
        BY <2>0, <3>2
      <4> HIDE DEF w
      <4> QED BY <2>0, <4>1, <4>2
    <3> QED BY <3>1, <3>2
  <2> HIDE DEF w
  <2>2. /\ Len(LanternArray') = Len(w) + 1 /\ LanternArray'[Len(w) + 1] = s
        /\ \A i \in 1 .. Len(w) : LanternArray'[i] = w[i]
    BY <1>2, <1>6, <2>1 DEF w
  <2>3. Len(spawned') = Len(spawned) + 1 /\ s = Len(spawned) + 1
    BY <1>2 DEF s
  <2>4. ASSUME NEW i \in 1 .. Len(LanternArray')
        PROVE  LanternArray'[i] = Len(spawned') - Len(LanternArray') + i
    <3>1. CASE i = Len(w) + 1
      BY <1>1, <2>1, <2>2, <2>3, <3>1
    <3>2. CASE i # Len(w) + 1
      <4>1. i \in 1 .. Len(w)
        BY <2>1, <2>2, <3>2
      <4> QED BY <1>1, <2>1, <2>2, <2>3, <4>1
    <3> QED BY <3>1, <3>2
  <2> QED BY <2>1, <2>2, <2>4 DEF NewestLanternsKept
<1> QED BY <1>7, <1>8, <1>9, <1>10, <1>11

\* No lantern, callback or file is added.
LEMMA NothingSpawned ==
  ASSUME TypeOK, DataInv, UNCHANGED <<spawned, posted, LanternArray>>,
         callbacksPending' \subseteq callbacksPending, shotsPending' \subseteq shotsPending,
         screenshots' = screenshots, Taken' = Taken \/ Taken' = Taken + 1
  PROVE  /\ \A k \in 1 .. Len(spawned') : spawned'[k].for <= Taken'
         /\ ReferencesValid'
         /\ NoEarlierData' /\ NoEarlierName' /\ NewestLanternsKept'
<1>1. \A k \in 1 .. Len(spawned) : spawned[k].for \in Nat
  BY LanternNumbers
<1>2. Taken \in Int
  BY Counters
<1>3. \A k \in 1 .. Len(spawned) : spawned[k].for <= Taken'
  BY <1>1, <1>2 DEF DataInv
<1>4. ReferencesValid'
  BY DEF DataInv, ReferencesValid
<1> QED BY <1>3, <1>4 DEF DataInv, NoEarlierData, NoEarlierName, NewestLanternsKept

LEMMA DataInvStep ==
  ASSUME TypeOK, TypeOK', DataInv, [Next]_vars
  PROVE  DataInv'
<1>0. Taken \in Nat /\ Len(accepted) \in Nat
  BY Counters DEF DataInv
<1>1. ASSUME NEW m \in Forms, OnMessage(m) PROVE DataInv'
  <2>1. Taken' = Taken /\ QueueInOrder'
    BY <1>1, OnMessageTaken DEF DataInv
  <2>2. /\ UNCHANGED <<CurrentMessage, PId, Text, imageRequests, spawned, posted, LanternArray,
                       callbacksPending, shotsPending, screenshots>>
    BY <1>1 DEF OnMessage, parsedFields, lanternVars
  <2> QED BY <2>1, <2>2, NothingSpawned DEF DataInv
<1>2. ASSUME UNCHANGED <<accepted, MqttMessageArray, CurrentMessage, PId, Text, spawned, posted, LanternArray, screenshots>>,
             imageRequests' \subseteq imageRequests,
             callbacksPending' \subseteq callbacksPending, shotsPending' \subseteq shotsPending
      PROVE  DataInv'
  <2>1. Taken' = Taken /\ QueueInOrder'
    BY <1>2 DEF Taken, QueueInOrder, DataInv
  <2> QED BY <1>2, <2>1, NothingSpawned DEF DataInv
<1>3. CASE StartSpawnDelayElapsed \/ TickCoolDown \/ UNCHANGED vars
  BY <1>2, <1>3 DEF StartSpawnDelayElapsed, TickCoolDown, vars, parsedFields, lanternVars
<1>4. CASE TickRequest
  <2>1. /\ CurrentMessage' = Taken + 1 /\ Taken' = Taken + 1 /\ QueueInOrder'
        /\ PId' = 0 /\ Text' = 0
    BY <1>4, RequestTaken DEF TickRequest, DataInv
  <2>2. /\ UNCHANGED <<imageRequests, spawned, posted, LanternArray,
                       callbacksPending, shotsPending, screenshots>>
    BY <1>4 DEF TickRequest, lanternVars
  <2>3. \A n \in imageRequests' : n <= Taken'
    BY <1>0, <2>1, <2>2 DEF DataInv, TypeOK
  <2> QED BY <2>1, <2>2, <2>3, NothingSpawned DEF DataInv
<1>5. CASE FinishRequest
  <2>0. /\ CurrentMessage = Taken /\ CurrentMessage \in Nat /\ CurrentMessage' = 0
        /\ Taken' = Taken /\ QueueInOrder' /\ screenshots' = screenshots
        /\ PId' \in Nat /\ Text' \in Nat /\ CallbackURL' \in Nat
    BY <1>5 DEF FinishRequest, DataInv, Taken, QueueInOrder, TypeOK
  <2>1. PId' \in {0, Taken} /\ Text' \in {0, Taken}
    BY <1>5, <2>0, FieldOfType DEF FinishRequest, ParseMessage, parsedFields, DataInv
  <2>2. CASE ImageURL' # 0
    <3>1. /\ UNCHANGED lanternVars /\ imageRequests' = imageRequests \cup {CurrentMessage}
      BY <1>5, <2>2 DEF FinishRequest
    <3>2. \A n \in imageRequests' : n <= Taken'
      BY <2>0, <3>1 DEF DataInv
    <3> QED BY <2>0, <2>1, <3>1, <3>2, NothingSpawned DEF DataInv, lanternVars
  <2>3. CASE ImageURL' = 0
    <3>1. SpawnLantern(CurrentMessage, 0, Text', CallbackURL', PId') /\ imageRequests' = imageRequests
      BY <1>5, <2>3 DEF FinishRequest
    <3>2. /\ \A k \in 1 .. Len(spawned') : spawned'[k].for <= Taken'
          /\ ReferencesValid'
          /\ NoEarlierData' /\ NoEarlierName' /\ NewestLanternsKept'
      <4>1. /\ 0 \in Nat /\ CurrentMessage <= Taken
            /\ Text' # 0 => Text' >= CurrentMessage
            /\ PId' # 0 => PId' >= CurrentMessage
        BY <1>0, <2>0, <2>1
      <4> HIDE DEF SpawnLantern
      <4> QED BY <2>0, <3>1, <4>1, SpawnKeeps
    <3> QED BY <2>0, <2>1, <3>1, <3>2 DEF DataInv
  <2> QED BY <2>2, <2>3
<1>6. ASSUME NEW n \in imageRequests, NEW outcome \in ImageOutcomes, OnImageReceived(n, outcome)
      PROVE  DataInv'
  <2> DEFINE image == IF outcome = "image" THEN n ELSE 0
  <2>0. /\ UNCHANGED <<accepted, MqttMessageArray, CurrentMessage, PId, Text, CallbackURL, screenshots>>
        /\ imageRequests' \subseteq imageRequests /\ SpawnLantern(n, image, Text, CallbackURL, PId)
    BY <1>6 DEF OnImageReceived, parsedFields
  <2>1. Taken' = Taken /\ QueueInOrder'
    BY <2>0 DEF Taken, QueueInOrder, DataInv
  <2>2. n \in Nat /\ n <= Taken /\ image \in Nat /\ Text \in Nat /\ PId \in Nat /\ CallbackURL \in Nat
    BY DEF TypeOK, DataInv
  <2>3. (Text # 0 => Text >= n) /\ (PId # 0 => PId >= n)
    BY <2>2 DEF DataInv
  <2> HIDE DEF image
  <2>4. /\ \A k \in 1 .. Len(spawned') : spawned'[k].for <= Taken'
        /\ ReferencesValid'
        /\ NoEarlierData' /\ NoEarlierName' /\ NewestLanternsKept'
    BY <2>0, <2>1, <2>2, <2>3, SpawnKeeps
  <2> QED BY <2>0, <2>1, <2>4 DEF DataInv
<1>7. ASSUME NEW n \in imageRequests, NEW outcome \in ImageOutcomes,
             OnImageFailed(n, outcome) \/ OnImageFatal(n, outcome)
      PROVE  DataInv'
  BY <1>2, <1>7 DEF OnImageFailed, OnImageFatal, parsedFields, lanternVars
<1>8. ASSUME NEW k \in callbacksPending, NEW outcome \in CallbackOutcomes,
             OnCallbackResponseReceived(k, outcome)
      PROVE  DataInv'
  BY <1>2, <1>8 DEF OnCallbackResponseReceived, parsedFields
<1>9. CASE RemoveAllLantern
  <2>1. /\ UNCHANGED <<accepted, MqttMessageArray, CurrentMessage, PId, Text, imageRequests, spawned,
                       posted, callbacksPending, shotsPending, screenshots>>
        /\ LanternArray' = <<>>
    BY <1>9 DEF RemoveAllLantern, parsedFields
  <2>2. NewestLanternsKept'
    <3>1. Len(LanternArray') = 0
      BY <2>1
    <3> QED BY <3>1, MaxLanternsAssumption DEF NewestLanternsKept
  <2>3. Taken' = Taken /\ QueueInOrder' /\ ReferencesValid' /\ NoEarlierData' /\ NoEarlierName'
    BY <2>1 DEF DataInv, Taken, QueueInOrder, ReferencesValid, NoEarlierData, NoEarlierName
  <2> QED BY <2>1, <2>2, <2>3 DEF DataInv
<1>10. CASE OperatorSpawnLantern
  <2>0. /\ UNCHANGED <<accepted, MqttMessageArray, CurrentMessage, PId, Text, CallbackURL, imageRequests, screenshots>>
        /\ SpawnLantern(0, 0, 0, CallbackURL, PId)
    BY <1>10 DEF OperatorSpawnLantern, parsedFields
  <2>1. Taken' = Taken /\ QueueInOrder'
    BY <2>0 DEF Taken, QueueInOrder, DataInv
  <2>2. 0 \in Nat /\ 0 <= Taken /\ PId \in Nat /\ CallbackURL \in Nat /\ (PId # 0 => PId >= 0)
    BY <1>0 DEF TypeOK
  <2>3. /\ \A k \in 1 .. Len(spawned') : spawned'[k].for <= Taken'
        /\ ReferencesValid'
        /\ NoEarlierData' /\ NoEarlierName' /\ NewestLanternsKept'
    BY <2>0, <2>1, <2>2, SpawnKeeps
  <2> QED BY <2>0, <2>1, <2>3 DEF DataInv
<1>11. ASSUME NEW k \in shotsPending, SaveScreenshot(k) PROVE DataInv'
  <2>1. /\ UNCHANGED <<accepted, MqttMessageArray, CurrentMessage, PId, Text, imageRequests, spawned,
                       posted, LanternArray, callbacksPending>>
        /\ shotsPending' \subseteq shotsPending
    BY <1>11 DEF SaveScreenshot, parsedFields
  <2>2. PICK name \in {PId, Torn} : screenshots' = screenshots \cup {[name |-> name, of |-> k]}
    BY <1>11 DEF SaveScreenshot, GetPId
  <2>3. k \in 1 .. Len(spawned) /\ spawned[k].for \in Nat /\ spawned[k].for <= Taken
    BY LanternNumbers DEF DataInv, ReferencesValid
  <2>4. name > 0 => name >= spawned[k].for
    BY <1>0, <2>3 DEF DataInv, Torn
  <2>5. NoEarlierName'
    BY <2>1, <2>2, <2>4 DEF DataInv, NoEarlierName
  <2>6. Taken' = Taken /\ QueueInOrder' /\ NoEarlierData' /\ NewestLanternsKept'
    BY <2>1 DEF DataInv, Taken, QueueInOrder, NoEarlierData, NewestLanternsKept
  <2>7. ReferencesValid'
    <3>1. \A x \in screenshots' : x \in screenshots \/ x.of = k
      BY <2>2
    <3>2. \A x \in screenshots' : x.of \in 1 .. Len(spawned')
      BY <2>1, <2>3, <3>1 DEF DataInv, ReferencesValid
    <3> QED BY <2>1, <3>2 DEF DataInv, ReferencesValid
  <2> QED BY <2>1, <2>5, <2>6, <2>7 DEF DataInv
<1> QED BY <1>1, <1>3, <1>4, <1>5, <1>6, <1>7, <1>8, <1>9, <1>10, <1>11 DEF Next, OnResponseReceived

LEMMA DataHolds == Spec => []DataInv
<1>1. Init => DataInv
  <2> SUFFICES ASSUME Init PROVE DataInv
    OBVIOUS
  <2>1. /\ Len(accepted) = 0 /\ Len(MqttMessageArray) = 0 /\ Len(spawned) = 0 /\ Len(LanternArray) = 0
    BY DEF Init
  <2>2. Taken = 0
    BY <2>1 DEF Taken
  <2> QED BY <2>1, <2>2, MaxLanternsAssumption
          DEF Init, DataInv, QueueInOrder, ReferencesValid, NoEarlierData, NoEarlierName, NewestLanternsKept
<1>2. TypeOK /\ TypeOK' /\ DataInv /\ [Next]_vars => DataInv'
  BY DataInvStep
<1> QED BY <1>1, <1>2, TypeCorrect, PTL DEF Spec

\* Whatever the operator spawns, no lantern has the text, and no callback the
\* pid, of an earlier message.
THEOREM NoEarlierDataCorrect == Spec => []NoEarlierData
<1>1. DataInv => NoEarlierData
  BY DEF DataInv
<1> QED BY <1>1, DataHolds, PTL

\* LanternArray stays within its capacity and ends with the newest lanterns,
\* whoever spawns them and whenever the sky is cleared.
THEOREM NewestLanternsCorrect == Spec => []NewestLanternsKept
<1>1. DataInv => NewestLanternsKept
  BY DEF DataInv
<1> QED BY <1>1, DataHolds, PTL

=============================================================================
