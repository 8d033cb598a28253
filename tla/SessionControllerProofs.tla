------------------------ MODULE SessionControllerProofs ------------------------
(***************************************************************************)
(* Proofs about SessionController, for any number of operations and of SDK *)
(* sessions: types, the turns that end, and what becomes of SDK sessions.  *)
(***************************************************************************)
EXTENDS SessionController, TLAPS

Phases == InitPhases \union {"free", "waiting", "failed", "ready", "running"}

(* The operation that runs initializeSession is the one the others wait for, *)
(* ...                                                                       *)
OneInitialises ==
    \A k \in Calls : call[k].phase \in InitPhases <=> initPromise = k

(* ... and it holds the SDK session it made, until dispose() disposes of it. *)
Making ==
    \A k \in Calls :
        /\ call[k].phase \in {"preparing", "creating"} => result = None /\ life # "disposing"
        /\ call[k].phase \in {"binding", "cleaning"} =>
              /\ call[k].on \in Sdks /\ call[k].on \notin Unborn
              /\ \/ result = call[k].on
                 \/ life = "disposed" /\ result = None

(* dispose() has the session it found in mind, which may go before it. *)
Disposing ==
    /\ life = "disposing" => doomed \in Sdks /\ result \in {doomed, None}
    /\ life = "disposed" /\ ~orphaned => result = None

(* The controller's SDK session is usable, and the only one that is. *)
Holding == Live = IF result = None THEN {} ELSE {result}

(* Sessions that are listened to exist, and so does the controller's own be- *)
(* tween its initialisation and dispose().                                   *)
Listening ==
    /\ subscribed \intersect Unborn = {}
    /\ life = "usable" /\ result # None
         /\ (\A k \in Calls : call[k].phase \notin {"binding", "cleaning"})
         => result \in bound /\ result \in subscribed /\ kept = result

SdkInv == TypeOK /\ OneInitialises /\ Making /\ Disposing /\ Holding /\ Listening

-------------------------------------------------------------------------------
(* Types *)

LEMMA WakeType ==
    ASSUME TypeOK, NEW k \in Calls, NEW phase \in Phases, Wake(k, phase)
    PROVE  call' \in [Calls -> Call]
  <1>1. ASSUME NEW j \in Calls
        PROVE  [call[j] EXCEPT !.phase = phase, !.on = None] \in Call /\ call[j] \in Call
    BY <1>1 DEF TypeOK, Call, Phases
  <1> QED
    BY <1>1 DEF Wake

LEMMA GoesType ==
    ASSUME TypeOK, NEW k \in Calls, NEW phase \in Phases, NEW i \in Sdks \union {None},
           InitGoes(k, phase, i)
    PROVE  call' \in [Calls -> Call]
  <1>1. [call[k] EXCEPT !.phase = phase, !.on = i] \in Call
    BY DEF TypeOK, Call, Phases
  <1> QED
    BY <1>1 DEF InitGoes, TypeOK

LEMMA SettleType ==
    ASSUME TypeOK, NEW k \in Calls, NEW turn \in {"none", "started", "completed", "failed"},
           NEW error \in BOOLEAN, Settle(k, turn, error)
    PROVE  call' \in [Calls -> Call] /\ compacting' \in BOOLEAN
  <1>1. [call[k] EXCEPT !.phase = "free", !.on = None, !.turn = turn, !.error = error] \in Call
    BY DEF TypeOK, Call
  <1> QED
    BY <1>1 DEF Settle, TypeOK

LEMMA TypeInit == Init => TypeOK
  <1> SUFFICES ASSUME Init
               PROVE  TypeOK
    OBVIOUS
  <1>1. [op |-> "plain", phase |-> "free", on |-> None, turn |-> "none", error |-> FALSE] \in Call
    BY DEF Call, Ops
  <1>2. call \in [Calls -> Call]
    BY <1>1 DEF Init
  <1> QED
    BY <1>2 DEF Init, TypeOK

LEMMA TypeStep == TypeOK /\ Making /\ [Next]_vars => TypeOK'
  <1> SUFFICES ASSUME TypeOK, Making, [Next]_vars
               PROVE  TypeOK'
    OBVIOUS
  <1> DEFINE CallType == call' \in [Calls -> Call]
  <1>0. /\ "failed" \in Phases /\ "ready" \in Phases /\ "creating" \in Phases
        /\ "binding" \in Phases /\ "cleaning" \in Phases
    BY DEF Phases, InitPhases
  <1>1. ASSUME NEW k \in Calls, NEW op \in Ops, Submit(k, op)
        PROVE  TypeOK'
    <2>1. [op |-> op, phase |-> EnsureInitialized, on |-> None, turn |-> "none",
           error |-> FALSE] \in Call
      BY DEF Call, EnsureInitialized, InitPhases
    <2> QED
      BY <1>1, <2>1 DEF Submit, TypeOK, LifeUnchanged, SdkUnchanged
  <1>2. ASSUME NEW k \in Calls, Rejected(k)
        PROVE  TypeOK'
    <2>1. "none" \in {"none", "started", "completed", "failed"} /\ TRUE \in BOOLEAN
      OBVIOUS
    <2>2. call' \in [Calls -> Call] /\ compacting' \in BOOLEAN
      BY <1>2, <2>1, SettleType DEF Rejected
    <2> QED
      BY <1>2, <2>2 DEF Rejected, TypeOK, LifeUnchanged, SdkUnchanged
  <1>3. ASSUME NEW k \in Calls, Resume(k)
        PROVE  TypeOK'
    <2> DEFINE turn == IF call[k].op = "prompt" THEN "started" ELSE "none"
               last == IF call[k].op = "prompt" /\ HasSessionId THEN "failed" ELSE "none"
    <2>1. CASE /\ Usable /\ UNCHANGED compacting
               /\ call' = [call EXCEPT ![k] = [@ EXCEPT !.phase = "running", !.on = result,
                                                        !.turn = turn]]
      <3>1. [call[k] EXCEPT !.phase = "running", !.on = result, !.turn = turn] \in Call
        BY DEF TypeOK, Call
      <3>2. call' \in [Calls -> Call]
        BY <2>1, <3>1 DEF TypeOK
      <3> QED
        BY <1>3, <2>1, <3>2 DEF Resume, TypeOK, LifeUnchanged, SdkUnchanged
    <2>2. CASE Settle(k, last, TRUE)
      <3>1. last \in {"none", "started", "completed", "failed"} /\ TRUE \in BOOLEAN
        OBVIOUS
      <3>2. call' \in [Calls -> Call] /\ compacting' \in BOOLEAN
        BY <2>2, <3>1, SettleType
      <3> QED
        BY <1>3, <3>2 DEF Resume, TypeOK, LifeUnchanged, SdkUnchanged
    <2> QED
      BY <1>3, <2>1, <2>2 DEF Resume
  <1>4. ASSUME NEW k \in Calls, Settled(k)
        PROVE  TypeOK'
    <2> DEFINE T == {"none", "started", "completed", "failed"}
    <2>1. PICK error \in BOOLEAN :
            Settle(k, IF call[k].op # "prompt" THEN "none"
                      ELSE IF ~HasSessionId THEN call[k].turn
                      ELSE IF error THEN "failed" ELSE "completed",
                   error \/ (call[k].op = "prompt" /\ ~HasSessionId))
      BY <1>4 DEF Settled
    <2>2. call[k].turn \in T
      BY DEF TypeOK, Call
    <2>3. (IF call[k].op # "prompt" THEN "none" ELSE IF ~HasSessionId THEN call[k].turn
             ELSE IF error THEN "failed" ELSE "completed") \in T
      BY <2>2
    <2>4. (error \/ (call[k].op = "prompt" /\ ~HasSessionId)) \in BOOLEAN
      OBVIOUS
    <2>5. call' \in [Calls -> Call] /\ compacting' \in BOOLEAN
      BY <2>1, <2>3, <2>4, SettleType
    <2> QED
      BY <1>4, <2>5 DEF Settled, TypeOK, LifeUnchanged, SdkUnchanged
  <1>5. ASSUME NEW k \in Calls, Prepared(k)
        PROVE  TypeOK'
    <2>1. call' \in [Calls -> Call]
      BY <1>0, <1>5, GoesType, WakeType DEF Prepared, InitSettled
    <2> QED
      BY <1>5, <2>1 DEF Prepared, InitSettled, InitGoes, TypeOK, LifeUnchanged, SdkUnchanged
  <1>6. ASSUME NEW k \in Calls, Created(k)
        PROVE  TypeOK'
    <2>1. CASE InitSettled(k, "failed") /\ SdkUnchanged
      <3>1. call' \in [Calls -> Call]
        BY <1>0, <2>1, WakeType DEF InitSettled
      <3> QED
        BY <1>6, <2>1, <3>1 DEF Created, InitSettled, TypeOK, LifeUnchanged, SdkUnchanged
    <2>2. ASSUME NEW i \in Unborn,
                 sdk' = [sdk EXCEPT ![i] = "live"], result' = i,
                 orphaned' = (orphaned \/ life # "usable"),
                 InitGoes(k, "binding", i) \/ InitSettled(k, "failed"),
                 UNCHANGED <<bound, subscribed, kept>>
          PROVE  TypeOK'
      <3>1. i \in Sdks
        BY DEF Unborn
      <3>2. call' \in [Calls -> Call]
        BY <1>0, <2>2, <3>1, GoesType, WakeType DEF InitSettled
      <3>3. initPromise' \in Calls \union {None}
        BY <2>2 DEF InitSettled, InitGoes, TypeOK
      <3> QED
        BY <1>6, <2>2, <3>1, <3>2, <3>3 DEF Created, TypeOK, LifeUnchanged
    <2> QED
      BY <1>6, <2>1, <2>2 DEF Created
  <1>7. ASSUME NEW k \in Calls, Bound(k)
        PROVE  TypeOK'
    <2>0. call[k].on \in Sdks
      BY <1>7 DEF Bound, Making
    <2>1. call' \in [Calls -> Call]
      BY <1>0, <1>7, <2>0, GoesType, WakeType DEF Bound, InitSettled
    <2>2. initPromise' \in Calls \union {None}
      BY <1>7 DEF Bound, InitSettled, InitGoes, TypeOK
    <2> QED
      BY <1>7, <2>0, <2>1, <2>2 DEF Bound, Subscribe, TypeOK, LifeUnchanged
  <1>8. ASSUME NEW k \in Calls, Cleaned(k)
        PROVE  TypeOK'
    <2>1. call' \in [Calls -> Call]
      BY <1>0, <1>8, WakeType DEF Cleaned, InitSettled
    <2> QED
      BY <1>8, <2>1 DEF Cleaned, InitSettled, TypeOK, LifeUnchanged
  <1>9. CASE Dispose
    BY <1>9 DEF Dispose, TypeOK
  <1>10. CASE Disposed
    BY <1>10 DEF Disposed, TypeOK
  <1>11. CASE UNCHANGED vars
    BY <1>11 DEF vars, TypeOK
  <1> QED
    BY <1>1, <1>2, <1>3, <1>4, <1>5, <1>6, <1>7, <1>8, <1>9, <1>10, <1>11 DEF Next, Progress

-------------------------------------------------------------------------------
(* SDK sessions *)

(* An operation that is done with initializeSession leaves nobody there. *)
LEMMA NobodyInitialises ==
    ASSUME TypeOK, OneInitialises, NEW k \in Calls, call[k].phase \in InitPhases,
           NEW phase \in {"failed", "ready"}, InitSettled(k, phase)
    PROVE  /\ initPromise' = None
           /\ \A j \in Calls : call'[j].phase \notin InitPhases
           /\ OneInitialises'
  <1>1. \A j \in Calls : j # k => call[j].phase \notin InitPhases
    BY DEF OneInitialises
  <1>2. phase \notin InitPhases /\ "waiting" \notin InitPhases
    BY DEF InitPhases
  <1>3. \A j \in Calls : call'[j].phase \notin InitPhases
    <2> SUFFICES ASSUME NEW j \in Calls
                 PROVE  call'[j].phase \notin InitPhases
      OBVIOUS
    <2>1. CASE j = k \/ call[j].phase = "waiting"
      <3>1. call'[j] = [call[j] EXCEPT !.phase = phase, !.on = None]
        BY <2>1 DEF InitSettled, Wake
      <3>2. call'[j].phase = phase
        BY <3>1 DEF TypeOK, Call
      <3> QED
        BY <1>2, <3>2
    <2>2. CASE ~(j = k \/ call[j].phase = "waiting")
      BY <1>1, <2>2 DEF InitSettled, Wake
    <2> QED
      BY <2>1, <2>2
  <1>4. None \notin Calls
    BY ControllerAssumption
  <1> QED
    BY <1>3, <1>4 DEF InitSettled, OneInitialises

(* The initialisation goes on. *)
LEMMA StillInitialises ==
    ASSUME TypeOK, OneInitialises, NEW k \in Calls, call[k].phase \in InitPhases,
           NEW phase \in InitPhases, NEW i \in Sdks \union {None}, InitGoes(k, phase, i)
    PROVE  /\ call'[k].phase = phase /\ call'[k].on = i
           /\ \A j \in Calls : j # k => call'[j] = call[j] /\ call[j].phase \notin InitPhases
           /\ OneInitialises'
  <1>1. call'[k].phase = phase /\ call'[k].on = i
    BY DEF InitGoes, TypeOK, Call
  <1>2. \A j \in Calls : j # k => call'[j] = call[j] /\ call[j].phase \notin InitPhases
    BY DEF InitGoes, TypeOK, OneInitialises
  <1> QED
    BY <1>1, <1>2 DEF OneInitialises, InitGoes

(* An operation before or after the initialisation takes no part in it. *)
LEMMA NotInitialising ==
    ASSUME SdkInv, NEW k \in Calls, call[k].phase \notin InitPhases,
           call'[k].phase \notin InitPhases, \A j \in Calls : j # k => call'[j] = call[j],
           TypeOK', UNCHANGED initPromise, LifeUnchanged, SdkUnchanged
    PROVE  SdkInv'
  <1> USE DEF SdkInv, LifeUnchanged, SdkUnchanged
  <1>1. \A j \in Calls : call'[j] = call[j]
                          \/ (call'[j].phase \notin InitPhases /\ call[j].phase \notin InitPhases)
    OBVIOUS
  <1>2. {"preparing", "creating", "binding", "cleaning"} = InitPhases
    BY DEF InitPhases
  <1>3. OneInitialises'
    BY <1>1 DEF OneInitialises
  <1>4. Making'
    BY <1>1, <1>2 DEF Making, Unborn
  <1>5. Disposing' /\ Holding'
    BY DEF Disposing, Holding, Live
  <1>6. Listening'
    BY <1>1, <1>2 DEF Listening, Unborn
  <1> QED
    BY <1>3, <1>4, <1>5, <1>6

LEMMA SdkInit == Init => SdkInv
  <1> SUFFICES ASSUME Init
               PROVE  SdkInv
    OBVIOUS
  <1>1. TypeOK
    BY TypeInit
  <1>2. \A k \in Calls : call[k].phase = "free"
    BY DEF Init
  <1>3. OneInitialises /\ Making
    BY <1>2, ControllerAssumption DEF Init, OneInitialises, Making, InitPhases
  <1>4. Disposing /\ Holding /\ Listening
    BY DEF Init, Disposing, Holding, Listening, Live, Unborn
  <1> QED
    BY <1>1, <1>3, <1>4 DEF SdkInv

LEMMA SdkStep == SdkInv /\ [Next]_vars => SdkInv'
  <1> SUFFICES ASSUME SdkInv, [Next]_vars
               PROVE  SdkInv'
    OBVIOUS
  <1> USE DEF SdkInv
  <1>0. TypeOK'
    BY TypeStep
  <1>1. ASSUME NEW k \in Calls, NEW op \in Ops, Submit(k, op)
        PROVE  SdkInv'
    <2>1. call'[k].phase = EnsureInitialized /\ \A j \in Calls : j # k => call'[j] = call[j]
      BY <1>1 DEF Submit, TypeOK
    <2>2. call[k].phase \notin InitPhases
      BY <1>1 DEF Submit, InitPhases
    <2>3. CASE EnsureInitialized # "preparing"
      <3>1. call'[k].phase \notin InitPhases /\ initPromise' = initPromise
        BY <1>1, <2>1, <2>3 DEF EnsureInitialized, InitPhases, Submit
      <3> QED
        BY <1>0, <1>1, <2>1, <2>2, <3>1, NotInitialising DEF Submit
    <2>4. CASE EnsureInitialized = "preparing"
      <3>1. initPromise = None /\ result = None /\ initPromise' = k
        BY <1>1, <2>4 DEF EnsureInitialized, Submit
      <3>2. \A j \in Calls : j # k => call'[j].phase \notin InitPhases
        BY <2>1, <3>1, ControllerAssumption DEF OneInitialises
      <3>3. call'[k].phase = "preparing"
        BY <2>1, <2>4
      <3>4. UNCHANGED <<life, doomed, result, sdk, bound, subscribed, kept, orphaned>>
              /\ life = "usable"
        BY <1>1 DEF Submit, LifeUnchanged, SdkUnchanged
      <3>5. OneInitialises'
        BY <3>1, <3>2, <3>3 DEF OneInitialises, InitPhases
      <3>6. Making'
        BY <3>1, <3>2, <3>3, <3>4 DEF Making, InitPhases
      <3>7. Disposing' /\ Holding' /\ Listening'
        BY <3>1, <3>4 DEF Disposing, Holding, Listening, Live, Unborn
      <3> QED
        BY <1>0, <3>5, <3>6, <3>7
    <2> QED
      BY <2>3, <2>4
  <1>2. ASSUME NEW k \in Calls, Rejected(k) \/ Resume(k) \/ Settled(k)
        PROVE  SdkInv'
    <2>1. call[k].phase \notin InitPhases
      BY <1>2 DEF Rejected, Resume, Settled, InitPhases
    <2>2. call'[k].phase \in {"free", "running"}
      <3>1. ASSUME NEW turn, NEW error, Settle(k, turn, error)
            PROVE  call'[k].phase = "free"
        BY <3>1 DEF Settle, TypeOK, Call
      <3>2. CASE Rejected(k)
        BY <3>1, <3>2 DEF Rejected
      <3>3. CASE Settled(k)
        BY <3>1, <3>3 DEF Settled
      <3>4. CASE Resume(k)
        <4>1. call[k] \in Call /\ DOMAIN call = Calls
          BY DEF TypeOK
        <4>2. CASE Usable
          <5>1. call' = [call EXCEPT ![k] =
                           [@ EXCEPT !.phase = "running", !.on = result,
                                     !.turn = IF call[k].op = "prompt" THEN "started" ELSE "none"]]
            BY <3>4, <4>2 DEF Resume
          <5> QED
            BY <4>1, <5>1 DEF Call
        <4>3. CASE ~Usable
          <5>1. \E turn, error : Settle(k, turn, error)
            BY <3>4, <4>3, Zenon DEF Resume
          <5> QED
            BY <3>1, <5>1
        <4> QED
          BY <4>2, <4>3
      <3> QED
        BY <1>2, <3>2, <3>3, <3>4
    <2>3. \A j \in Calls : j # k => call'[j] = call[j]
      BY <1>2 DEF Rejected, Resume, Settled, Settle, TypeOK
    <2>4. call'[k].phase \notin InitPhases
      BY <2>2 DEF InitPhases
    <2>5. UNCHANGED initPromise /\ LifeUnchanged /\ SdkUnchanged
      BY <1>2 DEF Rejected, Resume, Settled
    <2> QED
      BY <1>0, <2>1, <2>3, <2>4, <2>5, NotInitialising
  <1>3. ASSUME NEW k \in Calls, Prepared(k)
        PROVE  SdkInv'
    <2>0. call[k].phase \in InitPhases /\ result = None
      BY <1>3 DEF Prepared, InitPhases, Making
    <2>1. UNCHANGED <<life, doomed, result, sdk, bound, subscribed, kept, orphaned>>
      BY <1>3 DEF Prepared, LifeUnchanged, SdkUnchanged
    <2>2. Disposing' /\ Holding' /\ Listening'
      BY <2>0, <2>1 DEF Disposing, Holding, Listening, Live, Unborn
    <2>3. CASE life = "usable" /\ InitGoes(k, "creating", None)
      <3>1. "creating" \in InitPhases
        BY DEF InitPhases
      <3>2. /\ call'[k].phase = "creating"
            /\ \A j \in Calls : j # k => call'[j] = call[j] /\ call[j].phase \notin InitPhases
            /\ OneInitialises'
        BY <2>0, <2>3, <3>1, StillInitialises
      <3>3. Making'
        BY <2>0, <2>1, <2>3, <3>2 DEF Making, InitPhases
      <3> QED
        BY <1>0, <2>2, <3>2, <3>3
    <2>4. CASE InitSettled(k, "failed")
      <3>1. OneInitialises' /\ \A j \in Calls : call'[j].phase \notin InitPhases
        BY <2>0, <2>4, NobodyInitialises
      <3>2. Making'
        BY <3>1 DEF Making, InitPhases
      <3> QED
        BY <1>0, <2>2, <3>1, <3>2
    <2> QED
      BY <1>3, <2>3, <2>4 DEF Prepared
  <1>4. ASSUME NEW k \in Calls, Created(k)
        PROVE  SdkInv'
    <2>0. /\ call[k].phase \in InitPhases /\ result = None /\ life # "disposing"
          /\ UNCHANGED <<life, doomed>>
      BY <1>4 DEF Created, InitPhases, Making, LifeUnchanged
    <2>1. CASE InitSettled(k, "failed") /\ SdkUnchanged
      <3>1. OneInitialises' /\ \A j \in Calls : call'[j].phase \notin InitPhases
        BY <2>0, <2>1, NobodyInitialises
      <3>2. Making'
        BY <3>1 DEF Making, InitPhases
      <3>3. Disposing' /\ Holding' /\ Listening'
        BY <2>0, <2>1 DEF Disposing, Holding, Listening, Live, Unborn, SdkUnchanged
      <3> QED
        BY <1>0, <3>1, <3>2, <3>3
    <2>2. ASSUME NEW i \in Unborn,
                 sdk' = [sdk EXCEPT ![i] = "live"], result' = i,
                 orphaned' = (orphaned \/ life # "usable"),
                 IF life = "usable" THEN InitGoes(k, "binding", i)
                 ELSE InitSettled(k, "failed"),
                 UNCHANGED <<bound, subscribed, kept>>
          PROVE  SdkInv'
      <3>1. i \in Sdks /\ i # None /\ i \notin subscribed
        BY ControllerAssumption DEF Unborn, Listening
      <3>2. Live = {}
        BY <2>0 DEF Holding
      <3>3. Live' = {i} /\ Unborn' = Unborn \ {i}
        BY <2>2, <3>1, <3>2 DEF Live, Unborn, TypeOK
      <3>4. Holding'
        BY <2>2, <3>1, <3>3 DEF Holding
      <3>5. Disposing'
        BY <2>0, <2>2 DEF Disposing
      <3>6. CASE life = "usable"
        <4>1. InitGoes(k, "binding", i) /\ "binding" \in InitPhases
          BY <2>2, <3>6 DEF InitPhases
        <4>2. /\ call'[k].phase = "binding" /\ call'[k].on = i
              /\ \A j \in Calls : j # k => call'[j] = call[j] /\ call[j].phase \notin InitPhases
              /\ OneInitialises'
          BY <2>0, <3>1, <4>1, StillInitialises
        <4>3. Making'
          BY <2>2, <3>1, <3>3, <4>2 DEF Making, InitPhases
        <4>4. Listening'
          BY <2>2, <3>3, <4>2 DEF Listening
        <4> QED
          BY <1>0, <3>4, <3>5, <4>2, <4>3, <4>4
      <3>7. CASE life # "usable"
        <4>1. OneInitialises' /\ \A j \in Calls : call'[j].phase \notin InitPhases
          BY <2>0, <2>2, <3>7, NobodyInitialises
        <4>2. Making'
          BY <4>1 DEF Making, InitPhases
        <4>3. Listening'
          BY <2>0, <2>2, <3>3, <3>7 DEF Listening
        <4> QED
          BY <1>0, <3>4, <3>5, <4>1, <4>2, <4>3
      <3> QED
        BY <3>6, <3>7
    <2> QED
      BY <1>4, <2>1, <2>2 DEF Created
  <1>5. ASSUME NEW k \in Calls, Bound(k)
        PROVE  SdkInv'
    <2> DEFINE i == call[k].on
    <2>0. /\ call[k].phase \in InitPhases /\ i \in Sdks
          /\ result = i \/ (life = "disposed" /\ result = None)
      BY <1>5 DEF Bound, InitPhases, Making
    <2>1. UNCHANGED <<life, doomed, result, sdk, orphaned>>
      BY <1>5 DEF Bound, LifeUnchanged
    <2>2. Disposing' /\ Holding'
      BY <2>1 DEF Disposing, Holding, Live
    <2>3. CASE Subscribe(i) /\ InitSettled(k, "ready")
      <3>1. OneInitialises' /\ \A j \in Calls : call'[j].phase \notin InitPhases
        BY <2>0, <2>3, NobodyInitialises
      <3>2. Making'
        BY <3>1 DEF Making, InitPhases
      <3>3. sdk[i] # "unborn"
        BY <1>5, <2>0 DEF Bound, Making, Unborn
      <3>4. Listening'
        BY <2>0, <2>1, <2>3, <3>3 DEF Listening, Subscribe, Unborn
      <3> QED
        BY <1>0, <2>2, <3>1, <3>2, <3>4
    <2>4. CASE InitGoes(k, "cleaning", i) /\ UNCHANGED <<bound, subscribed, kept>>
      <3>1. "cleaning" \in InitPhases
        BY DEF InitPhases
      <3>2. /\ call'[k].phase = "cleaning" /\ call'[k].on = i
            /\ \A j \in Calls : j # k => call'[j] = call[j] /\ call[j].phase \notin InitPhases
            /\ OneInitialises'
        BY <2>0, <2>4, <3>1, StillInitialises
      <3>3. i \notin Unborn'
        BY <1>5, <2>1 DEF Bound, Making, Unborn
      <3>4. Making'
        BY <2>0, <2>1, <3>2, <3>3 DEF Making, InitPhases
      <3>5. Listening'
        BY <2>1, <2>4, <3>2 DEF Listening, Unborn
      <3> QED
        BY <1>0, <2>2, <3>2, <3>4, <3>5
    <2> QED
      BY <1>5, <2>3, <2>4 DEF Bound
  <1>6. ASSUME NEW k \in Calls, Cleaned(k)
        PROVE  SdkInv'
    <2> DEFINE i == call[k].on
    <2>0. /\ call[k].phase \in InitPhases /\ i \in Sdks
          /\ result = i \/ (life = "disposed" /\ result = None)
      BY <1>6 DEF Cleaned, InitPhases, Making
    <2>1. /\ sdk' = [sdk EXCEPT ![i] = "disposed"] /\ result' = None
          /\ UNCHANGED <<life, doomed, bound, subscribed, orphaned>> /\ InitSettled(k, "failed")
      BY <1>6 DEF Cleaned, LifeUnchanged
    <2>2. OneInitialises' /\ \A j \in Calls : call'[j].phase \notin InitPhases
      BY <2>0, <2>1, NobodyInitialises
    <2>3. Making'
      BY <2>2 DEF Making, InitPhases
    <2>4. Live' = Live \ {i} /\ Unborn' \subseteq Unborn
      BY <2>0, <2>1 DEF Live, Unborn, TypeOK
    <2>5. Holding'
      BY <2>0, <2>1, <2>4 DEF Holding
    <2>6. Disposing' /\ Listening'
      BY <2>1, <2>4 DEF Disposing, Listening
    <2> QED
      BY <1>0, <2>2, <2>3, <2>5, <2>6
  <1>7. CASE Dispose
    <2>1. /\ life = "usable" /\ doomed' = result
          /\ life' = IF result = None THEN "disposed" ELSE "disposing"
          /\ subscribed' = subscribed \ {kept}
          /\ UNCHANGED <<result, sdk, bound, initPromise, call, orphaned>>
      BY <1>7 DEF Dispose
    <2>2. OneInitialises' /\ Holding'
      BY <2>1 DEF OneInitialises, Holding, Live
    <2>3. Making'
      BY <2>1 DEF Making, Unborn
    <2>4. Disposing' /\ Listening'
      BY <2>1 DEF Disposing, Listening, Unborn, TypeOK
    <2> QED
      BY <1>0, <2>2, <2>3, <2>4
  <1>8. CASE Disposed
    <2>1. /\ life = "disposing" /\ life' = "disposed" /\ result' = None
          /\ sdk' = [sdk EXCEPT ![doomed] = "disposed"]
          /\ UNCHANGED <<bound, subscribed, initPromise, call, orphaned>>
      BY <1>8 DEF Disposed
    <2>2. doomed \in Sdks /\ result \in {doomed, None}
      BY <2>1 DEF Disposing
    <2>3. Live' = Live \ {doomed} /\ Unborn' \subseteq Unborn
      BY <2>1, <2>2 DEF Live, Unborn, TypeOK
    <2>4. Holding'
      BY <2>1, <2>2, <2>3 DEF Holding
    <2>5. OneInitialises' /\ Disposing' /\ Listening'
      BY <2>1, <2>3 DEF OneInitialises, Disposing, Listening
    <2>6. Making'
      BY <2>1, <2>2, <2>3 DEF Making, Disposing
    <2> QED
      BY <1>0, <2>4, <2>5, <2>6
  <1>9. CASE UNCHANGED vars
    BY <1>0, <1>9 DEF vars, OneInitialises, Making, Disposing, Holding, Listening, Live, Unborn
  <1> QED
    BY <1>1, <1>2, <1>3, <1>4, <1>5, <1>6, <1>7, <1>8, <1>9 DEF Next, Progress

(* Types, and what initialisation and disposal know of each other, hold in   *)
(* every reachable state.                                                    *)
THEOREM ControllerInvariant == Spec => []SdkInv
BY SdkInit, SdkStep, PTL DEF Spec

(* The controller's state keeps its types. *)
THEOREM TypeCorrect == Spec => []TypeOK
<1>1. SdkInv => TypeOK
  BY DEF SdkInv
<1> QED
  BY <1>1, ControllerInvariant, PTL

(* However often initialisation is shared, fails and is repeated, there is   *)
(* one SDK session at most, the one the controller holds.                    *)
THEOREM SdkSessionUnique == Spec => []OneSdkSession
<1>1. SdkInv => OneSdkSession
  BY DEF SdkInv, Holding, OneSdkSession
<1> QED
  BY <1>1, ControllerInvariant, PTL

(* dispose() and the initialisation it met leave no SDK session behind,      *)
(* unless one was created after it.                                          *)
THEOREM DisposalSound == Spec => []DisposalComplete
<1>1. SdkInv => DisposalComplete
  BY DEF SdkInv, Holding, Disposing, DisposalComplete
<1> QED
  BY <1>1, ControllerInvariant, PTL

(* A usable controller listens to its SDK session, and to no other. *)
THEOREM ListenerSound == Spec => []ListensToItsSession
<1>1. SdkInv => ListensToItsSession
  <2> SUFFICES ASSUME SdkInv, life = "usable", initPromise = None, result # None
               PROVE  result \in bound /\ kept = result
                        /\ {i \in subscribed : sdk[i] = "live"} = {result}
    BY DEF ListensToItsSession
  <2>1. \A k \in Calls : call[k].phase \notin {"binding", "cleaning"}
    BY ControllerAssumption DEF SdkInv, OneInitialises, InitPhases
  <2>2. result \in bound /\ result \in subscribed /\ kept = result
    BY <2>1 DEF SdkInv, Listening
  <2>3. Live = {result}
    BY DEF SdkInv, Holding
  <2>4. subscribed \subseteq Sdks
    BY DEF SdkInv, TypeOK
  <2> QED
    BY <2>2, <2>3, <2>4 DEF Live
<1> QED
  BY <1>1, ControllerInvariant, PTL

-------------------------------------------------------------------------------
(* Turns *)

(* What is announced of a prompt's turn, in each of its phases. *)
TurnInv ==
    \A k \in Calls :
        /\ call[k].phase = "running" /\ call[k].op = "prompt" => call[k].turn = "started"
        /\ call[k].phase = "free" /\ call[k].turn = "started" => life # "usable"

LEMMA TurnInit == Init => TurnInv
BY DEF Init, TurnInv

LEMMA TurnStep == TypeOK /\ TurnInv /\ [Next]_vars => TurnInv'
  <1> SUFFICES ASSUME TypeOK, TurnInv, [Next]_vars
               PROVE  TurnInv'
    OBVIOUS
  <1> DEFINE TurnOf(r, l) ==
        /\ r.phase = "running" /\ r.op = "prompt" => r.turn = "started"
        /\ r.phase = "free" /\ r.turn = "started" => l # "usable"
  <1>0. \A j \in Calls : TurnOf(call[j], life)
    BY DEF TurnInv
  <1>a. SUFFICES \A j \in Calls : TurnOf(call'[j], life')
    BY DEF TurnInv
  <1>1. ASSUME NEW k \in Calls, NEW r \in Call, call' = [call EXCEPT ![k] = r],
               UNCHANGED life, TurnOf(r, life)
        PROVE  \A j \in Calls : TurnOf(call'[j], life')
    BY <1>0, <1>1 DEF TypeOK
  <1>2. ASSUME NEW k \in Calls, NEW phase \in {"failed", "ready"}, Wake(k, phase), UNCHANGED life
        PROVE  \A j \in Calls : TurnOf(call'[j], life')
    <2> SUFFICES ASSUME NEW j \in Calls
                 PROVE  TurnOf(call'[j], life')
      OBVIOUS
    <2>1. CASE j = k \/ call[j].phase = "waiting"
      <3>1. call'[j].phase = phase
        BY <1>2, <2>1 DEF Wake, TypeOK, Call
      <3> QED
        BY <3>1
    <2>2. CASE ~(j = k \/ call[j].phase = "waiting")
      <3>1. call'[j] = call[j]
        BY <1>2, <2>2 DEF Wake
      <3> QED
        BY <1>0, <1>2, <3>1
    <2> QED
      BY <2>1, <2>2
  <1>3. ASSUME NEW k \in Calls, NEW phase \in InitPhases, NEW i \in Sdks \union {None},
               InitGoes(k, phase, i), UNCHANGED life
        PROVE  \A j \in Calls : TurnOf(call'[j], life')
    <2>1. [call[k] EXCEPT !.phase = phase, !.on = i] \in Call
      BY DEF TypeOK, Call
    <2>2. [call[k] EXCEPT !.phase = phase, !.on = i].phase = phase
      BY DEF TypeOK, Call
    <2> QED
      BY <1>1, <1>3, <2>1, <2>2 DEF InitGoes, InitPhases
  <1>4. ASSUME NEW k \in Calls, NEW turn \in {"none", "started", "completed", "failed"},
               NEW error \in BOOLEAN, Settle(k, turn, error), UNCHANGED life,
               turn = "started" => life # "usable"
        PROVE  \A j \in Calls : TurnOf(call'[j], life')
    <2> DEFINE r == [call[k] EXCEPT !.phase = "free", !.on = None, !.turn = turn, !.error = error]
    <2>1. r \in Call /\ r.phase = "free" /\ r.turn = turn
      BY DEF TypeOK, Call
    <2>2. call' = [call EXCEPT ![k] = r]
      BY <1>4 DEF Settle
    <2>3. TurnOf(r, life)
      BY <1>4, <2>1
    <2> HIDE DEF r
    <2> QED
      BY <1>1, <1>4, <2>1, <2>2, <2>3
  <1>5. ASSUME NEW k \in Calls, NEW op \in Ops, Submit(k, op)
        PROVE  \A j \in Calls : TurnOf(call'[j], life')
    <2> DEFINE r == [op |-> op, phase |-> EnsureInitialized, on |-> None, turn |-> "none",
                     error |-> FALSE]
    <2>1. r \in Call /\ r.phase \notin {"running", "free"}
      BY DEF Call, EnsureInitialized, InitPhases
    <2> QED
      BY <1>1, <1>5, <2>1 DEF Submit, LifeUnchanged
  <1>6. ASSUME NEW k \in Calls, Rejected(k)
        PROVE  \A j \in Calls : TurnOf(call'[j], life')
    BY <1>4, <1>6 DEF Rejected, LifeUnchanged
  <1>7. ASSUME NEW k \in Calls, Resume(k)
        PROVE  \A j \in Calls : TurnOf(call'[j], life')
    <2> DEFINE turn == IF call[k].op = "prompt" THEN "started" ELSE "none"
               last == IF call[k].op = "prompt" /\ HasSessionId THEN "failed" ELSE "none"
               r == [call[k] EXCEPT !.phase = "running", !.on = result, !.turn = turn]
    <2>0. UNCHANGED life
      BY <1>7 DEF Resume, LifeUnchanged
    <2>1. CASE call' = [call EXCEPT ![k] = r]
      <3>1. r \in Call /\ r.turn = turn /\ r.op = call[k].op /\ r.phase = "running"
        BY DEF TypeOK, Call
      <3>2. TurnOf(r, life)
        BY <3>1
      <3> HIDE DEF r
      <3> QED
        BY <1>1, <2>0, <2>1, <3>1, <3>2
    <2>2. CASE Settle(k, last, TRUE)
      <3>1. last \in {"none", "failed"}
        OBVIOUS
      <3> HIDE DEF last
      <3> QED
        BY <1>4, <2>0, <2>2, <3>1
    <2> QED
      BY <1>7, <2>1, <2>2 DEF Resume
  <1>8. ASSUME NEW k \in Calls, Settled(k)
        PROVE  \A j \in Calls : TurnOf(call'[j], life')
    <2>1. PICK error \in BOOLEAN :
            Settle(k, IF call[k].op # "prompt" THEN "none"
                      ELSE IF ~HasSessionId THEN call[k].turn
                      ELSE IF error THEN "failed" ELSE "completed",
                   error \/ (call[k].op = "prompt" /\ ~HasSessionId))
      BY <1>8 DEF Settled
    <2> DEFINE turn == IF call[k].op # "prompt" THEN "none"
                       ELSE IF ~HasSessionId THEN call[k].turn
                       ELSE IF error THEN "failed" ELSE "completed"
               err == error \/ (call[k].op = "prompt" /\ ~HasSessionId)
    <2>2. turn \in {"none", "started", "completed", "failed"} /\ err \in BOOLEAN
      BY DEF TypeOK, Call
    <2>3. turn = "started" => life # "usable"
      BY DEF HasSessionId
    <2>4. Settle(k, turn, err)
      BY <2>1
    <2>5. UNCHANGED life
      BY <1>8 DEF Settled, LifeUnchanged
    <2> HIDE DEF turn, err
    <2> QED
      BY <1>4, <2>2, <2>3, <2>4, <2>5
  <1>9. ASSUME NEW k \in Calls, Prepared(k)
        PROVE  \A j \in Calls : TurnOf(call'[j], life')
    BY <1>2, <1>3, <1>9 DEF Prepared, InitSettled, LifeUnchanged, InitPhases
  <1>10. ASSUME NEW k \in Calls, Created(k)
         PROVE  \A j \in Calls : TurnOf(call'[j], life')
    <2>1. UNCHANGED life
      BY <1>10 DEF Created, LifeUnchanged
    <2>2. InitSettled(k, "failed") \/ \E i \in Sdks : InitGoes(k, "binding", i)
      BY <1>10 DEF Created, Unborn
    <2> QED
      BY <1>2, <1>3, <2>1, <2>2 DEF InitSettled, InitPhases
  <1>11. ASSUME NEW k \in Calls, Bound(k)
         PROVE  \A j \in Calls : TurnOf(call'[j], life')
    <2>1. UNCHANGED life
      BY <1>11 DEF Bound, LifeUnchanged
    <2>2. call[k].on \in Sdks \union {None}
      BY DEF TypeOK, Call
    <2>3. InitSettled(k, "ready") \/ InitGoes(k, "cleaning", call[k].on)
      BY <1>11 DEF Bound
    <2> QED
      BY <1>2, <1>3, <2>1, <2>2, <2>3 DEF InitSettled, InitPhases
  <1>12. ASSUME NEW k \in Calls, Cleaned(k)
         PROVE  \A j \in Calls : TurnOf(call'[j], life')
    BY <1>2, <1>12 DEF Cleaned, InitSettled, LifeUnchanged
  <1>13. CASE Dispose \/ Disposed
    <2>1. life' # "usable" /\ UNCHANGED call
      BY <1>13 DEF Dispose, Disposed
    <2> QED
      BY <1>0, <2>1
  <1>14. CASE UNCHANGED vars
    BY <1>0, <1>14 DEF vars
  <1> HIDE DEF TurnOf
  <1> QED
    BY <1>5, <1>6, <1>7, <1>8, <1>9, <1>10, <1>11, <1>12, <1>13, <1>14 DEF Next, Progress

(* Every announced turn of a prompt ends, when the prompt settles, with      *)
(* turn_completed or turn_failed, unless dispose() got under it.             *)
THEOREM TurnsEnd == Spec => []StartedTurnsEnd
<1>1. TypeOK /\ TurnInv /\ [Next]_vars => TurnInv'
  BY TurnStep
<1>2. TurnInv => StartedTurnsEnd
  BY DEF TurnInv, StartedTurnsEnd
<1> QED
  BY TypeCorrect, TurnInit, <1>1, <1>2, PTL DEF Spec

-------------------------------------------------------------------------------
(* What makes a session busy *)

(* Who waits, and the one compaction there is. *)
BusyInv ==
    /\ \A k \in Calls : call[k].phase = "waiting" => initPromise # None
    /\ \A k \in Calls : call[k].op = "compact" /\ call[k].phase # "free" =>
          compacting /\ \A j \in Calls : call[j].op = "compact" /\ call[j].phase # "free" => j = k
    /\ compacting => \E k \in Calls : call[k].op = "compact" /\ call[k].phase # "free"

(* An operation that settles ends its compaction, and no other's. *)
LEMMA SettleBusy ==
    ASSUME TypeOK, BusyInv, NEW k \in Calls, call[k].phase # "free", NEW turn, NEW error,
           Settle(k, turn, error), UNCHANGED initPromise
    PROVE  BusyInv'
  <1>1. /\ call'[k].phase = "free" /\ call'[k].op = call[k].op
        /\ \A j \in Calls : j # k => call'[j] = call[j]
    BY DEF Settle, TypeOK, Call
  <1>2. compacting' = (compacting /\ call[k].op # "compact")
    BY DEF Settle
  <1> QED
    BY <1>1, <1>2 DEF BusyInv

(* An operation that goes on stays in flight. *)
LEMMA GoesBusy ==
    ASSUME TypeOK, BusyInv,
           \A j \in Calls : /\ call'[j].op = call[j].op
                            /\ call'[j].phase = "free" <=> call[j].phase = "free"
                            /\ call'[j].phase = "waiting" =>
                                  call[j].phase = "waiting" /\ initPromise' # None,
           UNCHANGED compacting
    PROVE  BusyInv'
BY DEF BusyInv

LEMMA WakeBusy ==
    ASSUME TypeOK, BusyInv, NEW k \in Calls, call[k].phase \in InitPhases,
           NEW phase \in {"failed", "ready"}, InitSettled(k, phase), UNCHANGED compacting
    PROVE  BusyInv'
  <1>1. ASSUME NEW j \in Calls
        PROVE  /\ call'[j].op = call[j].op
               /\ call'[j].phase = "free" <=> call[j].phase = "free"
               /\ call'[j].phase # "waiting"
    <2>1. CASE j = k \/ call[j].phase = "waiting"
      <3>1. call'[j].phase = phase /\ call'[j].op = call[j].op
        BY <2>1 DEF InitSettled, Wake, TypeOK, Call
      <3> QED
        BY <2>1, <3>1 DEF InitPhases
    <2>2. CASE ~(j = k \/ call[j].phase = "waiting")
      BY <2>2 DEF InitSettled, Wake
    <2> QED
      BY <2>1, <2>2
  <1> QED
    BY <1>1, GoesBusy

LEMMA InitGoesBusy ==
    ASSUME TypeOK, BusyInv, NEW k \in Calls, call[k].phase \in InitPhases,
           NEW phase \in InitPhases, NEW i, InitGoes(k, phase, i), UNCHANGED compacting
    PROVE  BusyInv'
  <1>1. /\ call'[k].phase = phase /\ call'[k].op = call[k].op
        /\ \A j \in Calls : j # k => call'[j] = call[j]
        /\ initPromise' = initPromise
    BY DEF InitGoes, TypeOK, Call
  <1> QED
    BY <1>1, GoesBusy DEF InitPhases, BusyInv

LEMMA BusyStep ==
    ASSUME TypeOK, BusyInv, [Next]_vars
    PROVE  BusyInv'
  <1>1. ASSUME NEW k \in Calls, NEW op \in Ops, Submit(k, op)
        PROVE  BusyInv'
    <2>1. /\ call'[k].phase = EnsureInitialized /\ call'[k].op = op
          /\ \A j \in Calls : j # k => call'[j] = call[j]
          /\ call[k].phase = "free"
      BY <1>1 DEF Submit, TypeOK
    <2>2. EnsureInitialized # "free" /\ (EnsureInitialized = "waiting" => initPromise # None)
      BY DEF EnsureInitialized
    <2>3. /\ compacting' = (compacting \/ op = "compact")
          /\ op = "compact" => ~compacting
          /\ initPromise # None => initPromise' = initPromise
          /\ initPromise' = IF EnsureInitialized = "preparing" THEN k ELSE initPromise
      BY <1>1 DEF Submit, Busy, EnsureInitialized
    <2> QED
      BY <2>1, <2>2, <2>3 DEF BusyInv
  <1>2. ASSUME NEW k \in Calls, Rejected(k)
        PROVE  BusyInv'
    BY <1>2, SettleBusy DEF Rejected
  <1>3. ASSUME NEW k \in Calls, Settled(k)
        PROVE  BusyInv'
    BY <1>3, SettleBusy, Zenon DEF Settled
  <1>4. ASSUME NEW k \in Calls, Resume(k)
        PROVE  BusyInv'
    <2>0. call[k].phase = "ready" /\ UNCHANGED initPromise
      BY <1>4 DEF Resume
    <2>1. CASE Usable
      <3>1. /\ call' = [call EXCEPT ![k] =
                          [@ EXCEPT !.phase = "running", !.on = result,
                                    !.turn = IF call[k].op = "prompt" THEN "started" ELSE "none"]]
            /\ UNCHANGED compacting
        BY <1>4, <2>1 DEF Resume
      <3>2. /\ call'[k].phase = "running" /\ call'[k].op = call[k].op
            /\ \A j \in Calls : j # k => call'[j] = call[j]
        BY <3>1 DEF TypeOK, Call
      <3> QED
        BY <2>0, <3>1, <3>2, GoesBusy DEF BusyInv
    <2>2. CASE ~Usable
      <3>1. \E turn, error : Settle(k, turn, error)
        BY <1>4, <2>2, Zenon DEF Resume
      <3> QED
        BY <2>0, <3>1, SettleBusy
    <2> QED
      BY <2>1, <2>2
  <1>5. ASSUME NEW k \in Calls, Prepared(k) \/ Created(k) \/ Bound(k) \/ Cleaned(k)
        PROVE  BusyInv'
    <2>1. call[k].phase \in InitPhases /\ UNCHANGED compacting
      BY <1>5 DEF Prepared, Created, Bound, Cleaned, InitPhases
    <2>2. \/ InitSettled(k, "failed") \/ InitSettled(k, "ready")
          \/ \E phase \in {"creating", "binding", "cleaning"} : \E i : InitGoes(k, phase, i)
      BY <1>5 DEF Prepared, Created, Bound, Cleaned
    <2> QED
      BY <2>1, <2>2, WakeBusy, InitGoesBusy DEF InitPhases
  <1>6. ASSUME UNCHANGED <<call, initPromise, compacting>>
        PROVE  BusyInv'
    BY <1>6 DEF BusyInv
  <1> QED
    BY <1>1, <1>2, <1>3, <1>4, <1>5, <1>6 DEF Next, Progress, Dispose, Disposed, vars

(* Nobody waits for an initialisation that no operation runs, and no flag of  *)
(* a busy session outlives the operation that set it, however many operations *)
(* share, fail or are disposed of.                                            *)
THEOREM BusyEndsWithOperations == Spec => []BusyWithOperations
<1>1. Init => BusyInv
  BY DEF Init, BusyInv
<1>2. TypeOK /\ BusyInv /\ [Next]_vars => BusyInv'
  BY BusyStep
<1>3. SdkInv /\ BusyInv => BusyWithOperations
  BY DEF SdkInv, TypeOK, OneInitialises, BusyInv, BusyWithOperations
<1> QED
  BY <1>1, <1>2, <1>3, TypeCorrect, ControllerInvariant, PTL DEF Spec
===============================================================================
