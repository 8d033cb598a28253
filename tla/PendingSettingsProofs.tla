------------------------- MODULE PendingSettingsProofs -------------------------
(***************************************************************************)
(* Proofs about PendingSettings, for any number of choices and of replies: *)
(* no choice is lost, and one that waits is never replaced by an older.    *)
(***************************************************************************)
EXTENDS PendingSettings, TLAPS

(* A call the user waits for has no deferred level, a model that was changed  *)
(* by a call was in force, and no call is for a choice yet to be made.         *)
CallsSound ==
    \A call \in calls : /\ call.by = "user" => call.level = None
                        /\ call.changed => call.model \in applied
                        /\ call.model <= chosen
                        /\ call.level # None => call.level <= chosen

(* No setting is newer than the newest choice. *)
PendingChosen == \A s \in Settings : pending[s] # None => pending[s] <= chosen

SettingsInv == TypeOK /\ CallsSound /\ PendingChosen /\ ChoiceNeverLost

Pendings == [model : Choices \union {None}, level : Choices \union {None}]

(* InHand, in the next state *)
InHandNext(s, c) ==
    \/ pending'[s] = c
    \/ \E call \in calls' : call[s] = c

LEMMA NoneIsNoChoice == None \notin Choices \union {0}
BY SettingsAssumption DEF Choices

LEMMA SettingsInitially == Init => SettingsInv
  <1> SUFFICES ASSUME Init PROVE SettingsInv
    OBVIOUS
  <1> USE SettingsAssumption DEF Init, Of, Nothing, Choices
  <1>1. TypeOK
    BY DEF TypeOK, ModelState
  <1>2. CallsSound /\ PendingChosen /\ ChoiceNeverLost
    BY DEF CallsSound, PendingChosen, ChoiceNeverLost, Settings
  <1> QED
    BY <1>1, <1>2 DEF SettingsInv

LEMMA ModelStateType ==
    ASSUME force' \in [model : Choices \union {0}, level : Choices \union {0}],
           pending' \in Pendings
    PROVE  ModelStateNow \in ModelState
BY DEF ModelStateNow, ModelState, Pendings, Or

(* What becomes of a deferred level: it is in force, waits, or was reported,  *)
(* and a newer one that waits is left alone.                                  *)
LEMMA LevelIsKept ==
    ASSUME SettingsInv, NEW c \in Choices \union {None}, NEW left \in Pendings,
           NEW failed \in Choices \union {None}, ApplyLevel(c, left, failed)
    PROVE  /\ force' \in [model : Choices \union {0}, level : Choices \union {0}]
           /\ pending' \in Pendings
           /\ applied' \subseteq Choices /\ reported' \subseteq Choices
           /\ applied \subseteq applied' /\ reported \subseteq reported'
           /\ failed # None => failed \in reported'
           /\ pending'.model = left.model
           /\ left.level # None => pending'.level = left.level
           /\ left.level = None => pending'.level \in {None, c}
           /\ c # None => c \in applied' \union reported' \/ pending'.level = c
  <1> USE DEF ApplyLevel, SetLevel, Report, Pendings, SettingsInv, TypeOK
  <1>1. CASE c = None
    BY <1>1
  <1>2. CASE c # None /\ SetLevel(c) /\ pending' = left
               /\ \E error \in {None, c} : reported' = reported \union ({failed, error} \ {None})
    BY <1>2
  <1>3. CASE /\ c # None
             /\ pending' = IF left.level = None THEN [left EXCEPT !.level = c] ELSE left
             /\ reported' = reported \union ({failed, c} \ {None})
             /\ UNCHANGED <<force, applied>>
    BY <1>3
  <1> QED
    BY <1>1, <1>2, <1>3

(* Whoever had a choice in hand has it still, or it was in force or reported. *)
LEMMA NothingIsLost ==
    ASSUME SettingsInv, applied \subseteq applied', reported \subseteq reported',
           UNCHANGED latest,
           \A s \in Settings : \A c \in Choices :
               InHand(s, c) => InHandNext(s, c) \/ c \in applied' \union reported'
    PROVE  ChoiceNeverLost'
  <1> SUFFICES ASSUME NEW s \in Settings
               PROVE  \/ latest[s] \in {0} \union applied' \union reported'
                      \/ InHandNext(s, latest[s])
    BY DEF ChoiceNeverLost, InHand, InHandNext
  <1>1. latest[s] \in Choices \union {0}
    BY DEF SettingsInv, TypeOK, Settings
  <1> QED
    BY <1>1 DEF SettingsInv, ChoiceNeverLost

LEMMA ApplyPendingKeeps ==
    ASSUME SettingsInv, ApplyPendingIfIdle, streaming' \in BOOLEAN, queued' \in BOOLEAN,
           poke' \in BOOLEAN, UNCHANGED <<chosen, latest, browser>>
    PROVE  SettingsInv'
  <1>0. pending \in Pendings /\ Nothing \in Pendings /\ Nothing.model = None
          /\ Nothing.level = None
    BY DEF SettingsInv, TypeOK, Pendings, Nothing, Of
  <1>1. CASE UNCHANGED <<pending, force, calls, applied, reported>>
    BY <1>1 DEF SettingsInv, TypeOK, CallsSound, PendingChosen, ChoiceNeverLost, InHand, browser
  <1>2. ASSUME NEW new \in [by : {"turn"}, model : {pending.model}, level : {pending.level},
                            changed : {FALSE}],
               pending.model # None, pending' = Nothing, calls' = calls \union {new},
               UNCHANGED <<force, applied, reported>>
        PROVE  SettingsInv'
    <2>0. pending.model \in Choices /\ pending.level \in Choices \union {None}
      BY <1>0, <1>2 DEF Pendings
    <2>1. TypeOK'
      BY <1>0, <1>2, <2>0 DEF SettingsInv, TypeOK, Pendings, browser
    <2>2. CallsSound' /\ PendingChosen'
      <3>1. CallsSound'
        <4>1. /\ new.by = "turn" /\ new.changed = FALSE
              /\ new.model = pending.model /\ new.level = pending.level
          OBVIOUS
        <4>2. /\ pending.model <= chosen
              /\ pending.level # None => pending.level <= chosen
          BY <1>2 DEF SettingsInv, PendingChosen, Settings
        <4> QED
          BY <1>2, <4>1, <4>2 DEF SettingsInv, CallsSound
      <3>2. PendingChosen'
        BY <1>0, <1>2 DEF PendingChosen, Settings
      <3> QED
        BY <3>1, <3>2
    <2>3. ASSUME NEW s \in Settings, NEW c \in Choices, InHand(s, c)
          PROVE  InHandNext(s, c)
      <3>1. new \in calls' /\ calls \subseteq calls'
        BY <1>2
      <3>2. new.model = pending.model /\ new.level = pending.level
        OBVIOUS
      <3>3. CASE s = "model"
        BY <2>3, <3>1, <3>2, <3>3 DEF InHand, InHandNext
      <3>4. CASE s = "level"
        BY <2>3, <3>1, <3>2, <3>4 DEF InHand, InHandNext
      <3> QED
        BY <3>3, <3>4 DEF Settings
    <2> QED
      BY <1>2, <2>1, <2>2, <2>3, NothingIsLost DEF SettingsInv
  <1>3. CASE pending.model = None /\ ApplyLevel(pending.level, Nothing, None) /\ UNCHANGED calls
    <2>1. /\ force' \in [model : Choices \union {0}, level : Choices \union {0}]
          /\ pending' \in Pendings
          /\ applied' \subseteq Choices /\ reported' \subseteq Choices
          /\ applied \subseteq applied' /\ reported \subseteq reported'
          /\ pending'.model = None /\ pending'.level \in {None, pending.level}
          /\ pending.level # None =>
                pending.level \in applied' \union reported' \/ pending'.level = pending.level
      <3>1. pending.level \in Choices \union {None}
        BY <1>0 DEF Pendings
      <3> QED
        BY <1>0, <1>3, <3>1, LevelIsKept
    <2>2. TypeOK'
      BY <1>3, <2>1 DEF SettingsInv, TypeOK, Pendings, browser
    <2>3. CallsSound' /\ PendingChosen'
      <3>1. CallsSound'
        BY <1>3, <2>1 DEF SettingsInv, CallsSound
      <3>2. PendingChosen'
        BY <2>1 DEF SettingsInv, PendingChosen, Settings
      <3> QED
        BY <3>1, <3>2
    <2>4. ASSUME NEW s \in Settings, NEW c \in Choices, InHand(s, c)
          PROVE  InHandNext(s, c) \/ c \in applied' \union reported'
      <3>1. CASE s = "model"
        BY <1>3, <2>4, <3>1, NoneIsNoChoice DEF InHand, InHandNext
      <3>2. CASE s = "level"
        BY <1>3, <2>1, <2>4, <3>2, NoneIsNoChoice DEF InHand, InHandNext
      <3> QED
        BY <3>1, <3>2 DEF Settings
    <2> QED
      BY <2>1, <2>2, <2>3, <2>4, NothingIsLost DEF SettingsInv
  <1>4. CASE /\ pending.model # None
             /\ pending' = Nothing
             /\ calls' = calls \union {[by |-> "turn", model |-> pending.model,
                                        level |-> pending.level, changed |-> FALSE]}
             /\ UNCHANGED <<force, applied, reported>>
    BY <1>2, <1>4
  <1> QED
    BY <1>1, <1>3, <1>4 DEF ApplyPendingIfIdle

(* A new choice is in somebody's hand, in force or reported. *)
LEMMA ChooseKeeps ==
    ASSUME SettingsInv, NEW s \in Settings, Choose(s),
           applied \subseteq applied', reported \subseteq reported',
           \A t \in Settings \ {s} : \A c \in Choices : InHand(t, c) => InHandNext(t, c),
           chosen' \in applied' \union reported' \/ InHandNext(s, chosen')
    PROVE  ChoiceNeverLost'
  <1>1. latest'[s] = chosen' /\ \A t \in Settings \ {s} : latest'[t] = latest[t]
    BY DEF Choose, SettingsInv, TypeOK, Settings
  <1> SUFFICES ASSUME NEW t \in Settings
               PROVE  \/ latest'[t] \in {0} \union applied' \union reported'
                      \/ InHandNext(t, latest'[t])
    BY DEF ChoiceNeverLost, InHand, InHandNext
  <1>2. latest[t] \in Choices \union {0}
    BY DEF SettingsInv, TypeOK, Settings
  <1>3. CASE t = s
    BY <1>1, <1>3
  <1>4. CASE t # s
    <2>1. latest'[t] = latest[t]
      BY <1>1, <1>4
    <2>2. latest[t] \in {0} \union applied \union reported \/ InHand(t, latest[t])
      BY DEF SettingsInv, ChoiceNeverLost
    <2> QED
      BY <1>2, <1>4, <2>1, <2>2
  <1> QED
    BY <1>3, <1>4

LEMMA ChooseLaterKeeps ==
    ASSUME SettingsInv, NEW s \in Settings, ChooseLater(s)
    PROVE  SettingsInv'
  <1> USE SettingsAssumption DEF ChooseLater
  <1>0. /\ chosen \in Nat /\ chosen' = chosen + 1 /\ chosen' \in Choices
        /\ latest' \in [model : Choices \union {0}, level : Choices \union {0}]
        /\ UNCHANGED <<streaming, queued, shown, asking, force, calls, applied, reported, poke>>
    BY DEF Choose, SettingsInv, TypeOK, Choices, Settings, session
  <1>1. /\ pending' \in Pendings /\ pending'[s] = chosen'
        /\ \A t \in Settings \ {s} : pending'[t] = pending[t]
    BY <1>0 DEF SettingsInv, TypeOK, Settings, Pendings
  <1>2. TypeOK'
    <2>1. replies' \subseteq ModelState
      BY <1>0, <1>1, ModelStateType DEF SettingsInv, TypeOK, Reply
    <2> QED
      BY <1>0, <1>1, <2>1 DEF SettingsInv, TypeOK, Pendings
  <1>3. CallsSound'
    BY <1>0 DEF SettingsInv, TypeOK, CallsSound, Choices
  <1>4. PendingChosen'
    <2> SUFFICES ASSUME NEW t \in Settings, pending'[t] # None
                 PROVE  pending'[t] <= chosen'
      BY DEF PendingChosen
    <2>1. CASE t = s
      BY <1>0, <1>1, <2>1
    <2>2. CASE t # s
      <3>1. pending'[t] = pending[t]
        BY <1>1, <2>2
      <3>2. pending[t] \in Nat /\ pending[t] <= chosen
        BY <3>1 DEF SettingsInv, TypeOK, PendingChosen, Settings, Choices
      <3> QED
        BY <1>0, <3>1, <3>2
    <2> QED
      BY <2>1, <2>2
  <1>5. ChoiceNeverLost'
    BY <1>0, <1>1, ChooseKeeps DEF InHand, InHandNext
  <1> QED
    BY <1>2, <1>3, <1>4, <1>5 DEF SettingsInv

LEMMA ChooseModelKeeps ==
    ASSUME SettingsInv, ChooseModel
    PROVE  SettingsInv'
  <1> USE SettingsAssumption DEF ChooseModel
  <1>0. /\ chosen \in Nat /\ chosen' = chosen + 1 /\ chosen' \in Choices
        /\ latest' \in [model : Choices \union {0}, level : Choices \union {0}]
        /\ UNCHANGED <<streaming, queued, shown, asking, force, pending, applied, reported, poke,
                       replies>>
    BY DEF Choose, SettingsInv, TypeOK, Choices, session
  <1>1. PICK new \in [by : {"user"}, model : {chosen'}, level : {None}, changed : {FALSE}] :
            calls' = calls \union {new}
    OBVIOUS
  <1>2. TypeOK'
    BY <1>0, <1>1 DEF SettingsInv, TypeOK
  <1>3. CallsSound' /\ PendingChosen'
    <2>1. CallsSound'
      BY <1>0, <1>1 DEF SettingsInv, TypeOK, CallsSound, Choices
    <2>2. PendingChosen'
      BY <1>0 DEF SettingsInv, TypeOK, PendingChosen, Settings, Choices
    <2> QED
      BY <2>1, <2>2
  <1>4. ChoiceNeverLost'
    <2>1. InHandNext("model", chosen')
      BY <1>1 DEF InHandNext
    <2>2. \A t \in Settings \ {"model"} : \A c \in Choices :
              InHand(t, c) => InHandNext(t, c)
      BY <1>0, <1>1 DEF InHand, InHandNext
    <2> QED
      BY <1>0, <2>1, <2>2, ChooseKeeps DEF Settings
  <1> QED
    BY <1>2, <1>3, <1>4 DEF SettingsInv

LEMMA ChooseLevelKeeps ==
    ASSUME SettingsInv, ChooseLevel
    PROVE  SettingsInv'
  <1> USE SettingsAssumption
  <1>0. /\ chosen \in Nat /\ chosen' = chosen + 1 /\ chosen' \in Choices
        /\ latest' \in [model : Choices \union {0}, level : Choices \union {0}]
        /\ Choose("level")
        /\ UNCHANGED <<streaming, queued, shown, asking, pending, calls>>
    BY DEF ChooseLevel, Choose, SettingsInv, TypeOK, Choices, session
  <1>1. chosen' # None
    BY <1>0, NoneIsNoChoice
  <1>2. /\ force' \in [model : Choices \union {0}, level : Choices \union {0}]
        /\ applied' \subseteq Choices /\ reported' \subseteq Choices
        /\ applied \subseteq applied' /\ reported \subseteq reported'
        /\ chosen' \in applied' \union reported'
        /\ poke' \in BOOLEAN
    BY <1>0, <1>1 DEF ChooseLevel, SetLevel, SendStatus, Report, SettingsInv, TypeOK
  <1>3. TypeOK'
    <2>1. pending' \in Pendings
      BY <1>0 DEF SettingsInv, TypeOK, Pendings
    <2>2. replies' \subseteq ModelState
      BY <1>2, <2>1, ModelStateType DEF ChooseLevel, SettingsInv, TypeOK, Reply
    <2> QED
      BY <1>0, <1>2, <2>1, <2>2 DEF SettingsInv, TypeOK, Pendings
  <1>4. CallsSound' /\ PendingChosen'
    <2>1. CallsSound'
      BY <1>0, <1>2 DEF SettingsInv, TypeOK, CallsSound, Choices
    <2>2. PendingChosen'
      BY <1>0 DEF SettingsInv, TypeOK, PendingChosen, Settings, Choices
    <2> QED
      BY <2>1, <2>2
  <1>5. ChoiceNeverLost'
    BY <1>0, <1>2, ChooseKeeps DEF InHand, InHandNext, Settings
  <1> QED
    BY <1>3, <1>4, <1>5 DEF SettingsInv

LEMMA ModelChangesKeeps ==
    ASSUME SettingsInv, NEW call \in calls, ModelChanges(call)
    PROVE  SettingsInv'
  <1>0. /\ UNCHANGED <<streaming, queued, pending, chosen, latest, reported, shown, asking,
                       replies, poke>>
        /\ applied' = applied \union {call.model}
        /\ call.model \in Choices
        /\ force' \in [model : Choices \union {0}, level : Choices \union {0}]
    BY DEF ModelChanges, SettingsInv, TypeOK, session, browser
  <1>1. PICK new \in [by : {call.by}, model : {call.model}, level : {call.level},
                      changed : {TRUE}] :
            calls' = (calls \ {call}) \union {new}
    BY DEF ModelChanges, SettingsInv, TypeOK
  <1>2. TypeOK'
    BY <1>0, <1>1 DEF SettingsInv, TypeOK
  <1>3. CallsSound' /\ PendingChosen'
    <2>1. CallsSound'
      BY <1>0, <1>1 DEF SettingsInv, CallsSound
    <2>2. PendingChosen'
      BY <1>0 DEF SettingsInv, PendingChosen
    <2> QED
      BY <2>1, <2>2
  <1>4. ASSUME NEW s \in Settings, NEW c \in Choices, InHand(s, c)
        PROVE  InHandNext(s, c)
    <2>1. new \in calls' /\ new.model = call.model /\ new.level = call.level
      BY <1>1
    <2>2. \A k \in calls : k = call \/ k \in calls'
      BY <1>1
    <2>3. CASE s = "model"
      BY <1>0, <1>4, <2>1, <2>2, <2>3 DEF InHand, InHandNext
    <2>4. CASE s = "level"
      BY <1>0, <1>4, <2>1, <2>2, <2>4 DEF InHand, InHandNext
    <2> QED
      BY <2>3, <2>4 DEF Settings
  <1> QED
    BY <1>0, <1>2, <1>3, <1>4, NothingIsLost DEF SettingsInv

LEMMA ChoiceSettlesKeeps ==
    ASSUME SettingsInv, NEW call \in calls, NEW error \in BOOLEAN, ChoiceSettles(call, error)
    PROVE  SettingsInv'
  <1>0. /\ UNCHANGED <<streaming, queued, force, pending, chosen, latest, applied, shown, asking,
                       poke>>
        /\ calls' = calls \ {call}
        /\ call.model \in Choices /\ call.level = None
        /\ call.model \in applied \/ error
    BY DEF ChoiceSettles, SettingsInv, TypeOK, CallsSound, session
  <1>1. /\ reported' \subseteq Choices /\ reported \subseteq reported'
        /\ call.model \in applied \union reported'
    BY <1>0, NoneIsNoChoice DEF ChoiceSettles, Report, SettingsInv, TypeOK
  <1>2. TypeOK'
    <2>1. replies' \subseteq ModelState
      <3>1. pending' \in Pendings
        BY <1>0 DEF SettingsInv, TypeOK, Pendings
      <3>2. force' \in [model : Choices \union {0}, level : Choices \union {0}]
        BY <1>0 DEF SettingsInv, TypeOK
      <3> QED
        BY <3>1, <3>2, ModelStateType DEF ChoiceSettles, Reply, SettingsInv, TypeOK
    <2> QED
      BY <1>0, <1>1, <2>1 DEF SettingsInv, TypeOK
  <1>3. CallsSound' /\ PendingChosen'
    BY <1>0 DEF SettingsInv, CallsSound, PendingChosen
  <1>4. ASSUME NEW s \in Settings, NEW c \in Choices, InHand(s, c)
        PROVE  InHandNext(s, c) \/ c \in applied' \union reported'
    <2>1. CASE s = "model"
      BY <1>0, <1>1, <1>4, <2>1 DEF InHand, InHandNext
    <2>2. CASE s = "level"
      BY <1>0, <1>4, <2>2, NoneIsNoChoice DEF InHand, InHandNext
    <2> QED
      BY <2>1, <2>2 DEF Settings
  <1> QED
    BY <1>0, <1>1, <1>2, <1>3, <1>4, NothingIsLost DEF SettingsInv

(* What a deferred call leaves waiting, before its deferred level is set: a   *)
(* choice of the model that waits already stays.                               *)
LEMMA PutBackType ==
    ASSUME SettingsInv, NEW call \in calls
    PROVE  /\ PutBack(call) \in Pendings
           /\ PutBack(call).level = pending.level
           /\ pending.model # None => PutBack(call).model = pending.model
           /\ PutBack(call).model \in {pending.model, call.model}
  <1>1. pending \in Pendings /\ call.model \in Choices
    BY DEF SettingsInv, TypeOK, Pendings
  <1> QED
    BY <1>1 DEF PutBack, Pendings

LEMMA DeferredSettlesTakes ==
    ASSUME SettingsInv, NEW call \in calls, NEW error \in BOOLEAN, DeferredSettles(call, error)
    PROVE  /\ force' \in [model : Choices \union {0}, level : Choices \union {0}]
           /\ pending' \in Pendings
           /\ applied' \subseteq Choices /\ reported' \subseteq Choices
           /\ applied \subseteq applied' /\ reported \subseteq reported'
           /\ call.model \in applied' \union reported'
           /\ pending.model # None => pending'.model = pending.model
           /\ pending'.model \in {pending.model, call.model}
           /\ pending.level # None => pending'.level = pending.level
           /\ pending'.level \in {pending.level, call.level}
           /\ call.level # None =>
                 call.level \in applied' \union reported' \/ pending'.level = call.level
  <1>0. /\ pending \in Pendings /\ call.model \in Choices
        /\ call.level \in Choices \union {None}
        /\ call.model \in applied \/ error
    BY DEF DeferredSettles, SettingsInv, TypeOK, CallsSound, Pendings
  <1>1. CASE error
    <2>1. /\ ApplyLevel(call.level, PutBack(call), call.model)
          /\ call.model \in Choices \union {None} /\ call.model # None
      BY <1>0, <1>1, NoneIsNoChoice DEF DeferredSettles
    <2> QED
      BY <1>0, <2>1, PutBackType, LevelIsKept
  <1>2. CASE ~error
    <2>1. ApplyLevel(call.level, pending, None)
      BY <1>2 DEF DeferredSettles
    <2> QED
      BY <1>0, <1>2, <2>1, LevelIsKept
  <1> QED
    BY <1>1, <1>2

LEMMA DeferredSettlesKeeps ==
    ASSUME SettingsInv, NEW call \in calls, NEW error \in BOOLEAN, DeferredSettles(call, error)
    PROVE  SettingsInv'
  <1>0. /\ UNCHANGED <<streaming, queued, chosen, latest, shown, asking, replies>>
        /\ calls' = calls \ {call}
        /\ poke' \in BOOLEAN
    BY DEF DeferredSettles, SendStatus, SettingsInv, TypeOK, session, browser
  <1>1. TypeOK'
    BY <1>0, DeferredSettlesTakes DEF SettingsInv, TypeOK, Pendings
  <1>2. CallsSound'
    BY <1>0, DeferredSettlesTakes DEF SettingsInv, CallsSound
  <1>3. PendingChosen'
    BY <1>0, DeferredSettlesTakes DEF SettingsInv, PendingChosen, CallsSound, Settings
  <1>4. ASSUME NEW s \in Settings, NEW c \in Choices, InHand(s, c)
        PROVE  InHandNext(s, c) \/ c \in applied' \union reported'
    <2>1. CASE s = "model"
      BY <1>0, <1>4, <2>1, NoneIsNoChoice, DeferredSettlesTakes DEF InHand, InHandNext
    <2>2. CASE s = "level"
      BY <1>0, <1>4, <2>2, NoneIsNoChoice, DeferredSettlesTakes DEF InHand, InHandNext
    <2> QED
      BY <2>1, <2>2 DEF Settings
  <1> QED
    BY <1>0, <1>1, <1>2, <1>3, <1>4, DeferredSettlesTakes, NothingIsLost DEF SettingsInv

(* The SDK's own steps, and the browser's, keep what they do not touch. *)
LEMMA RestKeeps ==
    ASSUME SettingsInv, AgentStart \/ Enqueue \/ Arrivals \/ UNCHANGED vars
    PROVE  SettingsInv' /\ UNCHANGED pending
  <1>1. /\ UNCHANGED <<force, pending, calls, chosen, latest, applied, reported>>
        /\ streaming' \in BOOLEAN /\ queued' \in BOOLEAN
        /\ poke' \in BOOLEAN /\ asking' \in BOOLEAN
    BY DEF AgentStart, Enqueue, Arrivals, StatusArrives, ModelsRead, ReplyArrives, vars, session,
       history, browser, SettingsInv, TypeOK, ModelState
  <1>2. shown' \in ModelState /\ replies' \subseteq ModelState
    <2>1. CASE AgentStart \/ Enqueue \/ StatusArrives \/ UNCHANGED vars
      BY <2>1 DEF AgentStart, Enqueue, StatusArrives, vars, browser, SettingsInv, TypeOK
    <2>2. CASE ModelsRead
      <3>1. ModelStateNow \in ModelState
        BY <1>1, ModelStateType DEF SettingsInv, TypeOK, Pendings
      <3> QED
        BY <2>2, <3>1 DEF ModelsRead, Reply, SettingsInv, TypeOK
    <2>3. CASE \E state \in replies : ReplyArrives(state)
      BY <2>3 DEF ReplyArrives, SettingsInv, TypeOK
    <2> QED
      BY <2>1, <2>2, <2>3 DEF Arrivals
  <1> QED
    BY <1>1, <1>2 DEF SettingsInv, TypeOK, CallsSound, PendingChosen, ChoiceNeverLost, InHand

LEMMA DrainsKeep ==
    ASSUME SettingsInv, Drained \/ AgentEnd
    PROVE  SettingsInv'
  <1>1. /\ streaming' \in BOOLEAN /\ queued' \in BOOLEAN /\ poke' \in BOOLEAN
        /\ ApplyPendingIfIdle /\ UNCHANGED <<chosen, latest, browser>>
    BY DEF Drained, AgentEnd, SendStatus, SettingsInv, TypeOK
  <1> QED
    BY <1>1, ApplyPendingKeeps

LEMMA SettingsKept ==
    ASSUME SettingsInv, [Next]_vars
    PROVE  SettingsInv'
  <1>1. CASE AgentStart \/ Enqueue \/ Arrivals \/ UNCHANGED vars
    BY <1>1, RestKeeps
  <1>2. CASE Drained \/ AgentEnd
    BY <1>2, DrainsKeep
  <1>3. CASE \E s \in Settings : ChooseLater(s)
    BY <1>3, ChooseLaterKeeps
  <1>4. CASE ChooseModel \/ ChooseLevel
    BY <1>4, ChooseModelKeeps, ChooseLevelKeeps
  <1>5. CASE \E c \in Choices : SdkSettles(c)
    BY <1>5, ModelChangesKeeps, ChoiceSettlesKeeps, DeferredSettlesKeeps DEF SdkSettles
  <1> QED
    BY <1>1, <1>2, <1>3, <1>4, <1>5 DEF Next, Settings

LEMMA SettingsAlways == Spec => []SettingsInv
  <1>1. SettingsInv /\ [Next]_vars => SettingsInv'
    BY SettingsKept
  <1> QED
    BY SettingsInitially, <1>1, PTL DEF Spec

(* No choice of a model or a level is lost, whatever turns, failures and      *)
(* other choices happen while the deferred ones are being applied             *)
(* (applyPendingSettingsIfIdle).                                              *)
THEOREM ChoicesKept == Spec => []ChoiceNeverLost
BY SettingsAlways, PTL DEF SettingsInv

(* What waits is as new as before, in every step. *)
LEMMA NewerStands ==
    ASSUME SettingsInv, [Next]_vars, NEW s \in Settings, pending[s] # None, pending'[s] # None
    PROVE  pending'[s] >= pending[s]
  <1>0. pending[s] \in Nat /\ pending[s] <= chosen /\ chosen \in Nat
    BY SettingsAssumption DEF SettingsInv, TypeOK, PendingChosen, Settings, Choices
  <1> SUFFICES pending'[s] = pending[s] \/ pending'[s] = chosen + 1
    BY <1>0
  <1>1. CASE AgentStart \/ Enqueue \/ Arrivals \/ UNCHANGED vars
    BY <1>1, RestKeeps
  <1>2. CASE Drained \/ AgentEnd
    <2>1. ApplyPendingIfIdle
      BY <1>2 DEF Drained, AgentEnd
    <2>2. /\ Nothing \in Pendings /\ Nothing.model = None /\ Nothing.level = None
          /\ pending.level \in Choices \union {None}
      BY DEF SettingsInv, TypeOK, Pendings, Nothing, Of
    <2>3. CASE pending' = Nothing
      BY <2>2, <2>3 DEF Settings
    <2>4. CASE pending.model = None /\ ApplyLevel(pending.level, Nothing, None)
      <3>1. pending'.model = None /\ pending'.level \in {None, pending.level}
        BY <2>2, <2>4, LevelIsKept
      <3> QED
        BY <3>1 DEF Settings
    <2> QED
      BY <2>1, <2>3, <2>4 DEF ApplyPendingIfIdle
  <1>3. ASSUME NEW t \in Settings, ChooseLater(t)
        PROVE  pending'[s] = pending[s] \/ pending'[s] = chosen + 1
    BY <1>3 DEF ChooseLater, Choose, SettingsInv, TypeOK, Settings
  <1>4. CASE ChooseModel \/ ChooseLevel
    BY <1>4 DEF ChooseModel, ChooseLevel
  <1>5. ASSUME NEW c \in Choices, SdkSettles(c)
        PROVE  pending'[s] = pending[s]
    <2>1. ASSUME NEW call \in calls, ModelChanges(call) \/
                     \E error \in BOOLEAN : ChoiceSettles(call, error)
          PROVE  pending'[s] = pending[s]
      BY <2>1 DEF ModelChanges, ChoiceSettles
    <2>2. ASSUME NEW call \in calls, NEW error \in BOOLEAN, DeferredSettles(call, error)
          PROVE  pending'[s] = pending[s]
      BY <2>2, DeferredSettlesTakes DEF Settings
    <2> QED
      BY <1>5, <2>1, <2>2 DEF SdkSettles
  <1> QED
    BY <1>1, <1>2, <1>3, <1>4, <1>5 DEF Next, Settings

(* A deferred setting is never replaced by an older one, also when one whose  *)
(* application failed is put back (applyPendingSettingsIfIdle).                *)
THEOREM NewerStandsAlways == Spec => NewerPendingStands
  <1>1. SettingsInv /\ [Next]_vars
          => [\A setting \in Settings :
                 pending[setting] # None /\ pending'[setting] # None
                     => pending'[setting] >= pending[setting]]_vars
    BY NewerStands
  <1> QED
    BY SettingsAlways, <1>1, PTL DEF Spec, NewerPendingStands

(* The state keeps its types.                                                 *)
THEOREM TypeCorrect == Spec => []TypeOK
BY SettingsAlways, PTL DEF SettingsInv

(* A deferred level that is put back is reported. *)
LEMMA LevelIsReported ==
    ASSUME SettingsInv, NEW c \in Choices \union {None}, NEW left \in Pendings,
           NEW failed \in Choices \union {None}, ApplyLevel(c, left, failed)
    PROVE  pending'.level \in {left.level} \union reported'
BY DEF ApplyLevel, Report, Pendings

LEMMA WaitersStep ==
    ASSUME SettingsInv, OnlyFailedWaitWhileIdle, [Next]_vars
    PROVE  OnlyFailedWaitWhileIdle'
  <1> SUFFICES ASSUME ~streaming', ~queued', NEW s \in Settings
               PROVE  pending'[s] \in {None} \union reported'
    BY DEF OnlyFailedWaitWhileIdle, Busy
  <1>0. /\ pending \in Pendings /\ Nothing \in Pendings
        /\ Nothing.model = None /\ Nothing.level = None
    BY DEF SettingsInv, TypeOK, Pendings, Nothing, Of
  <1>1. CASE UNCHANGED <<streaming, queued, pending>> /\ reported \subseteq reported'
    BY <1>1 DEF OnlyFailedWaitWhileIdle, Busy
  <1>2. CASE AgentStart \/ Enqueue
    BY <1>2 DEF AgentStart, Enqueue
  <1>3. CASE Drained \/ AgentEnd
    <2>1. ApplyPendingIfIdle
      BY <1>3 DEF Drained, AgentEnd
    <2>2. CASE pending' = Nothing
      BY <1>0, <2>2 DEF Settings
    <2>3. CASE ApplyLevel(pending.level, Nothing, None)
      <3>1. pending.level \in Choices \union {None} /\ None \in Choices \union {None}
        BY <1>0 DEF Pendings
      <3>2. pending'.model = None /\ pending'.level \in {None} \union reported'
        BY <1>0, <2>3, <3>1, LevelIsKept, LevelIsReported
      <3> QED
        BY <3>2 DEF Settings
    <2> QED
      BY <2>1, <2>2, <2>3 DEF ApplyPendingIfIdle
  <1>4. ASSUME NEW t \in Settings, ChooseLater(t)
        PROVE  FALSE
    BY <1>4 DEF ChooseLater, Choose, session, Busy
  <1>5. CASE ChooseModel \/ ChooseLevel
    BY <1>1, <1>5 DEF ChooseModel, ChooseLevel, Choose, session, Report
  <1>6. ASSUME NEW call \in calls, ModelChanges(call) \/
                   \E error \in BOOLEAN : ChoiceSettles(call, error)
        PROVE  pending'[s] \in {None} \union reported'
    BY <1>1, <1>6 DEF ModelChanges, ChoiceSettles, session, Report
  <1>7. ASSUME NEW call \in calls, NEW error \in BOOLEAN, DeferredSettles(call, error)
        PROVE  pending'[s] \in {None} \union reported'
    <2>1. \A t \in Settings : pending[t] \in {None} \union reported
      BY <1>7 DEF DeferredSettles, session, OnlyFailedWaitWhileIdle, Busy
    <2>2. PICK left \in Pendings, failed \in Choices \union {None} :
            /\ ApplyLevel(call.level, left, failed)
            /\ left.level = pending.level
            /\ left.model \in {pending.model, failed}
      <3>1. call.model \in Choices
        BY DEF SettingsInv, TypeOK
      <3>2. CASE error
        <4>1. ApplyLevel(call.level, PutBack(call), call.model)
          BY <1>7, <3>2 DEF DeferredSettles
        <4>2. /\ PutBack(call) \in Pendings /\ PutBack(call).level = pending.level
              /\ PutBack(call).model \in {pending.model, call.model}
          BY PutBackType
        <4> QED
          BY <3>1, <4>1, <4>2
      <3>3. CASE ~error
        BY <1>0, <1>7, <3>3 DEF DeferredSettles
      <3> QED
        BY <3>2, <3>3
    <2>3. call.level \in Choices \union {None}
      BY DEF SettingsInv, TypeOK
    <2>4. /\ reported \subseteq reported' /\ (failed # None => failed \in reported')
          /\ pending'.model = left.model
      BY <2>2, <2>3, LevelIsKept
    <2>5. pending'.level \in {left.level} \union reported'
      BY <2>2, <2>3, LevelIsReported
    <2> QED
      BY <2>1, <2>2, <2>4, <2>5 DEF Settings
  <1>8. CASE Arrivals \/ UNCHANGED vars
    BY <1>1, <1>8 DEF Arrivals, StatusArrives, ModelsRead, ReplyArrives, vars, session, history
  <1> QED
    BY <1>2, <1>3, <1>4, <1>5, <1>6, <1>7, <1>8 DEF Next, SdkSettles, Settings

(* While the session is idle only deferred settings wait that were tried and  *)
(* whose failure was reported: whatever makes the session idle, the end of a  *)
(* turn or of the queue, applies the others (applyPendingSettingsIfIdle).     *)
THEOREM IdleAppliesDeferred == Spec => []OnlyFailedWaitWhileIdle
  <1>1. Init => OnlyFailedWaitWhileIdle
    BY DEF Init, OnlyFailedWaitWhileIdle, Nothing, Of, Settings
  <1>2. SettingsInv /\ OnlyFailedWaitWhileIdle /\ [Next]_vars => OnlyFailedWaitWhileIdle'
    BY WaitersStep
  <1> QED
    BY <1>1, <1>2, SettingsAlways, PTL DEF Spec
===============================================================================
