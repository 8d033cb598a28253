------------------------ MODULE SessionWorkspaceProofs ------------------------
(* Theorems about SessionWorkspace, for every value of its constants.       *)
(*                                                                         *)
(* WorkspaceInv is inductive: types, ownership, the discipline of the queue *)
(* and what a running mutation remembers.  The rest builds on it.           *)
(*                                                                         *)
(* The bound: a soft delete whose owner could not be disposed brings the    *)
(* session back without reserving a place for it, so CapacityRespected is   *)
(* not inductive; the place it may come back to is counted as well.  With   *)
(* that the workspace implements SessionRegistry.  The history: what a      *)
(* session without an owner has shown is covered by the generation, and by  *)
(* the revision reserved for the owner to come.  The files: forks and soft  *)
(* deletes know at each await where the file they move is, so that they do  *)
(* all of it or nothing.                                                    *)
EXTENDS SessionWorkspace, FiniteSetTheorems, TLAPS

-------------------------------------------------------------------------------
(* Type correctness *)

LEMMA FreeRequestType == FreeRequest \in Request
  BY WorkspaceAssumption DEF FreeRequest, Request, Kinds, Phases, Revisions

LEMMA NewControllerType ==
  ASSUME NEW s \in Sessions \union {None}, NEW g \in Revisions,
         NEW st \in {"unborn", "live", "disposing", "disposed", "failed"}
  PROVE  /\ NewController(s, g) \in Controller
         /\ [NewController(s, g) EXCEPT !.state = st] \in Controller
  BY DEF NewController, Controller

LEMMA DoomedType ==
  ASSUME TypeOK, NEW c \in Controllers
  PROVE  Doomed(c) \in Controller /\ Doomed(c).state = "disposing"
  BY DEF Doomed, Controller, TypeOK

LEMMA SessionOfType ==
  ASSUME TypeOK, NEW c \in Controllers \union {None},
         c # None => ctl[c].sid \in Sessions
  PROVE  SessionOf(c) \subseteq Sessions
  BY DEF SessionOf, TypeOK

(* The mutation whose turn it is is one of the requests. *)
LEMMA TurnType ==
  ASSUME TypeOK, NEW r, IsTurn(r)
  PROVE  r \in Requests /\ Tail(queue) \in Seq(Requests)
  BY DEF TypeOK, IsTurn

LEMMA SettleType ==
  ASSUME TypeOK, NEW r \in Requests, IsTurn(r), Settle(r)
  PROVE  /\ req' \in [Requests -> Request]
         /\ queue' \in Seq(Requests)
         /\ transitioning' \subseteq Sessions
  BY FreeRequestType, TurnType DEF TypeOK, Settle

LEMMA GotoType ==
  ASSUME TypeOK, NEW r \in Requests, NEW next \in Request, Goto(r, next)
  PROVE  /\ req' \in [Requests -> Request]
         /\ queue' \in Seq(Requests)
         /\ transitioning' \subseteq Sessions
  BY DEF TypeOK, Goto, Request

(* An owner is live and was opened for the session it owns; what a mutation *)
(* remembers about its session makes the pieces after an await well typed.  *)
Typed == TypeOK /\ LiveIffOwner

LEMMA VictimType ==
  ASSUME Typed, NEW excluded \in SUBSET Sessions, NEW victim \in Victims(excluded)
  PROVE  /\ victim \in Controllers \union {None}
         /\ victim # None => ctl[victim].sid \in Sessions
                               /\ sessions[ctl[victim].sid] = victim
         /\ SessionOf(victim) \subseteq Sessions
  BY WorkspaceAssumption
  DEF Typed, TypeOK, LiveIffOwner, Victims, Evictable, Loaded, SessionOf

LEMMA CommitType ==
  ASSUME Typed, NEW r \in Requests, IsTurn(r), NEW c \in Controllers,
         NEW s \in Sessions, NEW victim \in Controllers \union {None},
         victim # None => ctl[victim].sid \in Sessions,
         Commit(r, c, s, victim)
  PROVE  /\ sessions' \in [Sessions -> Controllers \union {None}]
         /\ ctl' \in [Controllers -> Controller]
         /\ generation' \in Revisions
         /\ unannounced' \subseteq Sessions
         /\ req' \in [Requests -> Request]
         /\ queue' \in Seq(Requests)
         /\ transitioning' \subseteq Sessions
  <1> USE DEF Typed
  <1>1. sessions' \in [Sessions -> Controllers \union {None}]
    BY DEF Commit, TypeOK
  <1>2. ctl' \in [Controllers -> Controller] /\ generation' \in Revisions
    <2>1. PICK g \in Revisions :
             /\ generation' = g
             /\ ctl' = [d \in Controllers |->
                          IF d = c THEN NewController(s, g)
                          ELSE IF d = victim THEN Doomed(d) ELSE ctl[d]]
      BY DEF Commit
    <2>2. NewController(s, g) \in Controller
      BY DEF NewController, Controller
    <2>3. \A d \in Controllers : Doomed(d) \in Controller
      BY DoomedType
    <2>4. \A d \in Controllers : ctl[d] \in Controller
      BY DEF TypeOK
    <2>5. QED BY <2>1, <2>2, <2>3, <2>4
  <1>3. unannounced' \subseteq Sessions
    <2>1. unannounced' = unannounced \ {s}
      BY DEF Commit
    <2>2. QED BY <2>1 DEF TypeOK
  <1>4. /\ req' \in [Requests -> Request]
        /\ queue' \in Seq(Requests)
        /\ transitioning' \subseteq Sessions
    <2>1. SessionOf(victim) \subseteq Sessions
      BY SessionOfType
    <2>2. CASE victim # None
      <3> DEFINE next == [req[r] EXCEPT !.phase = "evicting", !.sid = s,
                       !.victim = victim, !.wait = {victim},
                       !.held = SessionOf(victim)]
      <3>1. next \in Request
        <4>1. /\ req[r] \in Request /\ "evicting" \in Phases
              /\ {victim} \in SUBSET Controllers
              /\ SessionOf(victim) \in SUBSET Sessions
          BY <2>1, <2>2 DEF TypeOK, Phases
        <4>2. QED BY <4>1 DEF Request
      <3>2. Goto(r, next)
        BY <2>2 DEF Commit
      <3>3. QED BY <3>1, <3>2, GotoType
    <2>3. CASE victim = None /\ req[r].kind = "fork"
      <3> DEFINE next == [req[r] EXCEPT !.phase = "refreshing"]
      <3>1. next \in Request
        <4>1. req[r] \in Request /\ "refreshing" \in Phases
          BY DEF TypeOK, Phases
        <4>2. QED BY <4>1 DEF Request
      <3>2. Goto(r, next)
        BY <2>3 DEF Commit
      <3>3. QED BY <3>1, <3>2, GotoType
    <2>4. CASE victim = None /\ req[r].kind # "fork"
      <3>1. Settle(r)
        BY <2>4 DEF Commit
      <3>2. QED BY <3>1, SettleType
    <2>5. QED BY <2>2, <2>3, <2>4
  <1>5. QED BY <1>1, <1>2, <1>3, <1>4

-------------------------------------------------------------------------------
(* The inductive invariant.  "seen" is a history variable that Report sets   *)
(* in every step, so the steps are first shown to preserve the rest.         *)

StateType ==
    /\ sessions \in [Sessions -> Controllers \union {None}]
    /\ ctl \in [Controllers -> Controller]
    /\ transitioning \subseteq Sessions
    /\ generation \in Revisions
    /\ queue \in Seq(Requests)
    /\ req \in [Requests -> Request]
    /\ disk \in [Sessions -> FileStates]
    /\ protected \subseteq Sessions
    /\ unannounced \subseteq Sessions
    /\ raced \subseteq Sessions

Core ==
    /\ StateType
    /\ LiveIffOwner
    /\ OneMutationRuns
    /\ \A q \in Requests : Remembers(q)
    /\ OwnersHaveFiles
    /\ ReservationsHeldByRunning

LEMMA CoreOfInv == WorkspaceInv => Core /\ Typed
  BY DEF WorkspaceInv, Core, StateType, TypeOK, Typed

(* When the running mutation settles, every mutation left is a waiting one. *)
LEMMA SettleKeeps ==
  ASSUME WorkspaceInv, NEW r \in Requests, IsTurn(r), Settle(r)
  PROVE  /\ OneMutationRuns'
         /\ \A q \in Requests : Remembers(q)'
         /\ ReservationsHeldByRunning'
  <1> USE DEF WorkspaceInv
  <1>1. \A q \in Requests : Waiting(q)' /\ req'[q].held = {} /\ req'[q].old = None
    BY DEF OneMutationRuns, IsTurn, Waiting, Settle, TypeOK, FreeRequest
  <1>2. OneMutationRuns'
    BY <1>1 DEF OneMutationRuns, IsTurn, Waiting, Settle, TypeOK, FreeRequest
  <1>3. \A q \in Requests : Remembers(q)'
    BY <1>1 DEF Remembers, Waiting
  <1>4. ReservationsHeldByRunning'
    <2>1. transitioning' = {}
      BY DEF ReservationsHeldByRunning, Settle, IsTurn
    <2>2. queue' # <<>> => Head(queue') \in Requests
      BY SettleType DEF Typed
    <2>3. QED BY <1>1, <2>1, <2>2 DEF ReservationsHeldByRunning
  <1>5. QED BY <1>2, <1>3, <1>4

(* When it goes on, only what it remembers itself has to be shown. *)
LEMMA GotoKeeps ==
  ASSUME WorkspaceInv, NEW r \in Requests, IsTurn(r),
         NEW next \in Request, Goto(r, next),
         next.phase \notin {"free", "queued"},
         req[r].held \subseteq next.held,
         next.phase # "closing" => next.sid \in Sessions,
         Remembers(r)'
  PROVE  /\ OneMutationRuns'
         /\ \A q \in Requests : Remembers(q)'
         /\ ReservationsHeldByRunning'
  <1> USE DEF WorkspaceInv
  <1>0. req' = [req EXCEPT ![r] = next] /\ queue' = queue
    BY DEF Goto
  <1>1. \A q \in Requests : q # r => Waiting(q) /\ req'[q] = req[q]
    BY <1>0 DEF OneMutationRuns, IsTurn, TypeOK
  <1>2. req'[r] = next
    BY <1>0 DEF TypeOK
  <1>3. OneMutationRuns'
    BY <1>0, <1>1, <1>2 DEF OneMutationRuns, IsTurn, Waiting
  <1>4. \A q \in Requests : Remembers(q)'
    BY <1>1 DEF Remembers, Waiting
  <1>5. ReservationsHeldByRunning'
    BY <1>0, <1>2 DEF ReservationsHeldByRunning, Goto, IsTurn
  <1>6. QED BY <1>3, <1>4, <1>5

FilesKept ==
    /\ disk' \in [Sessions -> FileStates]
    /\ \A s \in Sessions : disk[s] # "unused" => disk'[s] # "unused"

LEMMA SameFilesKept == ASSUME TypeOK, UNCHANGED disk PROVE FilesKept
  BY DEF TypeOK, FilesKept

(* A piece that changes no owner and ends the mutation. *)
LEMMA QuietSettle ==
  ASSUME WorkspaceInv, NEW r \in Requests, IsTurn(r), Settle(r), FilesKept,
         UNCHANGED <<sessions, ctl>>, EnvironmentUnchanged,
         generation' \in Revisions, unannounced' \subseteq Sessions
  PROVE  Core'
  <1>1. StateType'
    BY SettleType DEF WorkspaceInv, TypeOK, StateType, FilesKept, EnvironmentUnchanged
  <1>2. LiveIffOwner' /\ OwnersHaveFiles'
    BY DEF WorkspaceInv, LiveIffOwner, OwnersHaveFiles, Loaded, FilesKept
  <1>3. QED BY <1>1, <1>2, SettleKeeps DEF Core

(* A piece that changes no owner and goes on to the next await. *)
LEMMA QuietGoto ==
  ASSUME WorkspaceInv, NEW r \in Requests, IsTurn(r), FilesKept,
         NEW next \in Request, Goto(r, next),
         next.phase \notin {"free", "queued"},
         req[r].held \subseteq next.held,
         next.phase # "closing" => next.sid \in Sessions,
         Remembers(r)',
         UNCHANGED <<sessions, ctl>>, EnvironmentUnchanged,
         generation' \in Revisions, unannounced' \subseteq Sessions
  PROVE  Core'
  <1>1. StateType'
    BY GotoType DEF WorkspaceInv, TypeOK, StateType, FilesKept, EnvironmentUnchanged
  <1>2. LiveIffOwner' /\ OwnersHaveFiles'
    BY DEF WorkspaceInv, LiveIffOwner, OwnersHaveFiles, Loaded, FilesKept
  <1>3. QED BY <1>1, <1>2, GotoKeeps DEF Core

(* A step outside the tail: no controller is born, retired or moved. *)
LEMMA ControllersKept ==
  ASSUME WorkspaceInv, LifecycleUnchanged, FilesKept,
         ctl' \in [Controllers -> Controller],
         \A c \in Controllers : ctl'[c].state = "live" <=> ctl[c].state = "live",
         \A c \in Controllers : ctl[c].state = "live" => ctl'[c].sid = ctl[c].sid,
         protected' \subseteq Sessions, raced' \subseteq Sessions
  PROVE  Core'
  <1> USE DEF WorkspaceInv, LifecycleUnchanged
  <1>1. StateType'
    BY DEF TypeOK, StateType, FilesKept
  <1>2. LiveIffOwner'
    BY DEF LiveIffOwner, TypeOK, Controller
  <1>3. OwnersHaveFiles' /\ OneMutationRuns' /\ ReservationsHeldByRunning'
    BY DEF OwnersHaveFiles, Loaded, FilesKept, OneMutationRuns, IsTurn, Waiting,
           ReservationsHeldByRunning
  <1>4. ASSUME NEW q \in Requests PROVE Remembers(q)'
    <2>1. req'[q] = req[q] /\ req[q] \in Request
      BY DEF TypeOK
    <2>2. CandidateKept(q) =>
            CandidateKept(q)' /\ SessionOf(req[q].victim)' = SessionOf(req[q].victim)
      <3> SUFFICES ASSUME CandidateKept(q), req[q].victim # None
                   PROVE  ctl'[req[q].victim].sid = ctl[req[q].victim].sid
        BY <2>1 DEF CandidateKept, SessionOf
      <3>1. ctl[req[q].victim].state = "live" /\ req[q].victim \in Controllers
        BY <2>1 DEF CandidateKept, LiveIffOwner, Request
      <3>2. QED BY <3>1
    <2>3. OldKept(q) => OldKept(q)'
      BY <2>1 DEF OldKept
    <2>4. \A s \in Sessions : disk[s] # "unused" => disk'[s] # "unused"
      BY DEF FilesKept
    <2>5. Waiting(q) => Remembers(q)'
      BY <2>1 DEF Waiting, Remembers
    <2>6. ~Waiting(q) => Remembers(q)'
      <3> SUFFICES ASSUME ~Waiting(q) PROVE Remembers(q)'
        OBVIOUS
      <3>1. req[q].phase # "closing" => req[q].sid \in Sessions
        BY DEF OneMutationRuns
      <3>2. Remembers(q)
        OBVIOUS
      <3>3. QED BY <2>1, <2>2, <2>3, <2>4, <3>1, <3>2 DEF Remembers
    <2>7. QED BY <2>5, <2>6
  <1>5. QED BY <1>1, <1>2, <1>3, <1>4 DEF Core

(* A controller that changes its work or its revision keeps state and sid. *)
LEMMA WorkChanged ==
  ASSUME TypeOK, NEW c \in Controllers, NEW work \in {"idle", "accepted", "busy"},
         ctl' = [ctl EXCEPT ![c].work = work]
  PROVE  /\ ctl' \in [Controllers -> Controller]
         /\ \A d \in Controllers : ctl'[d].state = ctl[d].state /\ ctl'[d].sid = ctl[d].sid
  <1>1. ctl \in [Controllers -> Controller] /\ ctl[c] \in Controller
    BY DEF TypeOK
  <1>2. ctl' = [ctl EXCEPT ![c] = [ctl[c] EXCEPT !.work = work]]
    BY <1>1
  <1>3. /\ [ctl[c] EXCEPT !.work = work] \in Controller
        /\ [ctl[c] EXCEPT !.work = work].state = ctl[c].state
        /\ [ctl[c] EXCEPT !.work = work].sid = ctl[c].sid
    BY <1>1 DEF Controller
  <1>4. QED BY <1>1, <1>2, <1>3

LEMMA RevisionChanged ==
  ASSUME TypeOK, NEW c \in Controllers, NEW g \in Revisions,
         ctl' = [ctl EXCEPT ![c].rev = g]
  PROVE  /\ ctl' \in [Controllers -> Controller]
         /\ \A d \in Controllers : ctl'[d].state = ctl[d].state /\ ctl'[d].sid = ctl[d].sid
  <1>1. ctl \in [Controllers -> Controller] /\ ctl[c] \in Controller
    BY DEF TypeOK
  <1>2. ctl' = [ctl EXCEPT ![c] = [ctl[c] EXCEPT !.rev = g]]
    BY <1>1
  <1>3. /\ [ctl[c] EXCEPT !.rev = g] \in Controller
        /\ [ctl[c] EXCEPT !.rev = g].state = ctl[c].state
        /\ [ctl[c] EXCEPT !.rev = g].sid = ctl[c].sid
    BY <1>1 DEF Controller
  <1>4. QED BY <1>1, <1>2, <1>3

LEMMA DisposeSettledCore ==
  ASSUME WorkspaceInv, NEW c \in Controllers, DisposeSettled(c)
  PROVE  Core'
  <1> USE DEF WorkspaceInv
  <1>1. PICK outcome \in {"disposed", "failed"} :
          ctl' = [ctl EXCEPT ![c] = [NewController(None, 0) EXCEPT !.state = outcome]]
    BY DEF DisposeSettled
  <1>2. [NewController(None, 0) EXCEPT !.state = outcome] \in Controller
    BY WorkspaceAssumption DEF NewController, Controller, Revisions
  <1>3. [NewController(None, 0) EXCEPT !.state = outcome].state = outcome
    BY DEF NewController
  <1>4. ctl' \in [Controllers -> Controller]
    BY <1>1, <1>2 DEF TypeOK
  <1>5. \A d \in Controllers :
          /\ ctl'[d].state = "live" <=> ctl[d].state = "live"
          /\ ctl[d].state = "live" => ctl'[d].sid = ctl[d].sid
    BY <1>1, <1>3 DEF TypeOK, DisposeSettled
  <1>6. QED
    BY <1>4, <1>5, SameFilesKept, ControllersKept
    DEF DisposeSettled, EnvironmentUnchanged, TypeOK

LEMMA SubmitCore ==
  ASSUME WorkspaceInv, NEW s \in Sessions, Submit(s)
  PROVE  Core'
  <1> USE DEF WorkspaceInv
  <1>1. sessions[s] \in Controllers
    BY DEF Submit, Mutable, Loaded, TypeOK
  <1>2. PICK work \in {"accepted", "busy"} :
          ctl' = [ctl EXCEPT ![sessions[s]].work = work]
    BY DEF Submit
  <1>3. /\ ctl' \in [Controllers -> Controller]
        /\ \A d \in Controllers : ctl'[d].state = ctl[d].state /\ ctl'[d].sid = ctl[d].sid
    BY <1>1, <1>2, WorkChanged
  <1>4. QED
    BY <1>3, SameFilesKept, ControllersKept
    DEF Submit, EnvironmentUnchanged, TypeOK

LEMMA VisibilityCore ==
  ASSUME WorkspaceInv, NEW c \in Controllers, Visibility(c)
  PROVE  Core'
  <1> USE DEF WorkspaceInv
  <1>1. PICK work \in {"accepted", "busy"} : ctl' = [ctl EXCEPT ![c].work = work]
    BY DEF Visibility
  <1>2. /\ ctl' \in [Controllers -> Controller]
        /\ \A d \in Controllers : ctl'[d].state = ctl[d].state /\ ctl'[d].sid = ctl[d].sid
    BY <1>1, WorkChanged
  <1>3. QED
    BY <1>2, SameFilesKept, ControllersKept
    DEF Visibility, EnvironmentUnchanged, TypeOK

LEMMA ProgressCore ==
  ASSUME WorkspaceInv, NEW c \in Controllers, Progress(c)
  PROVE  Core'
  <1> USE DEF WorkspaceInv
  <1>1. ctl[c].rev + 1 \in Revisions
    BY WorkspaceAssumption DEF Progress, TypeOK, Controller, Revisions
  <1>2. ctl' = [ctl EXCEPT ![c].rev = ctl[c].rev + 1]
    BY DEF Progress
  <1>3. /\ ctl' \in [Controllers -> Controller]
        /\ \A d \in Controllers : ctl'[d].state = ctl[d].state /\ ctl'[d].sid = ctl[d].sid
    BY <1>1, <1>2, RevisionChanged
  <1>5. raced' \subseteq Sessions /\ protected' \subseteq Sessions /\ UNCHANGED disk
    BY DEF Progress, TypeOK
  <1>6. LifecycleUnchanged
    BY DEF Progress
  <1>7. QED
    BY <1>3, <1>5, <1>6, SameFilesKept, ControllersKept

LEMMA WorkSettledCore ==
  ASSUME WorkspaceInv, NEW c \in Controllers, WorkSettled(c)
  PROVE  Core'
  <1> USE DEF WorkspaceInv
  <1>1. ctl' = [ctl EXCEPT ![c].work = "idle"]
    BY DEF WorkSettled
  <1>2. /\ ctl' \in [Controllers -> Controller]
        /\ \A d \in Controllers : ctl'[d].state = ctl[d].state /\ ctl'[d].sid = ctl[d].sid
    BY <1>1, WorkChanged
  <1>4. FilesKept
    BY DEF WorkSettled, FilesKept, TypeOK, FileStates
  <1>5. QED
    BY <1>2, <1>4, ControllersKept
    DEF WorkSettled, EnvironmentUnchanged, TypeOK

LEMMA FocusMovedCore ==
  ASSUME WorkspaceInv, NEW s \in Sessions, FocusMoved(s)
  PROVE  Core'
  <1> USE DEF WorkspaceInv
  <1>1. protected' \subseteq Sessions /\ raced' \subseteq Sessions
    BY DEF FocusMoved, TypeOK
  <1>2. UNCHANGED <<ctl, disk>> /\ LifecycleUnchanged
    BY DEF FocusMoved
  <1>3. QED
    BY <1>1, <1>2, SameFilesKept, ControllersKept DEF TypeOK

LEMMA EnqueueCore ==
  ASSUME WorkspaceInv, NEW r \in Requests, NEW kind \in Offered,
         NEW s \in Sessions \union {None}, Enqueue(r, kind, s)
  PROVE  Core'
  <1> USE DEF WorkspaceInv
  <1> DEFINE next == [FreeRequest EXCEPT !.kind = kind, !.phase = "queued", !.sid = s]
  <1>1. next \in Request
    <2>1. kind \in Kinds /\ "queued" \in Phases /\ FreeRequest \in Request
      BY WorkspaceAssumption, FreeRequestType DEF Phases
    <2>2. QED BY <2>1 DEF Request
  <1>2. /\ req' = [req EXCEPT ![r] = next]
        /\ queue' = Append(queue, r)
        /\ UNCHANGED <<transitioning, disk>>
        /\ OwnersUnchanged /\ EnvironmentUnchanged
    BY DEF Enqueue
  <1>3. next.phase = "queued" /\ next.held = {} /\ next.old = None /\ next.kind = kind /\ next.sid = s
    BY DEF FreeRequest
  <1>4. \A q \in Requests :
          IF q = r THEN req'[q] = next ELSE req'[q] = req[q]
    BY <1>2 DEF TypeOK
  <1>5. StateType'
    BY <1>1, <1>2 DEF TypeOK, StateType, OwnersUnchanged, EnvironmentUnchanged
  <1>6. LiveIffOwner' /\ OwnersHaveFiles'
    BY <1>2 DEF LiveIffOwner, OwnersHaveFiles, Loaded, OwnersUnchanged
  <1>7. queue # <<>> => Head(queue') = Head(queue) /\ queue' # <<>>
    BY <1>2 DEF TypeOK
  <1>8. queue = <<>> => Head(queue') = r /\ queue' # <<>>
    BY <1>2 DEF TypeOK
  <1>9. \A q \in Requests : ~IsTurn(q)' => ~IsTurn(q)
    BY <1>7, <1>8 DEF IsTurn
  <1>10. OneMutationRuns'
    <2>1. ASSUME NEW q \in Requests, q # r
          PROVE  /\ ~IsTurn(q)' => Waiting(q)'
                 /\ Waiting(q)' => req'[q].held = {} /\ req'[q].old = None
                 /\ req'[q].phase = "queued" /\ req'[q].kind \notin {"create", "disposeAll"}
                      => req'[q].sid \in Sessions
                 /\ ~Waiting(q)' /\ req'[q].phase # "closing" => req'[q].sid \in Sessions
      BY <1>4, <1>9, <2>1 DEF OneMutationRuns, Waiting
    <2>2. /\ Waiting(r)' /\ req'[r].held = {} /\ req'[r].old = None
          /\ req'[r].kind \notin {"create", "disposeAll"} => req'[r].sid \in Sessions
      BY <1>3, <1>4 DEF Waiting, Enqueue
    <2>3. QED BY <2>1, <2>2 DEF OneMutationRuns
  <1>11. ASSUME NEW q \in Requests PROVE Remembers(q)'
    <2>1. CASE q = r
      BY <1>3, <1>4, <2>1 DEF Remembers
    <2>2. CASE q # r
      <3>1. /\ req'[q] = req[q] /\ disk' = disk
            /\ sessions' = sessions /\ ctl' = ctl
        BY <1>2, <1>4, <2>2 DEF OwnersUnchanged
      <3>2. CandidateKept(q)' = CandidateKept(q)
        BY <3>1 DEF CandidateKept
      <3>3. OldKept(q)' = OldKept(q)
        BY <3>1 DEF OldKept
      <3>4. SessionOf(req[q].victim)' = SessionOf(req[q].victim)
        BY <3>1 DEF SessionOf
      <3>5. Remembers(q)
        OBVIOUS
      <3>6. QED BY <3>1, <3>2, <3>3, <3>4, <3>5 DEF Remembers
    <2>3. QED BY <2>1, <2>2
  <1>12. ReservationsHeldByRunning'
    <2>1. CASE queue = <<>>
      BY <1>2, <1>3, <1>4, <1>8, <2>1 DEF ReservationsHeldByRunning
    <2>2. CASE queue # <<>>
      <3>1. Head(queue) \in Requests
        BY <2>2 DEF TypeOK
      <3>2. transitioning' = req[Head(queue)].held
        BY <1>2, <2>2 DEF ReservationsHeldByRunning
      <3>3. Head(queue) = r => req[Head(queue)].held = {}
        BY DEF Enqueue, OneMutationRuns, Waiting
      <3>4. QED
        BY <1>3, <1>4, <1>7, <2>2, <3>1, <3>2, <3>3 DEF ReservationsHeldByRunning
    <2>3. QED BY <2>1, <2>2
  <1>13. QED BY <1>5, <1>6, <1>10, <1>11, <1>12 DEF Core

LEMMA EnvironmentCore == WorkspaceInv /\ Environment => Core'
  BY DisposeSettledCore, SubmitCore, VisibilityCore, ProgressCore,
     WorkSettledCore, FocusMovedCore, EnqueueCore
  DEF Environment

-------------------------------------------------------------------------------
(* Pieces of the mutations that leave the owners alone *)

LEMMA AtTurn ==
  ASSUME NEW r, NEW phase, At(r, phase)
  PROVE  IsTurn(r) /\ req[r].phase = phase
  BY DEF At

(* An update of the running mutation's record is a record of that type. *)
LEMMA PhaseType ==
  ASSUME TypeOK, NEW r \in Requests, NEW phase \in Phases
  PROVE  /\ [req[r] EXCEPT !.phase = phase] \in Request
         /\ [req[r] EXCEPT !.phase = phase, !.wait = {}] \in Request
         /\ \A g \in Revisions :
              [req[r] EXCEPT !.phase = phase, !.rev = g] \in Request
         /\ \A c \in Controllers :
              [req[r] EXCEPT !.phase = phase, !.wait = {c}] \in Request
  <1>1. req[r] \in Request
    BY DEF TypeOK
  <1>2. {} \in SUBSET Controllers /\ \A c \in Controllers : {c} \in SUBSET Controllers
    OBVIOUS
  <1>3. QED BY <1>1, <1>2 DEF Request

LEMMA GotoAt ==
  ASSUME TypeOK, NEW r \in Requests, NEW next, Goto(r, next)
  PROVE  req'[r] = next
  BY DEF TypeOK, Goto

LEMMA TypesKept ==
  ASSUME TypeOK, OwnersUnchanged
  PROVE  /\ UNCHANGED <<sessions, ctl>>
         /\ generation' \in Revisions /\ unannounced' \subseteq Sessions
  BY DEF TypeOK, OwnersUnchanged

(* Throwing: a fork goes on to remove its file, anything else settles. *)
LEMMA FailCore ==
  ASSUME WorkspaceInv, NEW r \in Requests, IsTurn(r), Fail(r),
         ~Waiting(r), req[r].phase # "closing",
         OwnersUnchanged, EnvironmentUnchanged, UNCHANGED disk
  PROVE  Core'
  <1> USE DEF WorkspaceInv
  <1>1. CASE req[r].kind = "fork"
    <2> DEFINE next == [req[r] EXCEPT !.phase = "removing", !.wait = {}]
    <2>1. next \in Request
      BY PhaseType DEF Phases
    <2>2. Goto(r, next)
      BY <1>1 DEF Fail
    <2>3. req[r] \in Request
      BY DEF TypeOK
    <2>4. next.phase = "removing" /\ next.held = req[r].held /\ next.sid = req[r].sid
      BY <2>3 DEF Request
    <2>5. next.sid \in Sessions
      BY <2>4 DEF OneMutationRuns
    <2>6. Remembers(r)'
      BY <2>2, <2>4, GotoAt DEF Remembers
    <2>7. QED BY <2>1, <2>2, <2>4, <2>5, <2>6, SameFilesKept, TypesKept, QuietGoto
  <1>2. CASE req[r].kind # "fork"
    <2>1. Settle(r)
      BY <1>2 DEF Fail
    <2>2. QED BY <2>1, SameFilesKept, TypesKept, QuietSettle
  <1>3. QED BY <1>1, <1>2

LEMMA BeginValidationCore ==
  ASSUME WorkspaceInv, NEW r \in Requests, BeginValidation(r)
  PROVE  Core'
  <1> USE DEF WorkspaceInv
  <1> DEFINE next == [req[r] EXCEPT !.phase = "validating"]
  <1>1. IsTurn(r) /\ Goto(r, next) /\ OwnersUnchanged /\ EnvironmentUnchanged
        /\ UNCHANGED disk /\ req[r].phase = "queued"
        /\ req[r].kind \in {"open", "rename", "delete"}
    BY DEF BeginValidation, At
  <1>2. next \in Request
    BY PhaseType DEF Phases
  <1>3. req[r] \in Request
    BY DEF TypeOK
  <1>4. /\ next.phase = "validating" /\ next.held = {} /\ next.old = None
        /\ req[r].held = {}
        /\ next.sid \in Sessions /\ next.kind # "fork"
    BY <1>1, <1>3 DEF Request, OneMutationRuns, Waiting
  <1>5. Remembers(r)'
    BY <1>1, <1>4, GotoAt DEF Remembers
  <1>6. QED BY <1>1, <1>2, <1>4, <1>5, SameFilesKept, TypesKept, QuietGoto

LEMMA RefusedCore ==
  ASSUME WorkspaceInv, NEW r \in Requests, Refused(r)
  PROVE  Core'
  BY FailCore DEF Refused, At, Waiting

LEMMA DiscardedCore ==
  ASSUME WorkspaceInv, NEW r \in Requests, Discarded(r)
  PROVE  Core'
  BY FailCore DEF Discarded, At, Waiting

LEMMA RefreshedCore ==
  ASSUME WorkspaceInv, NEW r \in Requests, Refreshed(r)
  PROVE  Core'
  <1>1. IsTurn(r) /\ Settle(r) /\ OwnersUnchanged /\ EnvironmentUnchanged /\ UNCHANGED disk
    BY DEF Refreshed, At
  <1>2. QED BY <1>1, SameFilesKept, TypesKept, QuietSettle DEF WorkspaceInv

LEMMA ClosedCore ==
  ASSUME WorkspaceInv, NEW r \in Requests, Closed(r)
  PROVE  Core'
  <1>1. IsTurn(r) /\ Settle(r) /\ OwnersUnchanged /\ EnvironmentUnchanged /\ UNCHANGED disk
    BY DEF Closed, At
  <1>2. QED BY <1>1, SameFilesKept, TypesKept, QuietSettle DEF WorkspaceInv

LEMMA ReplacementFailedCore ==
  ASSUME WorkspaceInv, NEW r \in Requests, ReplacementFailed(r)
  PROVE  Core'
  <1>1. IsTurn(r) /\ Settle(r) /\ OwnersUnchanged /\ EnvironmentUnchanged /\ UNCHANGED disk
    BY DEF ReplacementFailed, Replacing, At
  <1>2. QED BY <1>1, SameFilesKept, TypesKept, QuietSettle DEF WorkspaceInv

(* Going on to "refreshing", where nothing is remembered. *)
LEMMA ToRefreshing ==
  ASSUME WorkspaceInv, NEW r \in Requests, IsTurn(r),
         req[r].sid \in Sessions,
         \/ Goto(r, [req[r] EXCEPT !.phase = "refreshing"])
         \/ Goto(r, [req[r] EXCEPT !.phase = "refreshing", !.wait = {}])
         \/ Goto(r, [req[r] EXCEPT !.phase = "orphaned"]),
         FilesKept, UNCHANGED <<sessions, ctl>>, EnvironmentUnchanged,
         generation' \in Revisions, unannounced' \subseteq Sessions
  PROVE  Core'
  <1> USE DEF WorkspaceInv
  <1>1. PICK next : /\ next \in Request /\ Goto(r, next)
                    /\ next.phase \in {"refreshing", "orphaned"}
                    /\ next.held = req[r].held /\ next.sid = req[r].sid
    <2>1. req[r] \in Request
      BY DEF TypeOK
    <2>2. /\ [req[r] EXCEPT !.phase = "refreshing"] \in Request
          /\ [req[r] EXCEPT !.phase = "refreshing", !.wait = {}] \in Request
          /\ [req[r] EXCEPT !.phase = "orphaned"] \in Request
      BY PhaseType DEF Phases
    <2>3. CASE Goto(r, [req[r] EXCEPT !.phase = "refreshing"])
      BY <2>1, <2>2, <2>3 DEF Request
    <2>4. CASE Goto(r, [req[r] EXCEPT !.phase = "refreshing", !.wait = {}])
      BY <2>1, <2>2, <2>4 DEF Request
    <2>5. CASE Goto(r, [req[r] EXCEPT !.phase = "orphaned"])
      BY <2>1, <2>2, <2>5 DEF Request
    <2>6. QED BY <2>3, <2>4, <2>5
  <1>2. Remembers(r)'
    BY <1>1, GotoAt DEF Remembers
  <1>3. QED BY <1>1, <1>2, QuietGoto

LEMMA TurnSession ==
  ASSUME WorkspaceInv, NEW r \in Requests, ~Waiting(r), req[r].phase # "closing"
  PROVE  req[r].sid \in Sessions /\ Remembers(r)
  BY DEF WorkspaceInv, OneMutationRuns

LEMMA EvictedCore ==
  ASSUME WorkspaceInv, NEW r \in Requests, Evicted(r)
  PROVE  Core'
  <1>1. IsTurn(r) /\ OwnersUnchanged /\ EnvironmentUnchanged /\ UNCHANGED disk
        /\ req[r].phase = "evicting"
    BY DEF Evicted, At
  <1>2. CASE req[r].kind = "fork"
    <2>1. req[r].sid \in Sessions
      BY <1>1, TurnSession DEF Waiting
    <2>2. Goto(r, [req[r] EXCEPT !.phase = "refreshing", !.wait = {}])
      BY <1>2 DEF Evicted
    <2>3. QED BY <1>1, <2>1, <2>2, ToRefreshing, SameFilesKept, TypesKept DEF WorkspaceInv
  <1>3. CASE req[r].kind # "fork"
    <2>1. Settle(r)
      BY <1>3 DEF Evicted
    <2>2. QED BY <1>1, <2>1, SameFilesKept, TypesKept, QuietSettle DEF WorkspaceInv
  <1>4. QED BY <1>2, <1>3

LEMMA RenameValidatedCore ==
  ASSUME WorkspaceInv, NEW r \in Requests, RenameValidated(r)
  PROVE  Core'
  <1>1. /\ IsTurn(r) /\ OwnersUnchanged /\ EnvironmentUnchanged /\ UNCHANGED disk
        /\ req[r].phase = "validating"
        /\ Goto(r, [req[r] EXCEPT !.phase = "refreshing"])
    BY DEF RenameValidated, At
  <1>2. req[r].sid \in Sessions
    BY <1>1, TurnSession DEF Waiting
  <1>3. QED BY <1>1, <1>2, ToRefreshing, SameFilesKept, TypesKept DEF WorkspaceInv

LEMMA OpenValidatedCore ==
  ASSUME WorkspaceInv, NEW r \in Requests, OpenValidated(r)
  PROVE  Core'
  <1> USE DEF WorkspaceInv
  <1>1. /\ IsTurn(r) /\ OwnersUnchanged /\ EnvironmentUnchanged /\ UNCHANGED disk
        /\ req[r].phase = "validating" /\ disk[req[r].sid] = "present"
    BY DEF OpenValidated, At
  <1>2. req[r].sid \in Sessions /\ Remembers(r) /\ req[r] \in Request
    BY <1>1, TurnSession DEF Waiting, TypeOK
  <1>3. CASE Settle(r)
    BY <1>1, <1>3, SameFilesKept, TypesKept, QuietSettle
  <1>4. CASE /\ req[r].kind = "open"
             /\ \E victim \in Victims({}) :
                  Goto(r, [req[r] EXCEPT !.phase = "opening", !.victim = victim,
                                         !.held = SessionOf(victim)])
    <2>1. PICK victim \in Victims({}) :
            Goto(r, [req[r] EXCEPT !.phase = "opening", !.victim = victim,
                                   !.held = SessionOf(victim)])
      BY <1>4
    <2> DEFINE next == [req[r] EXCEPT !.phase = "opening", !.victim = victim,
                                      !.held = SessionOf(victim)]
    <2>2. /\ victim \in Controllers \union {None}
          /\ SessionOf(victim) \in SUBSET Sessions
          /\ victim # None => ctl[victim].sid \in Sessions
                                /\ sessions[ctl[victim].sid] = victim
      BY VictimType DEF Typed
    <2>3. next \in Request
      BY <1>2, <2>2 DEF Request, Phases
    <2>4. /\ next.phase = "opening" /\ next.victim = victim
          /\ next.held = SessionOf(victim) /\ next.sid = req[r].sid
      BY <1>2 DEF Request
    <2>5. req[r].held = {}
      BY <1>1, <1>2, <1>4 DEF Remembers
    <2>6. req'[r] = next
      BY <2>1, GotoAt
    <2>7. UNCHANGED <<sessions, ctl, disk>>
      BY <1>1 DEF OwnersUnchanged
    <2>8. CandidateKept(r)' /\ req'[r].held = SessionOf(req[r].victim)'
      BY <2>2, <2>4, <2>6, <2>7 DEF CandidateKept, SessionOf
    <2>9. Remembers(r)'
      BY <1>1, <2>4, <2>6, <2>7, <2>8 DEF Remembers
    <2>10. QED BY <1>1, <1>2, <2>1, <2>3, <2>4, <2>5, <2>9, SameFilesKept, TypesKept, QuietGoto
  <1>5. CASE req[r].kind = "fork" /\ Goto(r, [req[r] EXCEPT !.phase = "opening"])
    <2> DEFINE next == [req[r] EXCEPT !.phase = "opening"]
    <2>1. next \in Request /\ Goto(r, next)
      BY <1>5, PhaseType DEF Phases
    <2>2. /\ next.phase = "opening" /\ next.victim = req[r].victim
          /\ next.held = req[r].held /\ next.sid = req[r].sid
      BY <1>2 DEF Request
    <2>3. CandidateKept(r) /\ req[r].held = SessionOf(req[r].victim)
      BY <1>1, <1>2, <1>5 DEF Remembers
    <2>4. req'[r] = next
      BY <2>1, GotoAt
    <2>5. UNCHANGED <<sessions, ctl, disk>>
      BY <1>1 DEF OwnersUnchanged
    <2>6. CandidateKept(r)' /\ req'[r].held = SessionOf(req[r].victim)'
      BY <2>2, <2>3, <2>4, <2>5 DEF CandidateKept, SessionOf
    <2>7. Remembers(r)'
      BY <1>1, <2>2, <2>4, <2>5, <2>6 DEF Remembers
    <2>8. QED BY <1>1, <1>2, <2>1, <2>2, <2>7, SameFilesKept, TypesKept, QuietGoto
  <1>6. QED BY <1>3, <1>4, <1>5 DEF OpenValidated

(* Registration: the new owner is live in its session, the victim is not,   *)
(* and every other owner is as it was.                                      *)
LEMMA CommitCore ==
  ASSUME WorkspaceInv, NEW r \in Requests, IsTurn(r), NEW c \in Fresh,
         NEW s \in Sessions, NEW victim \in Controllers \union {None},
         victim # None => /\ ctl[victim].sid \in Sessions
                          /\ sessions[ctl[victim].sid] = victim,
         sessions[s] = None,
         req[r].held \subseteq SessionOf(victim),
         victim = None /\ req[r].kind = "fork" => req[r].sid \in Sessions,
         Commit(r, c, s, victim), EnvironmentUnchanged,
         FilesKept, disk'[s] # "unused"
  PROVE  Core'
  <1> USE DEF WorkspaceInv
  <1>1. c \in Controllers /\ ctl[c].state = "unborn"
    BY DEF Fresh, Unborn
  <1>2. StateType'
    BY <1>1, CommitType DEF Typed, TypeOK, StateType, FilesKept, EnvironmentUnchanged
  <1>3. PICK g \in Revisions :
          ctl' = [d \in Controllers |->
                     IF d = c THEN NewController(s, g)
                     ELSE IF d = victim THEN Doomed(d) ELSE ctl[d]]
    BY DEF Commit
  <1>4. sessions' = [t \in Sessions |->
                     IF t = s THEN c
                     ELSE IF t \in SessionOf(victim) THEN None ELSE sessions[t]]
    BY DEF Commit
  <1>5. /\ ctl'[c].state = "live" /\ ctl'[c].sid = s
        /\ \A d \in Controllers \ {c} :
             IF d = victim THEN ctl'[d].state # "live" ELSE ctl'[d] = ctl[d]
    BY <1>1, <1>3 DEF NewController, Doomed, TypeOK, Controller
  <1>6. \A t \in Sessions :
          sessions'[t] = IF t = s THEN c
                         ELSE IF victim # None /\ t = ctl[victim].sid THEN None
                         ELSE sessions[t]
    BY <1>4 DEF SessionOf
  <1>7. victim # c
    BY <1>1, WorkspaceAssumption DEF LiveIffOwner
  <1>8. LiveIffOwner'
    <2>1. ASSUME NEW d \in Controllers, ctl'[d].state = "live"
          PROVE  ctl'[d].sid \in Sessions /\ sessions'[ctl'[d].sid] = d
      <3>1. CASE d = c
        BY <1>5, <1>6, <3>1
      <3>2. CASE d # c
        <4>1. d # victim /\ ctl'[d] = ctl[d] /\ ctl[d].state = "live"
          BY <1>5, <2>1, <3>2
        <4>2. ctl[d].sid \in Sessions /\ sessions[ctl[d].sid] = d
          BY <4>1 DEF LiveIffOwner
        <4>3. ctl[d].sid # s /\ (victim # None => ctl[d].sid # ctl[victim].sid)
          BY <4>1, <4>2, WorkspaceAssumption
        <4>4. QED BY <1>6, <4>1, <4>2, <4>3
      <3>3. QED BY <3>1, <3>2
    <2>2. ASSUME NEW t \in Sessions, sessions'[t] # None
          PROVE  ctl'[sessions'[t]].state = "live" /\ ctl'[sessions'[t]].sid = t
      <3>1. CASE t = s
        BY <1>5, <1>6, <3>1
      <3>2. CASE t # s
        <4>1. sessions'[t] = sessions[t] /\ (victim # None => t # ctl[victim].sid)
          BY <1>6, <2>2, <3>2
        <4>2. ctl[sessions[t]].state = "live" /\ ctl[sessions[t]].sid = t
          BY <2>2, <4>1 DEF LiveIffOwner
        <4>3. sessions[t] \in Controllers
          BY <2>2, <4>1 DEF TypeOK
        <4>4. sessions[t] # c /\ sessions[t] # victim
          BY <1>1, <4>1, <4>2, <4>3, WorkspaceAssumption
        <4>5. QED BY <1>5, <4>1, <4>2, <4>3, <4>4
      <3>3. QED BY <3>1, <3>2
    <2>3. QED BY <2>1, <2>2 DEF LiveIffOwner
  <1>9. OwnersHaveFiles'
    BY <1>6 DEF OwnersHaveFiles, Loaded, FilesKept
  <1>10. /\ OneMutationRuns'
         /\ \A q \in Requests : Remembers(q)'
         /\ ReservationsHeldByRunning'
    <2>1. req[r] \in Request
      BY DEF TypeOK
    <2>2. CASE victim # None
      <3> DEFINE next == [req[r] EXCEPT !.phase = "evicting", !.sid = s,
                       !.victim = victim, !.wait = {victim},
                       !.held = SessionOf(victim)]
      <3>1. Goto(r, next)
        BY <2>2 DEF Commit
      <3>2. next \in Request
        <4>1. /\ "evicting" \in Phases
              /\ {victim} \in SUBSET Controllers
              /\ SessionOf(victim) \in SUBSET Sessions
          BY <2>2 DEF Phases, SessionOf
        <4>2. QED BY <2>1, <4>1 DEF Request
      <3>3. next.phase = "evicting" /\ next.held = SessionOf(victim) /\ next.sid = s
        BY <2>1 DEF Request
      <3>4. Remembers(r)'
        BY <3>1, <3>3, GotoAt DEF Remembers
      <3>5. QED BY <3>1, <3>2, <3>3, <3>4, GotoKeeps
    <2>3. CASE victim = None /\ req[r].kind = "fork"
      <3> DEFINE next == [req[r] EXCEPT !.phase = "refreshing"]
      <3>1. Goto(r, next)
        BY <2>3 DEF Commit
      <3>2. next \in Request
        BY PhaseType DEF Phases
      <3>3. next.phase = "refreshing" /\ next.held = req[r].held /\ next.sid = req[r].sid
        BY <2>1 DEF Request
      <3>4. Remembers(r)'
        BY <3>1, <3>3, GotoAt DEF Remembers
      <3>5. QED BY <2>3, <3>1, <3>2, <3>3, <3>4, GotoKeeps
    <2>4. CASE victim = None /\ req[r].kind # "fork"
      <3>1. Settle(r)
        BY <2>4 DEF Commit
      <3>2. QED BY <3>1, SettleKeeps
    <2>5. QED BY <2>2, <2>3, <2>4
  <1>11. QED BY <1>2, <1>8, <1>9, <1>10 DEF Core

LEMMA BeginCreateCore ==
  ASSUME WorkspaceInv, NEW r \in Requests, BeginCreate(r)
  PROVE  Core'
  <1> USE DEF WorkspaceInv
  <1>1. IsTurn(r) /\ EnvironmentUnchanged /\ Waiting(r) /\ req[r].kind = "create"
    BY DEF BeginCreate, At, Waiting
  <1>2. CASE Settle(r) /\ UNCHANGED disk /\ OwnersUnchanged
    BY <1>1, <1>2, SameFilesKept, TypesKept, QuietSettle
  <1>3. CASE \E victim \in Victims({}), s \in Unused, c \in Fresh :
               /\ disk' = [disk EXCEPT ![s] = "memory"]
               /\ Commit(r, c, s, victim)
    <2>1. PICK victim \in Victims({}), s \in Unused, c \in Fresh :
               /\ disk' = [disk EXCEPT ![s] = "memory"]
               /\ Commit(r, c, s, victim)
      BY <1>3
    <2>2. s \in Sessions /\ sessions[s] = None
      BY DEF Unused, OwnersHaveFiles, Loaded
    <2>3. FilesKept /\ disk'[s] # "unused"
      BY <2>1, <2>2 DEF FilesKept, TypeOK, FileStates
    <2>4. /\ victim \in Controllers \union {None}
          /\ victim # None => ctl[victim].sid \in Sessions
                                /\ sessions[ctl[victim].sid] = victim
      BY VictimType DEF Typed
    <2>5. req[r].held = {}
      BY <1>1 DEF OneMutationRuns
    <2>6. QED BY <1>1, <2>1, <2>2, <2>3, <2>4, <2>5, CommitCore
  <1>4. QED BY <1>2, <1>3 DEF BeginCreate

(* A controller that is constructed and disposed at once owns nothing. *)
LEMMA DiscardingCore ==
  ASSUME WorkspaceInv, NEW r \in Requests, IsTurn(r),
         req[r].sid \in Sessions, NEW c \in Fresh,
         NEW s \in Sessions \union {None},
         ctl' = [ctl EXCEPT ![c] = [NewController(s, 0) EXCEPT !.state = "disposing"]],
         Goto(r, [req[r] EXCEPT !.phase = "discarding", !.wait = {c}]),
         UNCHANGED <<sessions, generation, unannounced, disk>>, EnvironmentUnchanged
  PROVE  Core'
  <1> USE DEF WorkspaceInv
  <1> DEFINE next == [req[r] EXCEPT !.phase = "discarding", !.wait = {c}]
  <1>1. c \in Controllers /\ ctl[c].state = "unborn"
    BY DEF Fresh, Unborn
  <1>2. /\ [NewController(s, 0) EXCEPT !.state = "disposing"] \in Controller
        /\ [NewController(s, 0) EXCEPT !.state = "disposing"].state = "disposing"
    BY WorkspaceAssumption DEF NewController, Controller, Revisions
  <1>3. next \in Request
    BY <1>1, PhaseType DEF Phases
  <1>4. /\ next.phase = "discarding" /\ next.held = req[r].held
        /\ next.sid = req[r].sid
    <2>1. req[r] \in Request
      BY DEF TypeOK
    <2>2. QED BY <2>1 DEF Request
  <1>5. Remembers(r)'
    BY <1>4, GotoAt DEF Remembers
  <1>6. StateType'
    BY <1>1, <1>2, <1>3, GotoType DEF TypeOK, StateType, EnvironmentUnchanged
  <1>7. \A d \in Controllers :
          IF d = c THEN ctl'[d].state = "disposing" ELSE ctl'[d] = ctl[d]
    BY <1>2 DEF TypeOK
  <1>8. LiveIffOwner'
    <2>1. ASSUME NEW d \in Controllers, ctl'[d].state = "live"
          PROVE  ctl'[d].sid \in Sessions /\ sessions'[ctl'[d].sid] = d
      BY <1>7, <2>1 DEF LiveIffOwner
    <2>2. ASSUME NEW t \in Sessions, sessions'[t] # None
          PROVE  ctl'[sessions'[t]].state = "live" /\ ctl'[sessions'[t]].sid = t
      <3>1. /\ sessions'[t] \in Controllers
            /\ ctl[sessions'[t]].state = "live" /\ ctl[sessions'[t]].sid = t
        BY <2>2 DEF LiveIffOwner, TypeOK
      <3>2. QED BY <1>1, <1>7, <3>1
    <2>3. QED BY <2>1, <2>2 DEF LiveIffOwner
  <1>9. OwnersHaveFiles'
    BY DEF OwnersHaveFiles, Loaded
  <1>10. QED BY <1>3, <1>4, <1>5, <1>6, <1>8, <1>9, GotoKeeps DEF Core

LEMMA OpenedCore ==
  ASSUME WorkspaceInv, NEW r \in Requests, Opened(r)
  PROVE  Core'
  <1> USE DEF WorkspaceInv
  <1> DEFINE s == req[r].sid
  <1> DEFINE victim == req[r].victim
  <1>1. IsTurn(r) /\ UNCHANGED disk /\ EnvironmentUnchanged /\ req[r].phase = "opening"
    BY DEF Opened, At
  <1>2. s \in Sessions /\ Remembers(r) /\ req[r] \in Request
    BY <1>1, TurnSession DEF Waiting, TypeOK
  <1>3. CASE Fail(r) /\ OwnersUnchanged
    BY <1>1, <1>3, FailCore DEF Waiting
  <1>4. CASE \E c \in Fresh : Registrable(s, victim) /\ Commit(r, c, s, victim)
    <2>1. PICK c \in Fresh : Registrable(s, victim) /\ Commit(r, c, s, victim)
      BY <1>4
    <2>2. /\ victim \in Controllers \union {None}
          /\ victim # None => /\ ctl[victim].sid \in Sessions
                              /\ sessions[ctl[victim].sid] = victim
          /\ req[r].held = SessionOf(victim)
          /\ disk[s] # "unused"
      BY <1>1, <1>2 DEF Remembers, CandidateKept, Request
    <2>3. sessions[s] = None
      BY <2>1 DEF Registrable
    <2>4. QED BY <1>1, <1>2, <2>1, <2>2, <2>3, SameFilesKept, CommitCore
  <1>5. CASE \E c \in Fresh :
               /\ ~Registrable(s, victim)
               /\ ctl' = [ctl EXCEPT ![c] =
                            [NewController(s, 0) EXCEPT !.state = "disposing"]]
               /\ Goto(r, [req[r] EXCEPT !.phase = "discarding", !.wait = {c}])
               /\ UNCHANGED <<sessions, generation, unannounced>>
    BY <1>1, <1>2, <1>5, DiscardingCore
  <1>6. QED BY <1>3, <1>4, <1>5 DEF Opened

LEMMA ReplacingSession ==
  ASSUME WorkspaceInv, NEW r \in Requests, Replacing(r)
  PROVE  /\ IsTurn(r) /\ req[r].sid \in Sessions /\ Remembers(r)
         /\ req[r] \in Request
         /\ req[r].phase \in {"replacing", "recovering", "reviving"}
  BY TurnSession DEF Replacing, At, Waiting, WorkspaceInv, TypeOK

LEMMA ReplacementMismatchedCore ==
  ASSUME WorkspaceInv, NEW r \in Requests, ReplacementMismatched(r)
  PROVE  Core'
  BY ReplacingSession, DiscardingCore DEF ReplacementMismatched

-------------------------------------------------------------------------------
(* Soft delete, replacement, fork, revert, shutdown *)

LEMMA DeleteValidatedCore ==
  ASSUME WorkspaceInv, NEW r \in Requests, DeleteValidated(r)
  PROVE  Core'
  <1> USE DEF WorkspaceInv
  <1> DEFINE s == req[r].sid
  <1>1. /\ IsTurn(r) /\ OwnersUnchanged /\ EnvironmentUnchanged /\ UNCHANGED disk
        /\ req[r].phase = "validating" /\ req[r].kind = "delete"
    BY DEF DeleteValidated, At
  <1>2. s \in Sessions /\ Remembers(r) /\ req[r] \in Request
    BY <1>1, TurnSession DEF Waiting, TypeOK
  <1>3. req[r].held = {} /\ req[r].old = None
    BY <1>1, <1>2 DEF Remembers
  <1>4. UNCHANGED <<sessions, ctl>>
    BY <1>1 DEF OwnersUnchanged
  <1>5. CASE Goto(r, [req[r] EXCEPT !.phase = "resolving"])
    <2> DEFINE next == [req[r] EXCEPT !.phase = "resolving"]
    <2>1. next \in Request /\ Goto(r, next)
      BY <1>5, PhaseType DEF Phases
    <2>2. /\ next.phase = "resolving" /\ next.old = None
          /\ next.held = req[r].held /\ next.sid = s
      BY <1>2, <1>3 DEF Request
    <2>3. Remembers(r)'
      BY <2>1, <2>2, GotoAt DEF Remembers
    <2>4. QED BY <1>1, <1>2, <2>1, <2>2, <2>3, SameFilesKept, TypesKept, QuietGoto
  <1>6. CASE /\ Mutable(s)
             /\ Goto(r, [req[r] EXCEPT !.phase = "resolving",
                                       !.old = sessions[s], !.held = {s}])
    <2> DEFINE next == [req[r] EXCEPT !.phase = "resolving",
                                       !.old = sessions[s], !.held = {s}]
    <2>1. sessions[s] \in Controllers /\ sessions[s] # None
      BY <1>2, <1>6 DEF Mutable, Loaded, TypeOK
    <2>2. next \in Request
      <3>1. "resolving" \in Phases /\ {s} \in SUBSET Sessions
        BY <1>2 DEF Phases
      <3>2. QED BY <1>2, <2>1, <3>1 DEF Request
    <2>3. /\ next.phase = "resolving" /\ next.old = sessions[s]
          /\ next.held = {s} /\ next.sid = s
      BY <1>2 DEF Request
    <2>4. req'[r] = next
      BY <1>6, GotoAt
    <2>5. OldKept(r)'
      BY <1>4, <2>1, <2>3, <2>4 DEF OldKept
    <2>6. Remembers(r)'
      BY <2>3, <2>4, <2>5 DEF Remembers
    <2>7. QED
      BY <1>1, <1>2, <1>3, <1>6, <2>2, <2>3, <2>6, SameFilesKept, TypesKept, QuietGoto
  <1>7. QED BY <1>5, <1>6 DEF DeleteValidated

LEMMA ResolvedCore ==
  ASSUME WorkspaceInv, NEW r \in Requests, Resolved(r)
  PROVE  Core'
  <1> USE DEF WorkspaceInv
  <1>1. /\ IsTurn(r) /\ UNCHANGED <<sessions, ctl, unannounced, disk>>
        /\ EnvironmentUnchanged /\ req[r].phase = "resolving"
        /\ generation' \in Revisions
    BY DEF Resolved, At, TypeOK
  <1>2. req[r].sid \in Sessions /\ Remembers(r) /\ req[r] \in Request
    BY <1>1, TurnSession DEF Waiting, TypeOK
  <1>3. FilesKept /\ unannounced' \subseteq Sessions
    BY <1>1, SameFilesKept DEF TypeOK
  <1>4. CASE Settle(r)
    BY <1>1, <1>3, <1>4, QuietSettle
  <1>5. CASE /\ req[r].old = None
             /\ Goto(r, [req[r] EXCEPT !.phase = "renaming"])
    <2> DEFINE next == [req[r] EXCEPT !.phase = "renaming"]
    <2>1. next \in Request /\ Goto(r, next)
      BY <1>5, PhaseType DEF Phases
    <2>2. /\ next.phase = "renaming" /\ next.old = None
          /\ next.held = req[r].held /\ next.sid = req[r].sid
      BY <1>2, <1>5 DEF Request
    <2>3. Remembers(r)'
      BY <2>1, <2>2, GotoAt DEF Remembers
    <2>4. QED BY <1>1, <1>2, <1>3, <2>1, <2>2, <2>3, QuietGoto
  <1>6. CASE /\ req[r].old # None
             /\ \E g \in Revisions :
                  Goto(r, [req[r] EXCEPT !.phase = "recovering", !.rev = g])
    <2>1. PICK g \in Revisions :
            Goto(r, [req[r] EXCEPT !.phase = "recovering", !.rev = g])
      BY <1>6
    <2> DEFINE next == [req[r] EXCEPT !.phase = "recovering", !.rev = g]
    <2>2. next \in Request
      BY PhaseType DEF Phases
    <2>3. /\ next.phase = "recovering" /\ next.old = req[r].old
          /\ next.held = req[r].held /\ next.sid = req[r].sid
      BY <1>2 DEF Request
    <2>4. req'[r] = next
      BY <2>1, GotoAt
    <2>5. OldKept(r)
      BY <1>1, <1>2, <1>6 DEF Remembers
    <2>6. OldKept(r)'
      BY <1>1, <2>3, <2>4, <2>5 DEF OldKept
    <2>7. Remembers(r)'
      BY <2>3, <2>4, <2>6 DEF Remembers
    <2>8. QED BY <1>1, <1>2, <1>3, <2>1, <2>2, <2>3, <2>7, QuietGoto
  <1>7. QED BY <1>4, <1>5, <1>6 DEF Resolved

LEMMA RetiredCore ==
  ASSUME WorkspaceInv, NEW r \in Requests, Retired(r)
  PROVE  Core'
  <1> USE DEF WorkspaceInv
  <1>1. /\ IsTurn(r) /\ OwnersUnchanged /\ EnvironmentUnchanged /\ UNCHANGED disk
        /\ req[r].phase = "retiring"
    BY DEF Retired, At
  <1>2. req[r].sid \in Sessions /\ Remembers(r) /\ req[r] \in Request
    BY <1>1, TurnSession DEF Waiting, TypeOK
  <1>3. CASE Goto(r, [req[r] EXCEPT !.phase = "refreshing", !.wait = {}])
    BY <1>1, <1>2, <1>3, ToRefreshing, SameFilesKept, TypesKept
  <1>4. CASE Settle(r)
    BY <1>1, <1>4, SameFilesKept, TypesKept, QuietSettle
  <1>5. CASE Goto(r, [req[r] EXCEPT !.phase = "renaming", !.wait = {}])
    <2> DEFINE next == [req[r] EXCEPT !.phase = "renaming", !.wait = {}]
    <2>1. next \in Request
      BY PhaseType DEF Phases
    <2>2. /\ next.phase = "renaming" /\ next.held = req[r].held
          /\ next.sid = req[r].sid
      BY <1>2 DEF Request
    <2>3. sessions'[req[r].sid] # None
      BY <1>1, <1>2 DEF Remembers, OwnersUnchanged
    <2>4. req'[r] = next
      BY <1>5, GotoAt
    <2>5. Remembers(r)'
      BY <2>2, <2>3, <2>4 DEF Remembers
    <2>6. QED
      BY <1>1, <1>2, <1>5, <2>1, <2>2, <2>5, SameFilesKept, TypesKept, QuietGoto
  <1>6. QED BY <1>3, <1>4, <1>5 DEF Retired

LEMMA RestoredCore ==
  ASSUME WorkspaceInv, NEW r \in Requests, Restored(r)
  PROVE  Core'
  <1> USE DEF WorkspaceInv
  <1>1. /\ IsTurn(r) /\ OwnersUnchanged /\ EnvironmentUnchanged
        /\ req[r].phase = "restoring"
    BY DEF Restored, At
  <1>2. req[r].sid \in Sessions /\ Remembers(r) /\ req[r] \in Request
    BY <1>1, TurnSession DEF Waiting, TypeOK
  <1>3. CASE Settle(r) /\ UNCHANGED disk
    BY <1>1, <1>3, SameFilesKept, TypesKept, QuietSettle
  <1>4. CASE /\ disk' = [disk EXCEPT ![req[r].sid] = "present"]
             /\ Goto(r, [req[r] EXCEPT !.phase = "reviving"])
    <2> DEFINE next == [req[r] EXCEPT !.phase = "reviving"]
    <2>1. next \in Request /\ Goto(r, next)
      BY <1>4, PhaseType DEF Phases
    <2>2. /\ next.phase = "reviving" /\ next.held = req[r].held
          /\ next.sid = req[r].sid
      BY <1>2 DEF Request
    <2>3. FilesKept /\ disk'[req[r].sid] # "unused"
      BY <1>2, <1>4 DEF FilesKept, TypeOK, FileStates
    <2>4. sessions'[req[r].sid] = None
      BY <1>1, <1>2 DEF Remembers, OwnersUnchanged
    <2>5. req'[r] = next
      BY <2>1, GotoAt
    <2>6. Remembers(r)'
      BY <2>2, <2>3, <2>4, <2>5 DEF Remembers
    <2>7. QED BY <1>1, <1>2, <2>1, <2>2, <2>3, <2>6, TypesKept, QuietGoto
  <1>5. QED BY <1>3, <1>4 DEF Restored

LEMMA BuriedCore ==
  ASSUME WorkspaceInv, NEW r \in Requests, Buried(r)
  PROVE  Core'
  <1> USE DEF WorkspaceInv
  <1>1. /\ IsTurn(r) /\ UNCHANGED <<sessions, ctl, generation, disk>>
        /\ EnvironmentUnchanged /\ req[r].phase = "burying"
        /\ unannounced' \subseteq Sessions /\ generation' \in Revisions
    BY DEF Buried, At, TypeOK
  <1>2. req[r].sid \in Sessions /\ Remembers(r) /\ req[r] \in Request
    BY <1>1, TurnSession DEF Waiting, TypeOK
  <1>3. CASE Goto(r, [req[r] EXCEPT !.phase = "refreshing", !.wait = {}])
    BY <1>1, <1>2, <1>3, ToRefreshing, SameFilesKept
  <1>4. CASE Goto(r, [req[r] EXCEPT !.phase = "restoring", !.wait = {}])
    <2> DEFINE next == [req[r] EXCEPT !.phase = "restoring", !.wait = {}]
    <2>1. next \in Request
      BY PhaseType DEF Phases
    <2>2. /\ next.phase = "restoring" /\ next.held = req[r].held
          /\ next.sid = req[r].sid
      BY <1>2 DEF Request
    <2>3. sessions'[req[r].sid] = None /\ disk'[req[r].sid] # "unused"
      BY <1>1, <1>2 DEF Remembers
    <2>4. req'[r] = next
      BY <1>4, GotoAt
    <2>5. Remembers(r)'
      BY <2>2, <2>3, <2>4 DEF Remembers
    <2>6. QED BY <1>1, <1>2, <1>4, <2>1, <2>2, <2>5, SameFilesKept, QuietGoto
  <1>5. QED BY <1>3, <1>4 DEF Buried

LEMMA RenamedCore ==
  ASSUME WorkspaceInv, NEW r \in Requests, Renamed(r)
  PROVE  Core'
  <1> USE DEF WorkspaceInv
  <1> DEFINE s == req[r].sid
  <1>1. IsTurn(r) /\ EnvironmentUnchanged /\ req[r].phase = "renaming"
    BY DEF Renamed, At
  <1>2. s \in Sessions /\ Remembers(r) /\ req[r] \in Request
    BY <1>1, TurnSession DEF Waiting, TypeOK
  <1>3. CASE Settle(r) /\ UNCHANGED disk /\ OwnersUnchanged
    BY <1>1, <1>3, SameFilesKept, TypesKept, QuietSettle
  <1>4. ASSUME disk' = [disk EXCEPT ![s] = "deleted"]
        PROVE  FilesKept /\ disk'[s] # "unused"
    BY <1>2, <1>4 DEF FilesKept, TypeOK, FileStates
  <1>5. CASE /\ disk' = [disk EXCEPT ![s] = "deleted"]
             /\ Goto(r, [req[r] EXCEPT !.phase = "refreshing"])
             /\ OwnersUnchanged
    BY <1>1, <1>2, <1>4, <1>5, ToRefreshing, TypesKept
  <1>6. CASE /\ req[r].old # None
             /\ disk' = [disk EXCEPT ![s] = "deleted"]
             /\ \E g \in Revisions :
                  /\ generation' = g
                  /\ Goto(r, [req[r] EXCEPT !.phase = "burying", !.rev = g,
                                            !.wait = {sessions[s]}])
             /\ sessions' = [sessions EXCEPT ![s] = None]
             /\ ctl' = [ctl EXCEPT ![sessions[s]] = Doomed(sessions[s])]
             /\ unannounced' = unannounced \union {s}
    <2>1. PICK g \in Revisions :
                  /\ generation' = g
                  /\ Goto(r, [req[r] EXCEPT !.phase = "burying", !.rev = g,
                                            !.wait = {sessions[s]}])
      BY <1>6
    <2> DEFINE next == [req[r] EXCEPT !.phase = "burying", !.rev = g,
                                      !.wait = {sessions[s]}]
    <2>2. sessions[s] \in Controllers
      BY <1>1, <1>2, <1>6 DEF Remembers, TypeOK
    <2>3. next \in Request
      <3>1. {sessions[s]} \in SUBSET Controllers /\ "burying" \in Phases
        BY <2>2 DEF Phases
      <3>2. QED BY <1>2, <3>1 DEF Request
    <2>4. /\ next.phase = "burying" /\ next.held = req[r].held /\ next.sid = s
      BY <1>2 DEF Request
    <2>5. Doomed(sessions[s]) \in Controller /\ Doomed(sessions[s]).state = "disposing"
      BY <2>2, DoomedType
    <2>6. StateType'
      BY <1>1, <1>2, <1>4, <1>6, <2>1, <2>2, <2>3, <2>5, GotoType
      DEF StateType, TypeOK, FilesKept, EnvironmentUnchanged
    <2>7. /\ \A t \in Sessions : sessions'[t] = IF t = s THEN None ELSE sessions[t]
          /\ \A d \in Controllers :
               IF d = sessions[s] THEN ctl'[d].state = "disposing" ELSE ctl'[d] = ctl[d]
      BY <1>6, <2>2, <2>5 DEF TypeOK
    <2>8. LiveIffOwner'
      <3>1. ASSUME NEW d \in Controllers, ctl'[d].state = "live"
            PROVE  ctl'[d].sid \in Sessions /\ sessions'[ctl'[d].sid] = d
        BY <2>7, <3>1 DEF LiveIffOwner
      <3>2. ASSUME NEW t \in Sessions, sessions'[t] # None
            PROVE  ctl'[sessions'[t]].state = "live" /\ ctl'[sessions'[t]].sid = t
        <4>1. t # s /\ sessions'[t] = sessions[t] /\ sessions[t] \in Controllers
          BY <2>7, <3>2 DEF TypeOK
        <4>2. ctl[sessions[t]].state = "live" /\ ctl[sessions[t]].sid = t
          BY <3>2, <4>1 DEF LiveIffOwner
        <4>3. ctl[sessions[s]].sid = s
          BY <1>2, <2>2, WorkspaceAssumption DEF LiveIffOwner
        <4>4. QED BY <2>7, <4>1, <4>2, <4>3
      <3>3. QED BY <3>1, <3>2 DEF LiveIffOwner
    <2>9. OwnersHaveFiles'
      BY <1>4, <1>6, <2>7 DEF OwnersHaveFiles, Loaded, FilesKept
    <2>10. req'[r] = next
      BY <2>1, GotoAt
    <2>11. sessions'[s] = None /\ disk'[s] # "unused"
      BY <1>2, <1>4, <1>6, <2>7
    <2>12. Remembers(r)'
      BY <2>4, <2>10, <2>11 DEF Remembers
    <2>13. QED
      BY <1>1, <1>2, <2>1, <2>3, <2>4, <2>6, <2>8, <2>9, <2>12, GotoKeeps DEF Core
  <1>7. QED BY <1>3, <1>5, <1>6 DEF Renamed

(* A replacement takes over from the old owner, if there still is one. *)
LEMMA TakeoverLive ==
  ASSUME WorkspaceInv, NEW c \in Fresh, NEW s \in Sessions,
         sessions' = [sessions EXCEPT ![s] = c],
         ctl'[c].state = "live", ctl'[c].sid = s,
         \A d \in Controllers \ {c} :
            IF d = sessions[s] THEN ctl'[d].state # "live" ELSE ctl'[d] = ctl[d]
  PROVE  LiveIffOwner'
  <1> USE DEF WorkspaceInv
  <1>1. c \in Controllers /\ ctl[c].state = "unborn"
    BY DEF Fresh, Unborn
  <1>2. ctl'[c].state = "live" /\ ctl'[c].sid = s
    OBVIOUS
  <1>3. \A t \in Sessions : sessions'[t] = IF t = s THEN c ELSE sessions[t]
    BY DEF TypeOK
  <1>4. ASSUME NEW d \in Controllers, ctl'[d].state = "live"
        PROVE  ctl'[d].sid \in Sessions /\ sessions'[ctl'[d].sid] = d
    <2>1. CASE d = c
      BY <1>2, <1>3, <2>1
    <2>2. CASE d # c
      <3>1. d # sessions[s] /\ ctl'[d] = ctl[d]
        BY <1>4, <2>2
      <3>2. ctl[d].sid \in Sessions /\ sessions[ctl[d].sid] = d
        BY <1>4, <3>1 DEF LiveIffOwner
      <3>3. QED BY <1>3, <3>1, <3>2
    <2>3. QED BY <2>1, <2>2
  <1>5. ASSUME NEW t \in Sessions, sessions'[t] # None
        PROVE  ctl'[sessions'[t]].state = "live" /\ ctl'[sessions'[t]].sid = t
    <2>1. CASE t = s
      BY <1>2, <1>3, <2>1
    <2>2. CASE t # s
      <3>1. sessions'[t] = sessions[t] /\ sessions[t] \in Controllers
        BY <1>3, <1>5, <2>2 DEF TypeOK
      <3>2. ctl[sessions[t]].state = "live" /\ ctl[sessions[t]].sid = t
        BY <1>5, <3>1 DEF LiveIffOwner
      <3>3. sessions[t] # c
        BY <1>1, <3>2
      <3>4. sessions[t] # sessions[s]
        BY <2>2, <3>1, <3>2, WorkspaceAssumption DEF LiveIffOwner
      <3>5. QED BY <3>1, <3>2, <3>3, <3>4
    <2>3. QED BY <2>1, <2>2
  <1>6. QED BY <1>4, <1>5 DEF LiveIffOwner

LEMMA ReplacementOpenedCore ==
  ASSUME WorkspaceInv, NEW r \in Requests, ReplacementOpened(r)
  PROVE  Core'
  <1> USE DEF WorkspaceInv
  <1> DEFINE s == req[r].sid
  <1> DEFINE old == req[r].old
  <1> DEFINE new == NewController(s, req[r].rev)
  <1>1. /\ IsTurn(r) /\ s \in Sessions /\ Remembers(r) /\ req[r] \in Request
        /\ req[r].phase \in {"replacing", "recovering", "reviving"}
    BY ReplacingSession DEF ReplacementOpened
  <1>2. PICK c \in Fresh :
         /\ sessions' = [sessions EXCEPT ![s] = c]
         /\ unannounced' = unannounced \ {s}
         /\ IF req[r].phase = "reviving"
            THEN /\ ctl' = [ctl EXCEPT ![c] = new]
                 /\ Settle(r)
            ELSE /\ ctl' = [ctl EXCEPT ![c] = new, ![old] = Doomed(old)]
                 /\ Goto(r, [req[r] EXCEPT !.phase = "retiring", !.wait = {old}])
    BY DEF ReplacementOpened
  <1>3. /\ UNCHANGED <<generation, disk>> /\ EnvironmentUnchanged
    BY DEF ReplacementOpened
  <1>4. c \in Controllers /\ ctl[c].state = "unborn"
    BY DEF Fresh, Unborn
  <1>5. req[r].rev \in Revisions /\ new \in Controller
    BY <1>1, NewControllerType DEF Request
  <1>6. /\ sessions' \in [Sessions -> Controllers \union {None}]
        /\ unannounced' \subseteq Sessions
        /\ \A t \in Sessions : sessions'[t] = IF t = s THEN c ELSE sessions[t]
    BY <1>2, <1>4 DEF TypeOK
  <1>7. CASE req[r].phase = "reviving"
    <2>1. sessions[s] = None /\ disk[s] # "unused"
      BY <1>1, <1>7 DEF Remembers
    <2>2. ctl' \in [Controllers -> Controller]
      BY <1>2, <1>5, <1>7 DEF TypeOK
    <2>3. \A d \in Controllers : IF d = c THEN ctl'[d] = new ELSE ctl'[d] = ctl[d]
      BY <1>2, <1>4, <1>7 DEF TypeOK
    <2>4. /\ ctl'[c].state = "live" /\ ctl'[c].sid = s
          /\ \A d \in Controllers \ {c} :
               IF d = sessions[s] THEN ctl'[d].state # "live" ELSE ctl'[d] = ctl[d]
      BY <1>4, <2>1, <2>3, WorkspaceAssumption DEF NewController
    <2>5. LiveIffOwner'
      BY <1>1, <1>2, <2>4, TakeoverLive
    <2>6. StateType'
      BY <1>1, <1>2, <1>3, <1>6, <1>7, <2>2, SettleType
      DEF TypeOK, StateType, EnvironmentUnchanged
    <2>7. OwnersHaveFiles'
      BY <1>3, <1>6, <2>1 DEF OwnersHaveFiles, Loaded
    <2>8. QED BY <1>1, <1>2, <1>7, <2>5, <2>6, <2>7, SettleKeeps DEF Core
  <1>8. CASE req[r].phase # "reviving"
    <2> DEFINE next == [req[r] EXCEPT !.phase = "retiring", !.wait = {old}]
    <2>1. old # None /\ sessions[s] = old /\ old \in Controllers
      BY <1>1, <1>8 DEF Remembers, OldKept, Request
    <2>2. Doomed(old) \in Controller /\ Doomed(old).state = "disposing"
      BY <2>1, DoomedType
    <2>3. old # c
      BY <1>1, <1>4, <2>1 DEF LiveIffOwner
    <2>4. ctl' = [ctl EXCEPT ![c] = new, ![old] = Doomed(old)]
      BY <1>2, <1>8
    <2>5. ctl' \in [Controllers -> Controller]
      BY <1>5, <2>2, <2>4 DEF TypeOK
    <2>6. /\ ctl'[c].state = "live" /\ ctl'[c].sid = s
          /\ \A d \in Controllers \ {c} :
               IF d = sessions[s] THEN ctl'[d].state # "live" ELSE ctl'[d] = ctl[d]
      BY <1>4, <2>1, <2>2, <2>3, <2>4 DEF TypeOK, NewController
    <2>7. LiveIffOwner'
      BY <1>1, <1>2, <2>6, TakeoverLive
    <2>8. next \in Request
      BY <2>1, PhaseType DEF Phases
    <2>9. next.phase = "retiring" /\ next.held = req[r].held /\ next.sid = s
      BY <1>1 DEF Request
    <2>10. Goto(r, next)
      BY <1>2, <1>8
    <2>11. sessions'[s] # None
      BY <1>1, <1>4, <1>6, WorkspaceAssumption
    <2>12. req'[r] = next
      BY <2>10, GotoAt
    <2>13. Remembers(r)'
      BY <2>9, <2>11, <2>12 DEF Remembers
    <2>14. StateType'
      BY <1>3, <1>6, <2>5, <2>8, <2>10, GotoType
      DEF TypeOK, StateType, EnvironmentUnchanged
    <2>15. OwnersHaveFiles'
      BY <1>1, <1>3, <1>6, <2>1, WorkspaceAssumption DEF OwnersHaveFiles, Loaded
    <2>16. QED
      BY <1>1, <2>7, <2>8, <2>9, <2>10, <2>13, <2>14, <2>15, GotoKeeps DEF Core
  <1>9. QED BY <1>7, <1>8

LEMMA BeginForkCore ==
  ASSUME WorkspaceInv, NEW r \in Requests, BeginFork(r)
  PROVE  Core'
  <1> USE DEF WorkspaceInv
  <1>1. /\ IsTurn(r) /\ OwnersUnchanged /\ EnvironmentUnchanged
        /\ req[r].phase = "queued" /\ req[r].kind = "fork"
    BY DEF BeginFork, At
  <1>2. /\ req[r].sid \in Sessions /\ req[r].held = {} /\ req[r] \in Request
    BY <1>1 DEF OneMutationRuns, Waiting, TypeOK
  <1>3. CASE Settle(r) /\ UNCHANGED disk
    BY <1>1, <1>3, SameFilesKept, TypesKept, QuietSettle
  <1>4. CASE \E victim \in Victims({req[r].sid}), n \in Unused,
                phase \in {"validating", "removing"} :
               /\ disk' = [disk EXCEPT ![n] = "present"]
               /\ Goto(r, [req[r] EXCEPT !.phase = phase, !.sid = n,
                             !.victim = victim, !.held = SessionOf(victim)])
    <2>1. PICK victim \in Victims({req[r].sid}), n \in Unused,
               phase \in {"validating", "removing"} :
               /\ disk' = [disk EXCEPT ![n] = "present"]
               /\ Goto(r, [req[r] EXCEPT !.phase = phase, !.sid = n,
                             !.victim = victim, !.held = SessionOf(victim)])
      BY <1>4
    <2> DEFINE next == [req[r] EXCEPT !.phase = phase, !.sid = n,
                             !.victim = victim, !.held = SessionOf(victim)]
    <2>2. n \in Sessions /\ FilesKept
      BY <2>1 DEF Unused, FilesKept, TypeOK, FileStates
    <2>3. /\ victim \in Controllers \union {None}
          /\ SessionOf(victim) \in SUBSET Sessions
          /\ victim # None => ctl[victim].sid \in Sessions
                                /\ sessions[ctl[victim].sid] = victim
      BY <1>2, VictimType DEF Typed
    <2>4. next \in Request
      <3>1. phase \in Phases
        BY DEF Phases
      <3>2. QED BY <1>2, <2>2, <2>3, <3>1 DEF Request
    <2>5. /\ next.phase = phase /\ next.kind = "fork" /\ next.sid = n
          /\ next.victim = victim /\ next.held = SessionOf(victim)
      BY <1>1, <1>2 DEF Request
    <2>6. req'[r] = next
      BY <2>1, GotoAt
    <2>7. UNCHANGED <<sessions, ctl>>
      BY <1>1 DEF OwnersUnchanged
    <2>8. CandidateKept(r)' /\ req'[r].held = SessionOf(req[r].victim)'
      BY <2>3, <2>5, <2>6, <2>7 DEF CandidateKept, SessionOf
    <2>9. Remembers(r)'
      BY <2>5, <2>6, <2>8 DEF Remembers
    <2>10. QED
      BY <1>1, <1>2, <2>1, <2>2, <2>4, <2>5, <2>9, TypesKept, QuietGoto
  <1>5. QED BY <1>3, <1>4 DEF BeginFork

LEMMA ForkFileRemovedCore ==
  ASSUME WorkspaceInv, NEW r \in Requests, ForkFileRemoved(r)
  PROVE  Core'
  <1> USE DEF WorkspaceInv
  <1>1. /\ IsTurn(r) /\ OwnersUnchanged /\ EnvironmentUnchanged
        /\ req[r].phase = "removing"
    BY DEF ForkFileRemoved, At
  <1>2. req[r].sid \in Sessions
    BY <1>1, TurnSession DEF Waiting
  <1>3. CASE /\ disk' = [disk EXCEPT ![req[r].sid] = "removed"]
             /\ Settle(r)
    <2>1. FilesKept
      BY <1>2, <1>3 DEF FilesKept, TypeOK, FileStates
    <2>2. QED BY <1>1, <1>3, <2>1, TypesKept, QuietSettle
  <1>4. CASE Goto(r, [req[r] EXCEPT !.phase = "orphaned"]) /\ UNCHANGED disk
    BY <1>1, <1>2, <1>4, SameFilesKept, TypesKept, ToRefreshing
  <1>5. QED BY <1>3, <1>4 DEF ForkFileRemoved

LEMMA BeginDisposeAllCore ==
  ASSUME WorkspaceInv, NEW r \in Requests, BeginDisposeAll(r)
  PROVE  Core'
  <1> USE DEF WorkspaceInv
  <1> DEFINE owners == {sessions[s] : s \in Loaded}
  <1> DEFINE next == [req[r] EXCEPT !.phase = "closing", !.wait = owners]
  <1>1. /\ IsTurn(r) /\ Goto(r, next) /\ EnvironmentUnchanged /\ UNCHANGED disk
        /\ req[r].phase = "queued" /\ generation' \in Revisions
        /\ ctl' = [c \in Controllers |-> IF c \in owners THEN Doomed(c) ELSE ctl[c]]
        /\ sessions' = [s \in Sessions |-> None]
        /\ unannounced' = unannounced \union Loaded
    BY DEF BeginDisposeAll, At
  <1>2. req[r] \in Request
    BY DEF TypeOK
  <1>3. owners \in SUBSET Controllers
    BY DEF Loaded, TypeOK
  <1>4. next \in Request
    BY <1>2, <1>3 DEF Request, Phases
  <1>5. next.phase = "closing" /\ next.held = req[r].held
    BY <1>2 DEF Request
  <1>6. \A c \in Controllers :
          /\ Doomed(c) \in Controller
          /\ Doomed(c).state = "disposing"
    BY DoomedType
  <1>7. StateType'
    <2>1. ctl' \in [Controllers -> Controller]
      BY <1>1, <1>6 DEF TypeOK
    <2>2. sessions' \in [Sessions -> Controllers \union {None}]
      BY <1>1
    <2>3. unannounced' \subseteq Sessions
      BY <1>1 DEF TypeOK, Loaded
    <2>4. disk' \in [Sessions -> FileStates] /\ raced' \subseteq Sessions
          /\ protected' \subseteq Sessions
      BY <1>1 DEF TypeOK, EnvironmentUnchanged
    <2>5. QED BY <1>1, <1>4, <2>1, <2>2, <2>3, <2>4, GotoType DEF StateType
  <1>8. LiveIffOwner'
    <2>1. \A c \in Controllers : ctl'[c].state # "live"
      <3> SUFFICES ASSUME NEW c \in Controllers PROVE ctl'[c].state # "live"
        OBVIOUS
      <3>1. CASE c \in owners
        BY <1>1, <1>6, <3>1
      <3>2. CASE c \notin owners
        <4>1. ctl[c].state # "live"
          BY <3>2, WorkspaceAssumption DEF LiveIffOwner, Loaded
        <4>2. QED BY <1>1, <3>2, <4>1
      <3>3. QED BY <3>1, <3>2
    <2>2. \A s \in Sessions : sessions'[s] = None
      BY <1>1
    <2>3. QED BY <2>1, <2>2 DEF LiveIffOwner
  <1>9. OwnersHaveFiles'
    BY <1>1 DEF OwnersHaveFiles, Loaded
  <1>10. Remembers(r)'
    BY <1>1, <1>5, GotoAt DEF Remembers
  <1>11. QED BY <1>1, <1>4, <1>5, <1>7, <1>8, <1>9, <1>10, GotoKeeps DEF Core

LEMMA BeginRevertCore ==
  ASSUME WorkspaceInv, NEW r \in Requests, BeginRevert(r)
  PROVE  Core'
  <1> USE DEF WorkspaceInv
  <1> DEFINE s == req[r].sid
  <1>1. /\ IsTurn(r) /\ UNCHANGED <<sessions, unannounced, disk>>
        /\ EnvironmentUnchanged
        /\ req[r].phase = "queued" /\ req[r].kind = "revert"
    BY DEF BeginRevert, At
  <1>2. s \in Sessions /\ req[r].held = {} /\ req[r] \in Request
    BY <1>1 DEF OneMutationRuns, Waiting, TypeOK
  <1>3. FilesKept /\ unannounced' \subseteq Sessions
    BY <1>1, SameFilesKept DEF TypeOK
  <1>4. CASE Settle(r) /\ UNCHANGED ctl /\ generation' \in Revisions
    BY <1>1, <1>3, <1>4, QuietSettle
  <1>5. CASE \E g \in Revisions :
               /\ generation' = g
               /\ Mutable(s)
               /\ ctl' = [ctl EXCEPT ![sessions[s]].rev = g]
               /\ Goto(r, [req[r] EXCEPT !.phase = "replacing", !.rev = g,
                                         !.old = sessions[s], !.held = {s}])
    <2>1. PICK g \in Revisions :
               /\ generation' = g
               /\ Mutable(s)
               /\ ctl' = [ctl EXCEPT ![sessions[s]].rev = g]
               /\ Goto(r, [req[r] EXCEPT !.phase = "replacing", !.rev = g,
                                         !.old = sessions[s], !.held = {s}])
      BY <1>5
    <2> DEFINE next == [req[r] EXCEPT !.phase = "replacing", !.rev = g,
                                      !.old = sessions[s], !.held = {s}]
    <2>2. sessions[s] \in Controllers /\ sessions[s] # None
      BY <1>2, <2>1 DEF Mutable, Loaded, TypeOK
    <2>3. next \in Request
      <3>1. "replacing" \in Phases /\ {s} \in SUBSET Sessions
        BY <1>2 DEF Phases
      <3>2. QED BY <1>2, <2>2, <3>1 DEF Request
    <2>4. /\ next.phase = "replacing" /\ next.old = sessions[s]
          /\ next.held = {s} /\ next.sid = s
      BY <1>2 DEF Request
    <2>5. ctl' = [ctl EXCEPT ![sessions[s]].rev = g]
      BY <2>1
    <2>6. /\ ctl' \in [Controllers -> Controller]
          /\ \A d \in Controllers : ctl'[d].state = ctl[d].state /\ ctl'[d].sid = ctl[d].sid
      BY <2>2, <2>5, RevisionChanged
    <2>7. StateType'
      BY <1>1, <1>3, <2>1, <2>3, <2>6, GotoType
      DEF TypeOK, StateType, FilesKept, EnvironmentUnchanged
    <2>8. LiveIffOwner' /\ OwnersHaveFiles'
      BY <1>1, <2>6 DEF LiveIffOwner, OwnersHaveFiles, Loaded, TypeOK
    <2>9. req'[r] = next
      BY <2>1, GotoAt
    <2>10. OldKept(r)'
      BY <1>1, <2>2, <2>4, <2>9 DEF OldKept
    <2>11. Remembers(r)'
      BY <2>4, <2>9, <2>10 DEF Remembers
    <2>12. QED
      BY <1>1, <1>2, <2>1, <2>3, <2>4, <2>7, <2>8, <2>11, GotoKeeps DEF Core
  <1>6. QED BY <1>4, <1>5 DEF BeginRevert, TypeOK

LEMMA StepCore == \A r \in Requests : WorkspaceInv /\ Step(r) => Core'
  BY BeginCreateCore, BeginValidationCore, RefusedCore, OpenValidatedCore,
     OpenedCore, DiscardedCore, EvictedCore, RefreshedCore, RenameValidatedCore,
     DeleteValidatedCore, ResolvedCore, RenamedCore, BuriedCore, RestoredCore,
     ReplacementFailedCore, ReplacementMismatchedCore, ReplacementOpenedCore,
     RetiredCore, BeginForkCore, ForkFileRemovedCore, BeginRevertCore,
     BeginDisposeAllCore, ClosedCore
  DEF Step

-------------------------------------------------------------------------------
(* The invariant *)

LEMMA InitInv == Init => WorkspaceInv
  <1> SUFFICES ASSUME Init PROVE WorkspaceInv
    OBVIOUS
  <1> USE DEF Init
  <1>1. [NewController(None, 0) EXCEPT !.state = "unborn"] \in Controller
        /\ [NewController(None, 0) EXCEPT !.state = "unborn"].state = "unborn"
    BY WorkspaceAssumption DEF NewController, Controller, Revisions
  <1>2. TypeOK
    BY <1>1, FreeRequestType, WorkspaceAssumption DEF TypeOK, FileStates, Revisions
  <1>3. LiveIffOwner /\ OwnersHaveFiles
    BY <1>1 DEF LiveIffOwner, OwnersHaveFiles, Loaded
  <1>4. \A q \in Requests :
          req[q].phase = "free" /\ req[q].held = {} /\ req[q].old = None
    BY DEF FreeRequest
  <1>5. OneMutationRuns
    BY <1>4 DEF OneMutationRuns, Waiting
  <1>6. \A q \in Requests : Remembers(q)
    BY <1>4 DEF Remembers
  <1>7. ReservationsHeldByRunning
    BY DEF ReservationsHeldByRunning
  <1>8. QED BY <1>2, <1>3, <1>5, <1>6, <1>7 DEF WorkspaceInv

(* What browsers have seen stays a revision. *)
LEMMA ReportType ==
  ASSUME WorkspaceInv, Core', Report
  PROVE  seen' \in [Sessions -> Revisions]
  <1>1. \A s \in Sessions :
          sessions'[s] # None => ctl'[sessions'[s]].rev \in Revisions
    BY DEF Core, StateType, Controller
  <1>2. seen \in [Sessions -> Revisions]
    BY DEF WorkspaceInv, TypeOK
  <1>3. QED BY <1>1, <1>2 DEF Report

LEMMA NextReports == Next => Report
  <1>1. ASSUME NEW r \in Requests, Step(r) PROVE EnvironmentUnchanged
    BY <1>1
    DEF Step, BeginCreate, BeginValidation, Refused, OpenValidated, Opened,
        Discarded, Evicted, Refreshed, RenameValidated, DeleteValidated, Resolved,
        Renamed, Buried, Restored, ReplacementFailed, ReplacementMismatched,
        ReplacementOpened, Retired, BeginFork, ForkFileRemoved, BeginRevert,
        BeginDisposeAll, Closed
  <1>2. ASSUME Environment PROVE Report
    BY <1>2
    DEF Environment, Enqueue, DisposeSettled, Visibility, Progress, WorkSettled,
        Submit, FocusMoved, EnvironmentUnchanged
  <1>3. QED BY <1>1, <1>2 DEF Next, EnvironmentUnchanged

LEMMA NextInv == WorkspaceInv /\ [Next]_vars => WorkspaceInv'
  <1> SUFFICES ASSUME WorkspaceInv, [Next]_vars PROVE WorkspaceInv'
    OBVIOUS
  <1>1. CASE Next
    <2>1. Core'
      BY <1>1, EnvironmentCore, StepCore DEF Next
    <2>2. seen' \in [Sessions -> Revisions]
      BY <1>1, <2>1, NextReports, ReportType
    <2>3. QED BY <2>1, <2>2 DEF Core, StateType, WorkspaceInv, TypeOK
  <1>2. CASE UNCHANGED vars
    <2>1. TypeOK' /\ LiveIffOwner' /\ OwnersHaveFiles'
      BY <1>2 DEF vars, WorkspaceInv, TypeOK, LiveIffOwner, OwnersHaveFiles, Loaded
    <2>2. OneMutationRuns' /\ ReservationsHeldByRunning'
      BY <1>2 DEF vars, WorkspaceInv, OneMutationRuns, IsTurn, Waiting,
                  ReservationsHeldByRunning
    <2>3. ASSUME NEW q \in Requests PROVE Remembers(q)'
      BY <1>2 DEF vars, WorkspaceInv, Remembers, CandidateKept, OldKept, SessionOf
    <2>4. QED BY <2>1, <2>2, <2>3 DEF WorkspaceInv
  <1>3. QED BY <1>1, <1>2

(* The inductive invariant holds in every reachable state: among the owners, *)
(* the queue and what the running mutation remembers across its awaits.      *)
THEOREM WorkspaceInvariant == Spec => []WorkspaceInv
  BY InitInv, NextInv, PTL DEF Spec

(* The state of the workspace keeps its types. *)
THEOREM TypeCorrect == Spec => []TypeOK
  <1>1. WorkspaceInv => TypeOK
    BY DEF WorkspaceInv
  <1>2. QED BY <1>1, WorkspaceInvariant, PTL

(* The usable controllers are exactly the registered owners, each of its own *)
(* session, whatever fails between two awaits of a lifecycle mutation.       *)
THEOREM OwnershipSound == Spec => []LiveIffOwner
  <1>1. WorkspaceInv => LiveIffOwner
    BY DEF WorkspaceInv
  <1>2. QED BY <1>1, WorkspaceInvariant, PTL

(* Transition reservations belong to the running mutation: when the tail is  *)
(* empty no session is left locked.                                          *)
THEOREM ReservationsReleased == Spec => []ReservationsHeldByRunning
  <1>1. WorkspaceInv => ReservationsHeldByRunning
    BY DEF WorkspaceInv
  <1>2. QED BY <1>1, WorkspaceInvariant, PTL

-------------------------------------------------------------------------------
(* The strengthening *)

Back == {"burying", "restoring", "reviving"}

(* Sessions out of the Map that the running soft delete may still revive. *)
Returning ==
    {s \in Sessions : \E q \in Requests : req[q].phase \in Back /\ req[q].sid = s}

Places == Loaded \union Returning

PlacesBounded == Cardinality(Places) <= MaxLoaded

LEMMA FiniteSessions ==
  ASSUME NEW S \in SUBSET Sessions
  PROVE  IsFiniteSet(S) /\ Cardinality(S) \in Nat
  <1>1. IsFiniteSet(S)
    BY WorkspaceAssumption, FS_Subset
  <1>2. QED BY <1>1, FS_CardinalityType

LEMMA OneMore ==
  ASSUME NEW S, NEW x, IsFiniteSet(S)
  PROVE  /\ IsFiniteSet(S \union {x})
         /\ Cardinality(S \union {x}) \in Nat
         /\ Cardinality(S \union {x}) <= Cardinality(S) + 1
  <1>1. IsFiniteSet(S \union {x}) /\ Cardinality(S) \in Nat
    BY FS_AddElement, FS_CardinalityType
  <1>2. Cardinality(S \union {x}) =
          IF x \in S THEN Cardinality(S) ELSE Cardinality(S) + 1
    BY FS_AddElement
  <1>3. QED BY <1>1, <1>2

LEMMA PlacesAreSessions ==
  /\ Loaded \in SUBSET Sessions /\ Loaded' \in SUBSET Sessions
  /\ Places \in SUBSET Sessions /\ Places' \in SUBSET Sessions
  BY DEF Loaded, Places, Returning

(* Most pieces take no place that was not counted before them. *)
LEMMA NoNewPlace ==
  ASSUME PlacesBounded, Places' \subseteq Places
  PROVE  PlacesBounded'
  <1>1. /\ IsFiniteSet(Places) /\ Cardinality(Places) \in Nat
        /\ IsFiniteSet(Places') /\ Cardinality(Places') \in Nat
    BY PlacesAreSessions, FiniteSessions
  <1>2. Cardinality(Places') <= Cardinality(Places)
    BY <1>1, FS_Subset
  <1>3. MaxLoaded \in Nat /\ Cardinality(Places) <= MaxLoaded
    BY WorkspaceAssumption DEF PlacesBounded
  <1>4. Cardinality(Places') <= MaxLoaded
    BY <1>1, <1>2, <1>3
  <1>5. QED BY <1>4 DEF PlacesBounded

-------------------------------------------------------------------------------
(* The running mutation decides which session may come back *)

(* A piece of mutation r after which r is at no await of a revival; if it    *)
(* has reserved a revision, the revision is above all that were known.       *)
NoRevival(r) ==
    /\ IsTurn(r)
    /\ \A q \in Requests : q # r => req'[q] = req[q]
    /\ req'[r].phase \notin Back
    /\ req'[r].phase \in Reserving => \A k \in KnownRevisions : k < req'[r].rev

LEMMA NoneReturns ==
  ASSUME WorkspaceInv, NEW r \in Requests, NoRevival(r)
  PROVE  Returning' = {}
  <1>1. \A q \in Requests : q # r => req'[q].phase \in {"free", "queued"}
    BY DEF NoRevival, WorkspaceInv, OneMutationRuns, IsTurn, Waiting
  <1>2. QED BY <1>1 DEF NoRevival, Returning, Back

LEMMA SettleNoRevival ==
  ASSUME WorkspaceInv, NEW r \in Requests, IsTurn(r), Settle(r)
  PROVE  NoRevival(r) /\ req'[r].phase \notin Reserving
  BY DEF WorkspaceInv, TypeOK, NoRevival, Settle, FreeRequest, Back, Reserving

LEMMA GotoNoRevival ==
  ASSUME WorkspaceInv, NEW r \in Requests, IsTurn(r),
         NEW next, Goto(r, next), next.phase \notin Reserving
  PROVE  NoRevival(r) /\ req'[r].phase \notin Reserving
  BY DEF WorkspaceInv, TypeOK, NoRevival, Goto, Back, Reserving

LEMMA ReserveNoRevival ==
  ASSUME WorkspaceInv, NEW r \in Requests, IsTurn(r),
         NEW next, Goto(r, next), next.phase \notin Back,
         \A k \in KnownRevisions : k < next.rev
  PROVE  NoRevival(r)
  BY DEF WorkspaceInv, TypeOK, NoRevival, Goto

LEMMA FailNoRevival ==
  ASSUME WorkspaceInv, NEW r \in Requests, IsTurn(r), Fail(r)
  PROVE  NoRevival(r)
  <1>1. CASE req[r].kind = "fork"
    <2> DEFINE next == [req[r] EXCEPT !.phase = "removing", !.wait = {}]
    <2>1. Goto(r, next)
      BY <1>1 DEF Fail
    <2>2. next.phase = "removing"
      BY DEF WorkspaceInv, TypeOK, Request
    <2>3. QED BY <2>1, <2>2, GotoNoRevival DEF Reserving
  <1>2. CASE req[r].kind # "fork"
    BY <1>2, SettleNoRevival DEF Fail
  <1>3. QED BY <1>1, <1>2

-------------------------------------------------------------------------------
(* Pieces that leave the Map alone *)

QuietStep(r) ==
    \/ BeginValidation(r) \/ Refused(r) \/ OpenValidated(r) \/ Discarded(r)
    \/ Evicted(r) \/ Refreshed(r) \/ RenameValidated(r) \/ DeleteValidated(r)
    \/ Resolved(r) \/ ReplacementFailed(r) \/ ReplacementMismatched(r)
    \/ Retired(r) \/ BeginFork(r) \/ ForkFileRemoved(r) \/ BeginRevert(r)
    \/ Closed(r)

LEMMA QuietStepStartsNoRevival ==
  ASSUME WorkspaceInv, NEW r \in Requests, QuietStep(r)
  PROVE  NoRevival(r) /\ UNCHANGED sessions
  <1> USE DEF At, OwnersUnchanged, Back, Reserving
  <1>1. CASE Refreshed(r) \/ ReplacementFailed(r) \/ Closed(r)
    BY <1>1, SettleNoRevival DEF Refreshed, ReplacementFailed, Closed, Replacing
  <1>2. CASE Refused(r) \/ Discarded(r)
    BY <1>2, FailNoRevival DEF Refused, Discarded
  <1>3. CASE BeginValidation(r)
    <2>0. IsTurn(r) /\ UNCHANGED sessions
      BY <1>3 DEF BeginValidation
    <2>1. ASSUME Goto(r, [req[r] EXCEPT !.phase = "validating"])
          PROVE  NoRevival(r)
      BY <2>0, <2>1, GotoNoRevival DEF WorkspaceInv, TypeOK, Goto, Request
    <2> QED BY <1>3, <2>0, <2>1, Zenon DEF BeginValidation
  <1>4. CASE RenameValidated(r)
    <2>0. IsTurn(r) /\ UNCHANGED sessions
      BY <1>4 DEF RenameValidated
    <2>1. ASSUME Goto(r, [req[r] EXCEPT !.phase = "refreshing"])
          PROVE  NoRevival(r)
      BY <2>0, <2>1, GotoNoRevival DEF WorkspaceInv, TypeOK, Goto, Request
    <2> QED BY <1>4, <2>0, <2>1, Zenon DEF RenameValidated
  <1>5. CASE ForkFileRemoved(r)
    <2>0. IsTurn(r) /\ UNCHANGED sessions
      BY <1>5 DEF ForkFileRemoved
    <2>1. ASSUME Goto(r, [req[r] EXCEPT !.phase = "orphaned"])
          PROVE  NoRevival(r)
      BY <2>0, <2>1, GotoNoRevival DEF WorkspaceInv, TypeOK, Goto, Request
    <2> QED BY <1>5, <2>0, <2>1, SettleNoRevival, Zenon DEF ForkFileRemoved
  <1>6. CASE Evicted(r)
    <2>0. IsTurn(r) /\ UNCHANGED sessions
      BY <1>6 DEF Evicted
    <2>1. ASSUME Goto(r, [req[r] EXCEPT !.phase = "refreshing", !.wait = {}])
          PROVE  NoRevival(r)
      BY <2>0, <2>1, GotoNoRevival DEF WorkspaceInv, TypeOK, Goto, Request
    <2> QED BY <1>6, <2>0, <2>1, SettleNoRevival, Zenon DEF Evicted
  <1>7. CASE Retired(r)
    <2>0. IsTurn(r) /\ UNCHANGED sessions
      BY <1>7 DEF Retired
    <2>1. ASSUME Goto(r, [req[r] EXCEPT !.phase = "refreshing", !.wait = {}])
          PROVE  NoRevival(r)
      BY <2>0, <2>1, GotoNoRevival DEF WorkspaceInv, TypeOK, Goto, Request
    <2>2. ASSUME Goto(r, [req[r] EXCEPT !.phase = "renaming", !.wait = {}])
          PROVE  NoRevival(r)
      BY <2>0, <2>2, GotoNoRevival DEF WorkspaceInv, TypeOK, Goto, Request
    <2> QED BY <1>7, <2>0, <2>1, <2>2, SettleNoRevival, Zenon DEF Retired
  <1>8. CASE OpenValidated(r)
    <2>0. IsTurn(r) /\ UNCHANGED sessions
      BY <1>8 DEF OpenValidated
    <2>1. ASSUME NEW victim,
                 Goto(r, [req[r] EXCEPT !.phase = "opening", !.victim = victim,
                              !.held = SessionOf(victim)])
          PROVE  NoRevival(r)
      BY <2>0, <2>1, GotoNoRevival DEF WorkspaceInv, TypeOK, Goto, Request
    <2>2. ASSUME Goto(r, [req[r] EXCEPT !.phase = "opening"])
          PROVE  NoRevival(r)
      BY <2>0, <2>2, GotoNoRevival DEF WorkspaceInv, TypeOK, Goto, Request
    <2> QED BY <1>8, <2>0, <2>1, <2>2, SettleNoRevival, Zenon DEF OpenValidated
  <1>9. CASE Resolved(r)
    <2>0. IsTurn(r) /\ UNCHANGED sessions
      BY <1>9 DEF Resolved
    <2>1. ASSUME Goto(r, [req[r] EXCEPT !.phase = "renaming"])
          PROVE  NoRevival(r)
      BY <2>0, <2>1, GotoNoRevival DEF WorkspaceInv, TypeOK, Goto, Request
    <2>2. ASSUME NEW g \in Revisions, IsNextRevision(g),
                 Goto(r, [req[r] EXCEPT !.phase = "recovering", !.rev = g])
          PROVE  NoRevival(r)
      <3> DEFINE next == [req[r] EXCEPT !.phase = "recovering", !.rev = g]
      <3>1. next.phase = "recovering" /\ next.rev = g
        BY DEF WorkspaceInv, TypeOK, Request
      <3>2. Goto(r, next)
        BY <2>2
      <3> HIDE DEF next
      <3>3. QED BY <2>0, <2>2, <3>1, <3>2, ReserveNoRevival DEF IsNextRevision
    <2> QED BY <1>9, <2>0, <2>1, <2>2, SettleNoRevival, Zenon DEF Resolved
  <1>10. CASE ReplacementMismatched(r)
    <2>0. IsTurn(r) /\ UNCHANGED sessions
      BY <1>10 DEF ReplacementMismatched, Replacing
    <2>1. ASSUME NEW c,
                 Goto(r, [req[r] EXCEPT !.phase = "discarding", !.wait = {c}])
          PROVE  NoRevival(r)
      BY <2>0, <2>1, GotoNoRevival DEF WorkspaceInv, TypeOK, Goto, Request
    <2> QED BY <1>10, <2>0, <2>1, Zenon DEF ReplacementMismatched
  <1>11. CASE DeleteValidated(r)
    <2>0. IsTurn(r) /\ UNCHANGED sessions
      BY <1>11 DEF DeleteValidated
    <2>1. ASSUME Goto(r, [req[r] EXCEPT !.phase = "resolving"])
          PROVE  NoRevival(r)
      BY <2>0, <2>1, GotoNoRevival DEF WorkspaceInv, TypeOK, Goto, Request
    <2>2. ASSUME Goto(r, [req[r] EXCEPT !.phase = "resolving",
                              !.old = sessions[req[r].sid],
                              !.held = {req[r].sid}])
          PROVE  NoRevival(r)
      BY <2>0, <2>2, GotoNoRevival DEF WorkspaceInv, TypeOK, Goto, Request
    <2> QED BY <1>11, <2>0, <2>1, <2>2, Zenon DEF DeleteValidated
  <1>12. CASE BeginFork(r)
    <2>0. IsTurn(r) /\ UNCHANGED sessions
      BY <1>12 DEF BeginFork
    <2>1. ASSUME NEW n, NEW victim, NEW phase \in {"validating", "removing"},
                 Goto(r, [req[r] EXCEPT !.phase = phase, !.sid = n, !.victim = victim,
                              !.held = SessionOf(victim)])
          PROVE  NoRevival(r)
      BY <2>0, <2>1, GotoNoRevival DEF WorkspaceInv, TypeOK, Goto, Request
    <2> QED BY <1>12, <2>0, <2>1, SettleNoRevival, Zenon DEF BeginFork
  <1>13. CASE BeginRevert(r)
    <2>0. IsTurn(r) /\ UNCHANGED sessions
      BY <1>13 DEF BeginRevert
    <2>1. ASSUME NEW g \in Revisions, IsNextRevision(g),
                 Goto(r, [req[r] EXCEPT !.phase = "replacing", !.rev = g,
                              !.old = sessions[req[r].sid],
                              !.held = {req[r].sid}])
          PROVE  NoRevival(r)
      <3> DEFINE next == [req[r] EXCEPT !.phase = "replacing", !.rev = g,
                              !.old = sessions[req[r].sid], !.held = {req[r].sid}]
      <3>1. next.phase = "replacing" /\ next.rev = g
        BY DEF WorkspaceInv, TypeOK, Request
      <3>2. Goto(r, next)
        BY <2>1
      <3> HIDE DEF next
      <3>3. QED BY <2>0, <2>1, <3>1, <3>2, ReserveNoRevival DEF IsNextRevision
    <2> QED BY <1>13, <2>0, <2>1, SettleNoRevival, Zenon DEF BeginRevert
  <1> QED BY <1>1, <1>2, <1>3, <1>4, <1>5, <1>6, <1>7, <1>8,
            <1>9, <1>10, <1>11, <1>12, <1>13 DEF QuietStep

LEMMA QuietPlaces ==
  ASSUME WorkspaceInv, NEW r \in Requests, QuietStep(r)
  PROVE  Places' \subseteq Places
  BY QuietStepStartsNoRevival, NoneReturns DEF Places, Loaded

-------------------------------------------------------------------------------
(* A soft delete that takes the owner out and may bring the session back *)

(* Only the session of the running mutation can be on its way back. *)
LEMMA OneReturns ==
  ASSUME WorkspaceInv, NEW r \in Requests, IsTurn(r), NEW next, Goto(r, next)
  PROVE  Returning' \subseteq {next.sid}
  <1>1. req'[r] = next
    BY GotoAt DEF WorkspaceInv
  <1>2. \A q \in Requests : q # r => req'[q].phase \in {"free", "queued"}
    BY DEF WorkspaceInv, TypeOK, OneMutationRuns, IsTurn, Waiting, Goto
  <1>3. QED BY <1>1, <1>2 DEF Returning, Back

LEMMA RenamedPlaces ==
  ASSUME WorkspaceInv, NEW r \in Requests, Renamed(r)
  PROVE  Places' \subseteq Places
  <1> DEFINE s == req[r].sid
  <1>1. IsTurn(r) /\ req[r].phase = "renaming"
    BY DEF Renamed, At
  <1>2. CASE Settle(r) /\ OwnersUnchanged
    BY <1>1, <1>2, SettleNoRevival, NoneReturns DEF Places, Loaded, OwnersUnchanged
  <1>3. CASE Goto(r, [req[r] EXCEPT !.phase = "refreshing"]) /\ OwnersUnchanged
    <2>1. NoRevival(r)
      BY <1>1, <1>3, GotoNoRevival DEF WorkspaceInv, TypeOK, Goto, Request, Reserving
    <2>2. QED BY <1>3, <2>1, NoneReturns DEF Places, Loaded, OwnersUnchanged
  <1>4. ASSUME req[r].old # None, NEW g, sessions' = [sessions EXCEPT ![s] = None],
               Goto(r, [req[r] EXCEPT !.phase = "burying", !.rev = g,
                                      !.wait = {sessions[s]}])
        PROVE  Places' \subseteq Places
    <2> DEFINE next == [req[r] EXCEPT !.phase = "burying", !.rev = g,
                                      !.wait = {sessions[s]}]
    <2>1. next.sid = s
      BY DEF WorkspaceInv, TypeOK, Request
    <2>2. Returning' \subseteq {s}
      BY <1>1, <1>4, <2>1, OneReturns
    <2>3. s \in Loaded
      BY <1>1, <1>4 DEF WorkspaceInv, Remembers, OneMutationRuns, Waiting, Loaded
    <2>4. Loaded' \subseteq Loaded
      BY <1>4 DEF Loaded, WorkspaceInv, TypeOK
    <2>5. QED BY <2>2, <2>3, <2>4 DEF Places
  <1>5. QED BY <1>2, <1>3, <1>4, Zenon DEF Renamed

(* The mutation stays at the awaits of the revival of its session. *)
LEMMA RevivalGoesOn ==
  ASSUME WorkspaceInv, NEW r \in Requests, IsTurn(r), req[r].phase \in Back,
         NEW next, Goto(r, next), next.sid = req[r].sid, UNCHANGED sessions
  PROVE  Places' \subseteq Places
  <1>1. Returning' \subseteq {req[r].sid}
    BY OneReturns
  <1>2. req[r].sid \in Returning
    BY DEF WorkspaceInv, OneMutationRuns, Waiting, Returning, Back
  <1>3. QED BY <1>1, <1>2 DEF Places, Loaded

LEMMA RevivalPlaces ==
  ASSUME WorkspaceInv, NEW r \in Requests, Buried(r) \/ Restored(r)
  PROVE  Places' \subseteq Places
  <1>1. IsTurn(r) /\ req[r].phase \in Back /\ UNCHANGED sessions
    BY DEF Buried, Restored, At, OwnersUnchanged, Back
  <1>2. CASE Settle(r)
    BY <1>1, <1>2, SettleNoRevival, NoneReturns DEF Places, Loaded
  <1>3. ASSUME NEW next, Goto(r, next), next.sid = req[r].sid
        PROVE  Places' \subseteq Places
    BY <1>1, <1>3, RevivalGoesOn
  <1>4. req[r] \in Request
    BY DEF WorkspaceInv, TypeOK
  <1>5. /\ [req[r] EXCEPT !.phase = "refreshing", !.wait = {}].sid = req[r].sid
        /\ [req[r] EXCEPT !.phase = "restoring", !.wait = {}].sid = req[r].sid
        /\ [req[r] EXCEPT !.phase = "reviving"].sid = req[r].sid
    BY <1>4 DEF Request
  <1>6. QED BY <1>2, <1>3, <1>5, Zenon DEF Buried, Restored

(* The replacement comes where the session was, or was coming back to. *)
LEMMA ReplacementPlaces ==
  ASSUME WorkspaceInv, NEW r \in Requests, ReplacementOpened(r)
  PROVE  Places' \subseteq Places
  <1> DEFINE s == req[r].sid
  <1>1. /\ IsTurn(r) /\ req[r].phase \in {"replacing", "recovering", "reviving"}
        /\ \E c \in Controllers : sessions' = [sessions EXCEPT ![s] = c]
    BY DEF ReplacementOpened, Replacing, At, Fresh, Unborn
  <1>2. s \in Sessions
    BY <1>1 DEF WorkspaceInv, OneMutationRuns, Waiting
  <1>3. s \in Places
    <2>1. CASE req[r].phase = "reviving"
      BY <1>2, <2>1 DEF Places, Returning, Back
    <2>2. CASE req[r].phase # "reviving"
      BY <1>1, <1>2, <2>2 DEF WorkspaceInv, Remembers, OldKept, Places, Loaded
    <2>3. QED BY <2>1, <2>2
  <1>4. Loaded' \subseteq Loaded \union {s}
    BY <1>1 DEF Loaded, WorkspaceInv, TypeOK
  <1>5. Returning' \subseteq {s}
    <2>1. CASE Settle(r)
      BY <1>1, <2>1, SettleNoRevival, NoneReturns
    <2>2. CASE Goto(r, [req[r] EXCEPT !.phase = "retiring", !.wait = {req[r].old}])
      <3>1. [req[r] EXCEPT !.phase = "retiring", !.wait = {req[r].old}].sid = s
        BY DEF WorkspaceInv, TypeOK, Request
      <3>2. QED BY <1>1, <2>2, <3>1, OneReturns
    <2>3. QED BY <2>1, <2>2, Zenon DEF ReplacementOpened
  <1>6. QED BY <1>3, <1>4, <1>5 DEF Places

LEMMA DisposeAllPlaces ==
  ASSUME WorkspaceInv, NEW r \in Requests, BeginDisposeAll(r)
  PROVE  Places' \subseteq Places
  <1> DEFINE owners == {sessions[s] : s \in Loaded}
             next == [req[r] EXCEPT !.phase = "closing", !.wait = owners]
  <1>1. IsTurn(r) /\ Goto(r, next) /\ sessions' = [s \in Sessions |-> None]
    BY DEF BeginDisposeAll, At
  <1>2. next.phase = "closing"
    BY DEF WorkspaceInv, TypeOK, Request
  <1>3. Returning' = {}
    BY <1>1, <1>2, GotoNoRevival, NoneReturns DEF Reserving
  <1>4. Loaded' = {}
    BY <1>1 DEF Loaded
  <1>5. QED BY <1>3, <1>4 DEF Places
-------------------------------------------------------------------------------
(* Registration: one owner in, and one out when there was no room *)

(* No session is on its way back when the running mutation is at another     *)
(* await.                                                                    *)
LEMMA NoReturnUnderWay ==
  ASSUME WorkspaceInv, NEW r \in Requests, IsTurn(r), req[r].phase \notin Back
  PROVE  Returning = {}
  <1>1. \A q \in Requests : q # r => Waiting(q)
    BY DEF WorkspaceInv, OneMutationRuns, IsTurn
  <1>2. QED BY <1>1 DEF Returning, Waiting, Back

LEMMA CommitNoRevival ==
  ASSUME WorkspaceInv, NEW r \in Requests, IsTurn(r), NEW c, NEW s, NEW victim,
         Commit(r, c, s, victim)
  PROVE  NoRevival(r) /\ req'[r].phase \notin Reserving
  <1>1. CASE Settle(r)
    BY <1>1, SettleNoRevival
  <1>2. CASE Goto(r, [req[r] EXCEPT !.phase = "evicting", !.sid = s,
                       !.victim = victim, !.wait = {victim},
                       !.held = SessionOf(victim)])
    <2> DEFINE next == [req[r] EXCEPT !.phase = "evicting", !.sid = s,
                                      !.victim = victim, !.wait = {victim},
                                      !.held = SessionOf(victim)]
    <2>1. next.phase = "evicting"
      BY DEF WorkspaceInv, TypeOK, Request
    <2> HIDE DEF next
    <2>2. Goto(r, next) /\ next.phase \notin Reserving
      BY <1>2, <2>1 DEF next, Reserving
    <2> QED
      BY ONLY WorkspaceInv, r \in Requests, IsTurn(r), <2>2, GotoNoRevival
  <1>3. CASE Goto(r, [req[r] EXCEPT !.phase = "refreshing"])
    BY <1>3, GotoNoRevival DEF WorkspaceInv, TypeOK, Goto, Request, Reserving
  <1>4. QED BY <1>1, <1>2, <1>3, Zenon DEF Commit

LEMMA CommitCapacity ==
  ASSUME WorkspaceInv, PlacesBounded,
         NEW r \in Requests, IsTurn(r), req[r].phase \notin Back,
         NEW c, NEW s \in Sessions, NEW victim, Commit(r, c, s, victim),
         victim = None => HasRoom,
         victim # None => ctl[victim].sid \in Loaded
  PROVE  PlacesBounded'
  <1>1. Places = Loaded /\ Places' = Loaded'
    BY NoReturnUnderWay, CommitNoRevival, NoneReturns DEF Places
  <1>2. sessions' = [t \in Sessions |->
                       IF t = s THEN c
                       ELSE IF t \in SessionOf(victim) THEN None ELSE sessions[t]]
    BY DEF Commit
  <1>3. IsFiniteSet(Loaded) /\ Cardinality(Loaded) \in Nat /\ MaxLoaded \in Nat
    BY PlacesAreSessions, FiniteSessions, WorkspaceAssumption
  <1>4. Cardinality(Loaded) <= MaxLoaded
    BY <1>1 DEF PlacesBounded
  <1>5. CASE victim = None
    <2> DEFINE more == Loaded \union {s}
    <2>1. Loaded' \subseteq more
      BY <1>2, <1>5 DEF Loaded, SessionOf
    <2>2. IsFiniteSet(more) /\ Cardinality(more) <= Cardinality(Loaded) + 1
      BY <1>3, OneMore
    <2>3. Cardinality(more) \in Nat
      BY <1>3, OneMore
    <2>4. Cardinality(Loaded') \in Nat /\ Cardinality(Loaded') <= Cardinality(more)
      BY <2>1, <2>2, FS_Subset, PlacesAreSessions, FiniteSessions
    <2>5. Cardinality(Loaded) < MaxLoaded
      BY <1>5 DEF HasRoom
    <2> HIDE DEF more
    <2>6. Cardinality(Loaded') <= MaxLoaded
      BY <1>3, <2>2, <2>3, <2>4, <2>5
    <2>7. QED BY <1>1, <2>6 DEF PlacesBounded
  <1>6. CASE victim # None
    <2> DEFINE t == ctl[victim].sid
               fewer == Loaded \ {t}
               same == fewer \union {s}
    <2>1. Loaded' \subseteq same
      BY <1>2, <1>6 DEF Loaded, SessionOf
    <2>2. IsFiniteSet(fewer) /\ Cardinality(fewer) = Cardinality(Loaded) - 1
      BY <1>3, <1>6, FS_RemoveElement
    <2>3. IsFiniteSet(same) /\ Cardinality(same) <= Cardinality(fewer) + 1
      <3> HIDE DEF fewer
      <3>1. QED BY <2>2, OneMore
    <2>4. Cardinality(same) \in Nat
      BY <2>3, FS_CardinalityType
    <2>5. Cardinality(Loaded') \in Nat /\ Cardinality(Loaded') <= Cardinality(same)
      BY <2>1, <2>3, FS_Subset, PlacesAreSessions, FiniteSessions
    <2> HIDE DEF fewer, same
    <2>6. Cardinality(Loaded') <= MaxLoaded
      BY <1>3, <1>4, <2>2, <2>3, <2>4, <2>5
    <2>7. QED BY <1>1, <2>6 DEF PlacesBounded
  <1>7. QED BY <1>5, <1>6

LEMMA BeginCreateCapacity ==
  ASSUME WorkspaceInv, PlacesBounded, NEW r \in Requests, BeginCreate(r)
  PROVE  PlacesBounded'
  <1>1. IsTurn(r) /\ req[r].phase = "queued"
    BY DEF BeginCreate, At
  <1>2. CASE Settle(r) /\ OwnersUnchanged
    <2>1. Places' \subseteq Places
      BY <1>1, <1>2, SettleNoRevival, NoneReturns DEF Places, Loaded, OwnersUnchanged
    <2>2. QED BY <2>1, NoNewPlace
  <1>3. ASSUME NEW victim \in Victims({}), NEW s \in Unused, NEW c \in Fresh,
               Commit(r, c, s, victim)
        PROVE  PlacesBounded'
    <2>1. victim = None => HasRoom
      BY WorkspaceAssumption DEF Victims, Evictable, Loaded
    <2>2. victim # None => ctl[victim].sid \in Loaded
      BY DEF Victims, Evictable, Loaded, WorkspaceInv, LiveIffOwner
    <2>3. s \in Sessions
      BY DEF Unused
    <2>4. QED BY <1>1, <1>3, <2>1, <2>2, <2>3, CommitCapacity DEF Back
  <1>4. QED BY <1>2, <1>3 DEF BeginCreate

(* The place reserved before an await is there after it, or the opened       *)
(* controller is not registered.                                             *)
LEMMA OpenedCapacity ==
  ASSUME WorkspaceInv, PlacesBounded, NEW r \in Requests, Opened(r)
  PROVE  PlacesBounded'
  <1> DEFINE s == req[r].sid  victim == req[r].victim
  <1>1. IsTurn(r) /\ req[r].phase = "opening"
    BY DEF Opened, At
  <1>2. CASE Fail(r) /\ OwnersUnchanged
    <2>1. Places' \subseteq Places
      BY <1>1, <1>2, FailNoRevival, NoneReturns DEF Places, Loaded, OwnersUnchanged
    <2>2. QED BY <2>1, NoNewPlace
  <1>3. ASSUME NEW c \in Fresh, Registrable(s, victim), Commit(r, c, s, victim)
        PROVE  PlacesBounded'
    <2>1. victim = None => HasRoom
      BY <1>3 DEF Registrable
    <2>2. victim # None => ctl[victim].sid \in Loaded
      <3>1. victim # None => ctl[victim].sid \in Sessions
                                /\ sessions[ctl[victim].sid] = victim
        BY <1>1 DEF WorkspaceInv, Remembers, CandidateKept
      <3>2. QED BY <3>1 DEF Loaded
    <2>3. s \in Sessions
      BY <1>1 DEF WorkspaceInv, OneMutationRuns, Waiting
    <2>4. QED BY <1>1, <1>3, <2>1, <2>2, <2>3, CommitCapacity DEF Back
  <1>4. ASSUME NEW c \in Fresh, UNCHANGED sessions,
               Goto(r, [req[r] EXCEPT !.phase = "discarding", !.wait = {c}])
        PROVE  PlacesBounded'
    <2>1. NoRevival(r)
      BY <1>1, <1>4, GotoNoRevival DEF WorkspaceInv, TypeOK, Goto, Request, Reserving
    <2>2. Places' \subseteq Places
      BY <1>4, <2>1, NoneReturns DEF Places, Loaded
    <2>3. QED BY <2>2, NoNewPlace
  <1>5. QED BY <1>2, <1>3, <1>4, Zenon DEF Opened

-------------------------------------------------------------------------------
(* The invariant *)

LEMMA StepCapacity ==
  ASSUME WorkspaceInv, PlacesBounded, NEW r \in Requests, Step(r)
  PROVE  PlacesBounded'
  <1>1. CASE QuietStep(r)
    BY <1>1, QuietPlaces, NoNewPlace
  <1>2. CASE Renamed(r) \/ Buried(r) \/ Restored(r) \/ ReplacementOpened(r)
             \/ BeginDisposeAll(r)
    BY <1>2, RenamedPlaces, RevivalPlaces, ReplacementPlaces, DisposeAllPlaces,
       NoNewPlace
  <1>3. CASE BeginCreate(r) \/ Opened(r)
    BY <1>3, BeginCreateCapacity, OpenedCapacity
  <1>4. QED BY <1>1, <1>2, <1>3 DEF Step, QuietStep

LEMMA EnvironmentPlaces ==
  ASSUME WorkspaceInv, Environment
  PROVE  Places' \subseteq Places
  <1>1. ASSUME NEW r \in Requests, NEW k, NEW s, Enqueue(r, k, s)
        PROVE  Places' \subseteq Places
    <2>1. UNCHANGED sessions
      BY <1>1 DEF Enqueue, OwnersUnchanged
    <2>2. req'[r].phase = "queued" /\ \A q \in Requests : q # r => req'[q] = req[q]
      BY <1>1 DEF Enqueue, FreeRequest, WorkspaceInv, TypeOK
    <2>3. Returning' \subseteq Returning
      BY <2>2 DEF Returning, Back
    <2>4. QED BY <2>1, <2>3 DEF Places, Loaded
  <1>2. CASE LifecycleUnchanged
    BY <1>2 DEF LifecycleUnchanged, Places, Loaded, Returning
  <1>3. QED
    BY <1>1, <1>2
    DEF Environment, DisposeSettled, Visibility, Progress, WorkSettled, Submit,
        FocusMoved

LEMMA NextCapacity == WorkspaceInv /\ PlacesBounded /\ [Next]_vars => PlacesBounded'
  <1> SUFFICES ASSUME WorkspaceInv, PlacesBounded, [Next]_vars PROVE PlacesBounded'
    OBVIOUS
  <1>1. CASE Environment
    BY <1>1, EnvironmentPlaces, NoNewPlace
  <1>2. ASSUME NEW r \in Requests, Step(r) PROVE PlacesBounded'
    BY <1>2, StepCapacity
  <1>3. CASE UNCHANGED vars
    BY <1>3 DEF vars, PlacesBounded, Places, Loaded, Returning
  <1>4. QED BY <1>1, <1>2, <1>3 DEF Next

LEMMA InitCapacity == Init => PlacesBounded
  <1> SUFFICES ASSUME Init PROVE PlacesBounded
    OBVIOUS
  <1>1. Places = {}
    BY DEF Init, Places, Loaded, Returning, Back, FreeRequest
  <1>2. QED BY <1>1, FS_EmptySet, WorkspaceAssumption DEF PlacesBounded

(* No more sessions are loaded, or may still be brought back by the running  *)
(* soft delete, than options.maxLoadedSessions allows.                       *)
THEOREM PlacesAreBounded == Spec => []PlacesBounded
  <1>1. Spec => [](WorkspaceInv /\ PlacesBounded)
    BY InitInv, NextInv, InitCapacity, NextCapacity, PTL DEF Spec
  <1>2. QED BY <1>1, PTL

(* The working set never exceeds options.maxLoadedSessions, however many     *)
(* sessions, requests and places there are and whatever fails.               *)
THEOREM CapacityIsRespected == Spec => []CapacityRespected
  <1>1. PlacesBounded => CapacityRespected
    <2>1. /\ IsFiniteSet(Places)
          /\ Cardinality(Loaded) \in Nat /\ Cardinality(Places) \in Nat
      BY PlacesAreSessions, FiniteSessions
    <2>2. Loaded \in SUBSET Places
      BY DEF Places
    <2>3. Cardinality(Loaded) <= Cardinality(Places)
      BY <2>1, <2>2, FS_Subset
    <2>4. QED BY <2>1, <2>3, WorkspaceAssumption DEF PlacesBounded, CapacityRespected
  <1>2. QED BY <1>1, PlacesAreBounded, PTL

-------------------------------------------------------------------------------
(* The registry: every step admits, exchanges, replaces, removes or discards *)
(* a controller, empties the Map, or leaves both Map and constructions alone.*)

Used == {c \in Controllers : ctl[c].state # "unborn"}

LEMMA FreshIsUnused ==
  ASSUME NEW c \in Fresh PROVE c \in Controllers /\ ctl[c].state = "unborn"
  BY DEF Fresh, Unborn

(* A step that constructs nothing and one that constructs c. *)
NoneBorn == \A d \in Controllers : ctl'[d].state = "unborn" <=> ctl[d].state = "unborn"
Born(c) ==
    /\ c \in Controllers /\ ctl[c].state = "unborn" /\ ctl'[c].state # "unborn"
    /\ \A d \in Controllers \ {c} :
         ctl'[d].state = "unborn" <=> ctl[d].state = "unborn"

LEMMA NoneBornUsed == ASSUME NoneBorn PROVE Used' = Used
  BY DEF NoneBorn, Used

LEMMA BornUsed ==
  ASSUME NEW c, Born(c) PROVE Used' = Used \union {c} /\ c \notin Used
  BY DEF Born, Used

LEMMA StutterRegistry ==
  ASSUME NoneBorn, UNCHANGED sessions
  PROVE  UNCHANGED Registry!vars
  BY NoneBornUsed DEF Registry!vars, Used

LEMMA DiscardRegistry ==
  ASSUME NEW c, Born(c), UNCHANGED sessions
  PROVE  Registry!Next
  <1>1. Registry!Discard(c)
    BY BornUsed DEF Registry!Discard, Used
  <1>2. QED BY <1>1 DEF Registry!Next, Born

LEMMA AdmitRegistry ==
  ASSUME NEW s \in Sessions, NEW c, Born(c), sessions[s] = None,
         Cardinality(Loaded) < MaxLoaded, sessions' = [sessions EXCEPT ![s] = c]
  PROVE  Registry!Next
  <1>1. Registry!Admit(s, c)
    <2>1. Cardinality(Registry!Loaded) < MaxLoaded
      BY Zenon DEF Registry!Loaded, Loaded
    <2>2. Used' = Used \union {c} /\ c \notin Used
      BY BornUsed
    <2>3. Registry!Cardinality(Registry!Loaded) = Cardinality(Registry!Loaded)
      BY Zenon DEF Registry!Cardinality, Cardinality
    <2>4. QED BY <2>1, <2>2, <2>3, Zenon DEF Registry!Admit, Used
  <1>2. QED BY <1>1 DEF Registry!Next, Born

LEMMA ReplaceRegistry ==
  ASSUME NEW s \in Sessions, NEW c, Born(c), sessions[s] # None,
         sessions' = [sessions EXCEPT ![s] = c]
  PROVE  Registry!Next
  <1>1. Registry!Replace(s, c)
    BY BornUsed DEF Registry!Replace, Used
  <1>2. QED BY <1>1 DEF Registry!Next, Born

LEMMA ExchangeRegistry ==
  ASSUME NEW s \in Sessions, NEW v \in Sessions, NEW c, Born(c),
         sessions[s] = None, sessions[v] # None,
         sessions' = [sessions EXCEPT ![s] = c, ![v] = None]
  PROVE  Registry!Next
  <1>1. Registry!Exchange(s, c, v)
    BY BornUsed DEF Registry!Exchange, Used
  <1>2. QED BY <1>1 DEF Registry!Next, Born

LEMMA RemoveRegistry ==
  ASSUME NEW s \in Sessions, NoneBorn, sessions[s] # None,
         sessions' = [sessions EXCEPT ![s] = None]
  PROVE  Registry!Next
  <1>1. Registry!Remove(s)
    BY NoneBornUsed DEF Registry!Remove, Used
  <1>2. QED BY <1>1 DEF Registry!Next

LEMMA CommitRegistry ==
  ASSUME WorkspaceInv, NEW r \in Requests, NEW s \in Sessions, NEW c \in Fresh,
         NEW victim, Commit(r, c, s, victim), sessions[s] = None,
         victim = None => HasRoom,
         victim # None => /\ victim \in Controllers /\ ctl[victim].sid \in Sessions
                          /\ sessions[ctl[victim].sid] = victim
  PROVE  Registry!Next
  <1>1. PICK g : ctl' = [d \in Controllers |->
                           IF d = c THEN NewController(s, g)
                           ELSE IF d = victim THEN Doomed(d) ELSE ctl[d]]
    BY DEF Commit
  <1>2. NewController(s, g).state = "live"
        /\ \A d \in Controllers : Doomed(d).state = "disposing"
    BY DoomedType DEF NewController, WorkspaceInv
  <1>3. victim # None => ctl[victim].state = "live"
    BY WorkspaceAssumption DEF WorkspaceInv, LiveIffOwner
  <1>4. Born(c)
    BY <1>1, <1>2, <1>3, FreshIsUnused, WorkspaceAssumption DEF Born
  <1>5. sessions' = [t \in Sessions |->
                       IF t = s THEN c
                       ELSE IF t \in SessionOf(victim) THEN None ELSE sessions[t]]
    BY DEF Commit
  <1>6. sessions \in [Sessions -> Controllers \union {None}]
    BY DEF WorkspaceInv, TypeOK
  <1>7. CASE victim = None
    <2>1. sessions' = [sessions EXCEPT ![s] = c]
      BY <1>5, <1>6, <1>7 DEF SessionOf
    <2>2. QED BY <1>4, <1>7, <2>1, AdmitRegistry DEF HasRoom
  <1>8. CASE victim # None
    <2> DEFINE v == ctl[victim].sid
    <2>1. v \in Sessions /\ sessions[v] # None
      BY <1>8, WorkspaceAssumption
    <2>2. sessions' = [sessions EXCEPT ![s] = c, ![v] = None]
      BY <1>5, <1>6, <1>8, <2>1 DEF SessionOf
    <2>3. QED BY <1>4, <2>1, <2>2, ExchangeRegistry
  <1>9. QED BY <1>7, <1>8

LEMMA QuietRegistry ==
  ASSUME WorkspaceInv, NEW r \in Requests, QuietStep(r)
  PROVE  [Registry!Next]_(Registry!vars)
  <1>1. UNCHANGED sessions
    BY QuietStepStartsNoRevival
  <1>2. CASE ReplacementMismatched(r)
    <2>1. PICK c \in Fresh :
            ctl' = [ctl EXCEPT ![c] = [NewController(None, 0) EXCEPT !.state = "disposing"]]
      BY <1>2 DEF ReplacementMismatched
    <2>2. Born(c)
      BY <2>1, FreshIsUnused DEF Born, NewController, WorkspaceInv, TypeOK
    <2>3. QED BY <1>1, <2>2, DiscardRegistry
  <1>3. CASE BeginRevert(r)
    <2>1. CASE UNCHANGED ctl
      BY <1>1, <2>1, StutterRegistry DEF NoneBorn
    <2>2. ASSUME NEW g \in Revisions,
                 ctl' = [ctl EXCEPT ![sessions[req[r].sid]].rev = g]
          PROVE  NoneBorn
      BY <2>2 DEF NoneBorn, WorkspaceInv, TypeOK, Controller
    <2>3. QED BY <1>1, <1>3, <2>1, <2>2, StutterRegistry DEF BeginRevert
  <1>4. CASE ~ReplacementMismatched(r) /\ ~BeginRevert(r)
    <2>1. UNCHANGED ctl
      BY <1>4 DEF QuietStep, BeginValidation, Refused, OpenValidated, Discarded, Evicted,
                  Refreshed, RenameValidated, DeleteValidated, Resolved,
                  ReplacementFailed, Retired, BeginFork, ForkFileRemoved, Closed,
                  OwnersUnchanged
    <2>2. QED BY <1>1, <2>1, StutterRegistry DEF NoneBorn
  <1>5. QED BY <1>2, <1>3, <1>4

LEMMA EnvironmentRegistry ==
  ASSUME WorkspaceInv, Environment
  PROVE  UNCHANGED Registry!vars
  <1>1. UNCHANGED sessions
    BY DEF Environment, Enqueue, OwnersUnchanged, DisposeSettled, Visibility, Progress,
           WorkSettled, Submit, FocusMoved, LifecycleUnchanged
  <1>2. ctl \in [Controllers -> Controller]
    BY DEF WorkspaceInv, TypeOK
  <1>3. CASE UNCHANGED ctl
    BY <1>1, <1>3, StutterRegistry DEF NoneBorn
  <1>4. ASSUME NEW c \in Controllers, NEW new,
               ctl' = [ctl EXCEPT ![c] = new],
               new.state = "unborn" <=> ctl[c].state = "unborn"
        PROVE  UNCHANGED Registry!vars
    BY <1>1, <1>2, <1>4, StutterRegistry DEF NoneBorn
  <1>5. ASSUME NEW c \in Controllers, DisposeSettled(c)
        PROVE  UNCHANGED Registry!vars
    BY <1>4, <1>5 DEF DisposeSettled, NewController
  <1>6. ASSUME NEW c \in Controllers, NEW work, ctl' = [ctl EXCEPT ![c].work = work]
        PROVE  UNCHANGED Registry!vars
    BY <1>2, <1>4, <1>6 DEF Controller
  <1>7. ASSUME NEW c \in Controllers, NEW g, ctl' = [ctl EXCEPT ![c].rev = g]
        PROVE  UNCHANGED Registry!vars
    BY <1>2, <1>4, <1>7 DEF Controller
  <1>8. ASSUME NEW c \in Controllers, Visibility(c) \/ WorkSettled(c)
        PROVE  UNCHANGED Registry!vars
    BY <1>6, <1>8 DEF Visibility, WorkSettled
  <1>9. ASSUME NEW c \in Controllers, Progress(c)
        PROVE  UNCHANGED Registry!vars
    BY <1>7, <1>9 DEF Progress
  <1>10. ASSUME NEW s \in Sessions, Submit(s)
         PROVE  UNCHANGED Registry!vars
    <2>1. sessions[s] \in Controllers
      BY <1>10 DEF Submit, Mutable, Loaded, WorkspaceInv, TypeOK
    <2>2. QED BY <1>6, <1>10, <2>1 DEF Submit
  <1>11. ASSUME NEW r \in Requests, NEW k, NEW s, Enqueue(r, k, s)
         PROVE  UNCHANGED ctl
    BY <1>11 DEF Enqueue, OwnersUnchanged
  <1>12. ASSUME NEW s \in Sessions, FocusMoved(s) PROVE UNCHANGED ctl
    BY <1>12 DEF FocusMoved
  <1>13. QED BY <1>3, <1>5, <1>8, <1>9, <1>10, <1>11, <1>12 DEF Environment

LEMMA BeginCreateRegistry ==
  ASSUME WorkspaceInv, NEW r \in Requests, BeginCreate(r)
  PROVE  [Registry!Next]_(Registry!vars)
  <1>1. CASE OwnersUnchanged
    BY <1>1, StutterRegistry DEF OwnersUnchanged, NoneBorn
  <1>2. ASSUME NEW victim \in Victims({}), NEW s \in Unused, NEW c \in Fresh,
               Commit(r, c, s, victim)
        PROVE  Registry!Next
    <2>1. s \in Sessions /\ sessions[s] = None
      BY DEF Unused, WorkspaceInv, OwnersHaveFiles, Loaded
    <2>2. victim = None => HasRoom
      BY WorkspaceAssumption DEF Victims, Evictable, Loaded
    <2>3. victim # None => /\ victim \in Controllers /\ ctl[victim].sid \in Sessions
                           /\ sessions[ctl[victim].sid] = victim
      BY VictimType DEF WorkspaceInv, Typed
    <2>4. QED BY <1>2, <2>1, <2>2, <2>3, CommitRegistry
  <1>3. QED BY <1>1, <1>2 DEF BeginCreate

LEMMA OpenedRegistry ==
  ASSUME WorkspaceInv, NEW r \in Requests, Opened(r)
  PROVE  [Registry!Next]_(Registry!vars)
  <1> DEFINE s == req[r].sid  victim == req[r].victim
  <1>1. IsTurn(r) /\ req[r].phase = "opening"
    BY DEF Opened, At
  <1>2. CASE OwnersUnchanged
    BY <1>2, StutterRegistry DEF OwnersUnchanged, NoneBorn
  <1>3. ASSUME NEW c \in Fresh, Registrable(s, victim), Commit(r, c, s, victim)
        PROVE  Registry!Next
    <2>1. s \in Sessions /\ sessions[s] = None
      BY <1>1, <1>3 DEF WorkspaceInv, OneMutationRuns, Waiting, Registrable
    <2>2. victim = None => HasRoom
      BY <1>3 DEF Registrable
    <2>3. victim # None => /\ victim \in Controllers /\ ctl[victim].sid \in Sessions
                           /\ sessions[ctl[victim].sid] = victim
      BY <1>1 DEF WorkspaceInv, Remembers, CandidateKept, TypeOK, Request
    <2> HIDE DEF s, victim
    <2>4. QED BY <1>3, <2>1, <2>2, <2>3, CommitRegistry
  <1>4. ASSUME NEW c \in Fresh, UNCHANGED sessions,
               ctl' = [ctl EXCEPT ![c] = [NewController(s, 0) EXCEPT !.state = "disposing"]]
        PROVE  Registry!Next
    <2>1. Born(c)
      BY <1>4, FreshIsUnused DEF Born, NewController, WorkspaceInv, TypeOK
    <2>2. QED BY <1>4, <2>1, DiscardRegistry
  <1>5. QED BY <1>2, <1>3, <1>4, Zenon DEF Opened

LEMMA RenamedRegistry ==
  ASSUME WorkspaceInv, NEW r \in Requests, Renamed(r)
  PROVE  [Registry!Next]_(Registry!vars)
  <1> DEFINE s == req[r].sid
  <1>1. IsTurn(r) /\ req[r].phase = "renaming"
    BY DEF Renamed, At
  <1>2. CASE OwnersUnchanged
    BY <1>2, StutterRegistry DEF OwnersUnchanged, NoneBorn
  <1>3. ASSUME req[r].old # None, sessions' = [sessions EXCEPT ![s] = None],
               ctl' = [ctl EXCEPT ![sessions[s]] = Doomed(sessions[s])]
        PROVE  Registry!Next
    <2>1. s \in Sessions /\ sessions[s] # None
      BY <1>1, <1>3 DEF WorkspaceInv, Remembers, OneMutationRuns, Waiting
    <2>2. sessions[s] \in Controllers /\ ctl[sessions[s]].state = "live"
      BY <2>1 DEF WorkspaceInv, TypeOK, LiveIffOwner
    <2>3. Doomed(sessions[s]).state = "disposing"
      BY <2>2, DoomedType DEF WorkspaceInv
    <2>4. NoneBorn
      BY <1>3, <2>2, <2>3 DEF NoneBorn, WorkspaceInv, TypeOK
    <2>5. QED BY <1>3, <2>1, <2>4, RemoveRegistry
  <1>4. QED BY <1>2, <1>3, Zenon DEF Renamed

LEMMA ReplacementRegistry ==
  ASSUME WorkspaceInv, PlacesBounded, NEW r \in Requests, ReplacementOpened(r)
  PROVE  [Registry!Next]_(Registry!vars)
  <1> DEFINE s == req[r].sid  old == req[r].old
  <1>1. /\ IsTurn(r) /\ req[r].phase \in {"replacing", "recovering", "reviving"}
        /\ s \in Sessions
    BY DEF ReplacementOpened, Replacing, At, WorkspaceInv, OneMutationRuns, Waiting
  <1>2. CASE req[r].phase = "reviving"
    <2>1. PICK c \in Fresh : /\ sessions' = [sessions EXCEPT ![s] = c]
                             /\ ctl' = [ctl EXCEPT ![c] = NewController(s, req[r].rev)]
      BY <1>2, Zenon DEF ReplacementOpened
    <2>2. Born(c)
      BY <2>1, FreshIsUnused DEF Born, NewController, WorkspaceInv, TypeOK
    <2>3. sessions[s] = None /\ s \in Places
      BY <1>1, <1>2 DEF WorkspaceInv, Remembers, Places, Returning, Back
    <2>4. Cardinality(Loaded) < MaxLoaded
      <3>1. s \notin Loaded /\ Loaded \union {s} \subseteq Places
        BY <2>3 DEF Loaded, Places
      <3>2. IsFiniteSet(Loaded) /\ Cardinality(Loaded) \in Nat
            /\ IsFiniteSet(Places) /\ Cardinality(Places) \in Nat /\ MaxLoaded \in Nat
        BY PlacesAreSessions, FiniteSessions, WorkspaceAssumption
      <3>3. Cardinality(Loaded \union {s}) = Cardinality(Loaded) + 1
        BY <3>1, <3>2, FS_AddElement
      <3>4. Cardinality(Loaded \union {s}) <= Cardinality(Places)
        BY <3>1, <3>2, FS_Subset
      <3>5. QED BY <3>2, <3>3, <3>4 DEF PlacesBounded
    <2>5. QED BY <1>1, <2>1, <2>2, <2>3, <2>4, AdmitRegistry
  <1>3. CASE req[r].phase # "reviving"
    <2>1. PICK c \in Fresh : /\ sessions' = [sessions EXCEPT ![s] = c]
                             /\ ctl' = [ctl EXCEPT ![c] = NewController(s, req[r].rev),
                                                   ![old] = Doomed(old)]
      BY <1>3, Zenon DEF ReplacementOpened
    <2>2. sessions[s] = old /\ old # None
      BY <1>1, <1>3 DEF WorkspaceInv, Remembers, OldKept
    <2>3. old \in Controllers /\ ctl[old].state = "live"
      BY <1>1, <2>2 DEF WorkspaceInv, TypeOK, LiveIffOwner
    <2>4. Doomed(old).state = "disposing"
      BY <2>3, DoomedType DEF WorkspaceInv
    <2>5. Born(c)
      BY <2>1, <2>3, <2>4, FreshIsUnused DEF Born, NewController, WorkspaceInv, TypeOK
    <2>6. QED BY <1>1, <2>1, <2>2, <2>5, ReplaceRegistry
  <1>4. QED BY <1>2, <1>3

LEMMA DisposeAllRegistry ==
  ASSUME WorkspaceInv, NEW r \in Requests, BeginDisposeAll(r)
  PROVE  Registry!Next
  <1> DEFINE owners == {sessions[s] : s \in Loaded}
  <1>1. /\ sessions' = [s \in Sessions |-> None]
        /\ ctl' = [c \in Controllers |-> IF c \in owners THEN Doomed(c) ELSE ctl[c]]
    BY DEF BeginDisposeAll
  <1>2. \A c \in owners : c \in Controllers /\ ctl[c].state = "live"
    BY DEF WorkspaceInv, TypeOK, LiveIffOwner, Loaded
  <1>3. \A c \in Controllers : Doomed(c).state = "disposing"
    BY DoomedType DEF WorkspaceInv
  <1> HIDE DEF owners
  <1>4. NoneBorn
    BY <1>1, <1>2, <1>3 DEF NoneBorn
  <1>5. Registry!Clear
    BY <1>1, <1>4, NoneBornUsed DEF Registry!Clear, Used
  <1>6. QED BY <1>5 DEF Registry!Next

LEMMA NextRegistry ==
  ASSUME WorkspaceInv, PlacesBounded, [Next]_vars
  PROVE  [Registry!Next]_(Registry!vars)
  <1>1. ASSUME NEW r \in Requests, Buried(r) \/ Restored(r)
        PROVE  UNCHANGED Registry!vars
    BY <1>1, StutterRegistry DEF Buried, Restored, OwnersUnchanged, NoneBorn
  <1>2. ASSUME NEW r \in Requests, Step(r)
        PROVE  [Registry!Next]_(Registry!vars)
    BY <1>1, <1>2, QuietRegistry, BeginCreateRegistry, OpenedRegistry, RenamedRegistry,
       ReplacementRegistry, DisposeAllRegistry
    DEF Step, QuietStep
  <1>3. CASE UNCHANGED vars
    BY <1>3, StutterRegistry DEF vars, NoneBorn
  <1>4. QED BY <1>2, <1>3, EnvironmentRegistry DEF Next

LEMMA InitRegistry == Init => Registry!Init
  BY DEF Init, Registry!Init, NewController

(* PiSessionWorkspace implements the registry it promises the server: every  *)
(* mutation, cut at its awaits and failing where it may, changes ownership   *)
(* in single steps, never beyond the limit, and no controller owns twice.    *)
THEOREM RegistryImplemented == Spec => ImplementsRegistry
  <1>1. Spec => [](WorkspaceInv /\ PlacesBounded)
    BY InitInv, NextInv, InitCapacity, NextCapacity, PTL DEF Spec
  <1>2. WorkspaceInv /\ PlacesBounded /\ [Next]_vars => [Registry!Next]_(Registry!vars)
    BY NextRegistry
  <1>3. QED BY <1>1, <1>2, InitRegistry, PTL DEF Spec, ImplementsRegistry, Registry!Spec

-------------------------------------------------------------------------------
(* The history: no owner to come is behind what browsers have seen *)

LEMMA RevisionsAreNumbers ==
  ASSUME WorkspaceInv
  PROVE  /\ generation \in Nat
         /\ \A c \in Controllers : ctl[c].rev \in Nat
         /\ \A s \in Sessions : seen[s] \in Nat
         /\ \A q \in Requests : req[q].rev \in Nat
         /\ \A s \in Loaded : sessions[s] \in Controllers
  BY WorkspaceAssumption
  DEF WorkspaceInv, TypeOK, Controller, Request, Revisions, Loaded

(* A revision above all that are known is above all that was seen. *)
LEMMA KnownCoverSeen ==
  ASSUME WorkspaceInv, HistoryInv, NEW g \in Nat,
         \A k \in KnownRevisions : k <= g
  PROVE  /\ generation <= g
         /\ \A s \in Loaded : ctl[sessions[s]].rev <= g
         /\ \A s \in Sessions \ raced : seen[s] <= g
  <1>1. /\ generation <= g
        /\ \A s \in Loaded : ctl[sessions[s]].rev <= g
    BY DEF KnownRevisions
  <1>2. QED
    BY <1>1, RevisionsAreNumbers DEF HistoryInv, HistoryKept, Loaded

(* What a step has to keep, given that every owner reports its revision. *)
LEMMA HistoryStep ==
  ASSUME WorkspaceInv, WorkspaceInv', HistoryInv, Report,
         \A s \in Sessions \ raced' :
           IF sessions'[s] # None THEN ctl'[sessions'[s]].rev >= seen[s]
                                  ELSE generation' >= seen[s],
         \A q \in Requests :
           req'[q].phase \in Reserving /\ req'[q].sid \notin raced' =>
             /\ req'[q].rev >= seen[req'[q].sid]
             /\ sessions'[req'[q].sid] # None =>
                  req'[q].rev >= ctl'[sessions'[req'[q].sid]].rev
  PROVE  HistoryInv'
  <1>1. /\ \A s \in Sessions : seen[s] \in Nat
        /\ \A s \in Sessions : sessions'[s] # None => ctl'[sessions'[s]].rev \in Nat
    <2>1. \A s \in Sessions : sessions'[s] # None => sessions'[s] \in Controllers
      BY DEF WorkspaceInv, TypeOK
    <2>2. \A c \in Controllers : ctl'[c].rev \in Nat
      BY WorkspaceAssumption DEF WorkspaceInv, TypeOK, Controller, Revisions
    <2>3. QED BY <2>1, <2>2, RevisionsAreNumbers
  <1>2. \A s \in Sessions :
          seen'[s] = IF sessions'[s] # None /\ ctl'[sessions'[s]].rev > seen[s]
                     THEN ctl'[sessions'[s]].rev ELSE seen[s]
    BY DEF Report
  <1>3. OwnersReport'
    BY <1>1, <1>2 DEF OwnersReport, Loaded
  <1>4. HistoryKept'
    BY <1>1, <1>2 DEF HistoryKept
  <1>5. ReservedRevisionsKept'
    <2> SUFFICES ASSUME NEW q \in Requests,
                        req'[q].phase \in Reserving, req'[q].sid \notin raced'
                 PROVE  req'[q].rev >= seen'[req'[q].sid]
      BY DEF ReservedRevisionsKept
    <2>1. req'[q].sid \in Sessions
      BY DEF WorkspaceInv, OneMutationRuns, Waiting, Reserving
    <2>2. QED BY <1>1, <1>2, <2>1
  <1>6. QED BY <1>3, <1>4, <1>5 DEF HistoryInv

(* The revision a mutation has reserved is the one it had reserved before, *)
(* or a new one.                                                           *)
ReservationKept(q) ==
    req'[q].phase \in Reserving =>
        \/ /\ req[q].phase \in Reserving
           /\ req'[q].sid = req[q].sid /\ req'[q].rev = req[q].rev
        \/ \A k \in KnownRevisions : k < req'[q].rev

LEMMA NoRevivalKeepsReservations ==
  ASSUME NEW r \in Requests, NoRevival(r)
  PROVE  \A q \in Requests : ReservationKept(q)
  BY DEF NoRevival, ReservationKept

(* No owner changes, nor what it reports. *)
LEMMA HistoryQuiet ==
  ASSUME WorkspaceInv, WorkspaceInv', HistoryInv, Report,
         UNCHANGED <<sessions, raced>>, generation' >= generation,
         \A s \in Loaded : ctl'[sessions[s]].rev = ctl[sessions[s]].rev,
         \A q \in Requests : ReservationKept(q)
  PROVE  HistoryInv'
  <1>1. ASSUME NEW s \in Sessions \ raced'
        PROVE  IF sessions'[s] # None THEN ctl'[sessions'[s]].rev >= seen[s]
                                      ELSE generation' >= seen[s]
    <2>1. generation \in Nat /\ generation' \in Nat /\ seen[s] \in Nat
      BY WorkspaceAssumption DEF WorkspaceInv, TypeOK, Revisions
    <2>2. QED BY <2>1 DEF HistoryInv, HistoryKept, Loaded
  <1>2. ASSUME NEW q \in Requests,
               req'[q].phase \in Reserving, req'[q].sid \notin raced'
        PROVE  /\ req'[q].rev >= seen[req'[q].sid]
               /\ sessions'[req'[q].sid] # None =>
                    req'[q].rev >= ctl'[sessions'[req'[q].sid]].rev
    <2>1. /\ req'[q].sid \in Sessions
          /\ req'[q].rev \in Nat
      <3>1. req'[q].sid \in Sessions
        BY <1>2 DEF WorkspaceInv, OneMutationRuns, Waiting, Reserving
      <3>2. req'[q] \in Request
        BY DEF WorkspaceInv, TypeOK
      <3>3. QED BY <3>1, <3>2, WorkspaceAssumption DEF Request, Revisions
    <2>2. CASE /\ req[q].phase \in Reserving
               /\ req'[q].sid = req[q].sid /\ req'[q].rev = req[q].rev
      <3>1. req'[q].rev >= seen[req'[q].sid]
        BY <1>2, <2>2 DEF HistoryInv, ReservedRevisionsKept
      <3>2. req'[q].sid \in Loaded =>
              ctl'[sessions[req'[q].sid]].rev <= seen[req'[q].sid]
        BY DEF HistoryInv, OwnersReport
      <3>3. req'[q].sid \in Loaded => ctl'[sessions[req'[q].sid]].rev \in Nat
        BY RevisionsAreNumbers
      <3>4. seen[req'[q].sid] \in Nat
        BY <2>1, RevisionsAreNumbers
      <3>5. QED BY <2>1, <3>1, <3>2, <3>3, <3>4 DEF Loaded
    <2>3. CASE \A k \in KnownRevisions : k < req'[q].rev
      <3>0. KnownRevisions \in SUBSET Nat
        BY RevisionsAreNumbers DEF KnownRevisions
      <3>1. \A k \in KnownRevisions : k <= req'[q].rev
        BY <2>1, <2>3, <3>0
      <3>2. /\ \A s \in Loaded : ctl[sessions[s]].rev <= req'[q].rev
            /\ \A s \in Sessions \ raced : seen[s] <= req'[q].rev
        BY <2>1, <3>1, KnownCoverSeen
      <3>3. /\ seen[req'[q].sid] \in Nat
            /\ req'[q].sid \in Loaded => ctl'[sessions[req'[q].sid]].rev \in Nat
        BY <2>1, RevisionsAreNumbers
      <3>4. QED BY <1>2, <2>1, <3>2, <3>3 DEF Loaded
    <2>4. QED BY <1>2, <2>2, <2>3 DEF ReservationKept
  <1>3. QED BY <1>1, <1>2, HistoryStep

LEMMA EnvironmentReservations ==
  ASSUME WorkspaceInv, NEW q \in Requests, req'[q] = req[q] \/ req'[q].phase = "queued"
  PROVE  ReservationKept(q)
  BY DEF ReservationKept, Reserving

(* An event of a running turn: its owner reports more than was seen, and a   *)
(* session that is being replaced meanwhile counts as raced.                 *)
LEMMA ProgressHistory ==
  ASSUME WorkspaceInv, WorkspaceInv', HistoryInv, NEW c \in Controllers, Progress(c)
  PROVE  HistoryInv'
  <1>1. /\ ctl[c].state = "live"
        /\ ctl' = [ctl EXCEPT ![c].rev = ctl[c].rev + 1]
        /\ raced' = raced \union ({ctl[c].sid} \intersect transitioning)
        /\ LifecycleUnchanged /\ Report
    BY DEF Progress
  <1>2. ctl[c].sid \in Sessions /\ sessions[ctl[c].sid] = c
    BY <1>1 DEF WorkspaceInv, LiveIffOwner
  <1>3. /\ ctl'[c].rev = ctl[c].rev + 1
        /\ \A d \in Controllers \ {c} : ctl'[d] = ctl[d]
    BY <1>1 DEF WorkspaceInv, TypeOK, Controller
  <1>4. ASSUME NEW s \in Sessions \ raced'
        PROVE  IF sessions'[s] # None THEN ctl'[sessions'[s]].rev >= seen[s]
                                      ELSE generation' >= seen[s]
    <2>1. sessions' = sessions /\ generation' = generation /\ s \notin raced
      BY <1>1 DEF LifecycleUnchanged
    <2>2. sessions[s] # None => sessions[s] \in Controllers /\ ctl[sessions[s]].rev >= seen[s]
      BY <2>1, RevisionsAreNumbers DEF HistoryInv, HistoryKept, Loaded
    <2>3. seen[s] \in Nat /\ \A d \in Controllers : ctl[d].rev \in Nat
      BY RevisionsAreNumbers
    <2>4. QED BY <1>3, <2>1, <2>2, <2>3 DEF HistoryInv, HistoryKept
  <1>5. ASSUME NEW q \in Requests,
               req'[q].phase \in Reserving, req'[q].sid \notin raced'
        PROVE  /\ req'[q].rev >= seen[req'[q].sid]
               /\ sessions'[req'[q].sid] # None =>
                    req'[q].rev >= ctl'[sessions'[req'[q].sid]].rev
    <2> DEFINE s == req[q].sid
    <2>1. /\ req' = req /\ sessions' = sessions /\ raced \subseteq raced'
          /\ s \in Sessions /\ s \notin raced'
          /\ req[q].rev >= seen[s] /\ ~Waiting(q)
      BY <1>1, <1>5
      DEF LifecycleUnchanged, WorkspaceInv, OneMutationRuns, Waiting, Reserving,
          HistoryInv, ReservedRevisionsKept
    <2>2. sessions[s] # None => s \in transitioning
      <3>1. sessions[s] # None => s \in req[q].held
        BY <1>5, <2>1 DEF WorkspaceInv, Remembers, OldKept, Reserving
      <3>2. IsTurn(q)
        BY <2>1 DEF WorkspaceInv, OneMutationRuns
      <3>3. QED BY <3>1, <3>2 DEF WorkspaceInv, ReservationsHeldByRunning, IsTurn
    <2>3. sessions[s] # None => sessions[s] # c
      <3>1. sessions[s] = c /\ c # None => ctl[c].sid = s
        BY <2>1 DEF WorkspaceInv, LiveIffOwner
      <3>2. QED BY <1>1, <2>1, <2>2, <3>1
    <2>4. sessions[s] # None => ctl'[sessions[s]].rev = ctl[sessions[s]].rev
                                /\ sessions[s] \in Controllers
                                /\ ctl[sessions[s]].rev <= seen[s]
      BY <1>3, <2>1, <2>3, RevisionsAreNumbers
      DEF HistoryInv, OwnersReport, Loaded
    <2>5. req[q].rev \in Nat /\ seen[s] \in Nat /\ \A d \in Controllers : ctl[d].rev \in Nat
      BY <2>1, RevisionsAreNumbers
    <2>6. QED BY <2>1, <2>4, <2>5
  <1>6. QED BY <1>1, <1>4, <1>5, HistoryStep

LEMMA EnvironmentHistory ==
  ASSUME WorkspaceInv, WorkspaceInv', HistoryInv, Environment
  PROVE  HistoryInv'
  <1> USE DEF LifecycleUnchanged, EnvironmentUnchanged
  <1>1. generation \in Nat
    BY RevisionsAreNumbers
  <1>2. ASSUME UNCHANGED <<sessions, raced, generation>>, Report,
               \A q \in Requests : req'[q] = req[q] \/ req'[q].phase = "queued",
               \A s \in Loaded : ctl'[sessions[s]].rev = ctl[sessions[s]].rev
        PROVE  HistoryInv'
    BY <1>1, <1>2, HistoryQuiet, EnvironmentReservations
  <1>3. ctl \in [Controllers -> Controller]
    BY DEF WorkspaceInv, TypeOK
  <1>4. ASSUME NEW r \in Requests, NEW k, NEW s, Enqueue(r, k, s) PROVE HistoryInv'
    <2>1. \A q \in Requests : req'[q] = req[q] \/ req'[q].phase = "queued"
      BY <1>4 DEF Enqueue, WorkspaceInv, TypeOK, FreeRequest
    <2>2. QED BY <1>2, <1>4, <2>1 DEF Enqueue, OwnersUnchanged
  <1>5. ASSUME NEW c \in Controllers, DisposeSettled(c) PROVE HistoryInv'
    <2>1. \A s \in Loaded : sessions[s] # c
      BY <1>5 DEF DisposeSettled, WorkspaceInv, LiveIffOwner, Loaded
    <2>2. \A s \in Loaded : ctl'[sessions[s]] = ctl[sessions[s]]
      BY <1>3, <1>5, <2>1, RevisionsAreNumbers DEF DisposeSettled
    <2>3. QED BY <1>2, <1>5, <2>2 DEF DisposeSettled
  <1>6. ASSUME NEW c \in Controllers, NEW work, ctl' = [ctl EXCEPT ![c].work = work]
        PROVE  \A s \in Loaded : ctl'[sessions[s]].rev = ctl[sessions[s]].rev
    BY <1>3, <1>6, RevisionsAreNumbers DEF Controller
  <1>7. ASSUME NEW c \in Controllers, Visibility(c) \/ WorkSettled(c) PROVE HistoryInv'
    BY <1>2, <1>6, <1>7 DEF Visibility, WorkSettled
  <1>8. ASSUME NEW s \in Sessions, Submit(s) PROVE HistoryInv'
    <2>1. sessions[s] \in Controllers
      BY <1>8, RevisionsAreNumbers DEF Submit, Mutable
    <2>2. QED BY <1>2, <1>6, <1>8, <2>1 DEF Submit
  <1>9. ASSUME NEW s \in Sessions, FocusMoved(s) PROVE HistoryInv'
    BY <1>2, <1>9 DEF FocusMoved
  <1>10. QED
    BY <1>4, <1>5, <1>7, <1>8, <1>9, ProgressHistory DEF Environment

-------------------------------------------------------------------------------
(* Pieces of the mutations *)

(* Nothing is reserved once the running mutation holds no revision. *)
NoReservation == \A q \in Requests : req'[q].phase \notin Reserving

LEMMA NothingReserved ==
  ASSUME WorkspaceInv, NEW r \in Requests, NoRevival(r), req'[r].phase \notin Reserving
  PROVE  NoReservation
  BY DEF NoRevival, WorkspaceInv, OneMutationRuns, IsTurn, Waiting, Reserving,
         NoReservation

(* A new owner is seeded above everything known, and so is the generation    *)
(* that stands for the session of the victim.                                *)
LEMMA CommitHistory ==
  ASSUME WorkspaceInv, WorkspaceInv', HistoryInv, Report, UNCHANGED raced,
         NEW r \in Requests, IsTurn(r), NEW c \in Fresh, NEW s \in Sessions,
         NEW victim \in Controllers \union {None}, Commit(r, c, s, victim),
         victim # None => sessions[ctl[victim].sid] = victim
  PROVE  HistoryInv'
  <1>1. PICK g \in Revisions :
          /\ IsNextRevision(g) /\ generation' = g
          /\ ctl' = [d \in Controllers |->
                       IF d = c THEN NewController(s, g)
                       ELSE IF d = victim THEN Doomed(d) ELSE ctl[d]]
    BY DEF Commit
  <1>2. sessions' = [t \in Sessions |->
                       IF t = s THEN c
                       ELSE IF t \in SessionOf(victim) THEN None ELSE sessions[t]]
    BY DEF Commit
  <1>3. g \in Nat /\ \A k \in KnownRevisions : k <= g
    <2>1. KnownRevisions \in SUBSET Nat
      BY RevisionsAreNumbers DEF KnownRevisions
    <2>2. g \in Nat
      BY WorkspaceAssumption DEF Revisions
    <2>3. QED BY <1>1, <2>1, <2>2 DEF IsNextRevision
  <1>4. \A t \in Sessions \ raced : seen[t] <= g /\ seen[t] \in Nat
    BY <1>3, KnownCoverSeen, RevisionsAreNumbers
  <1>5. c \in Controllers /\ ctl[c].state = "unborn"
    BY FreshIsUnused
  <1>6. ASSUME NEW t \in Sessions \ raced'
        PROVE  IF sessions'[t] # None THEN ctl'[sessions'[t]].rev >= seen[t]
                                      ELSE generation' >= seen[t]
    <2>1. CASE t = s
      <3>1. sessions'[t] = c /\ ctl'[c].rev = g
        BY <1>1, <1>2, <1>5, <2>1 DEF NewController
      <3>2. QED BY <1>3, <1>4, <1>5, <3>1, WorkspaceAssumption
    <2>2. CASE t # s /\ t \in SessionOf(victim)
      BY <1>1, <1>2, <1>3, <1>4, <2>2
    <2>3. CASE t # s /\ t \notin SessionOf(victim) /\ sessions[t] = None
      BY <1>1, <1>2, <1>3, <1>4, <2>3
    <2>4. CASE t # s /\ t \notin SessionOf(victim) /\ sessions[t] # None
      <3>1. /\ sessions[t] \in Controllers /\ ctl[sessions[t]].state = "live"
            /\ ctl[sessions[t]].sid = t
        BY <2>4 DEF WorkspaceInv, TypeOK, LiveIffOwner
      <3>2. sessions[t] # c /\ sessions[t] # victim
        BY <1>5, <2>4, <3>1 DEF SessionOf
      <3>3. sessions'[t] = sessions[t] /\ ctl'[sessions[t]] = ctl[sessions[t]]
        BY <1>1, <1>2, <2>4, <3>1, <3>2
      <3>4. QED BY <2>4, <3>3 DEF HistoryInv, HistoryKept
    <2>5. QED BY <2>1, <2>2, <2>3, <2>4
  <1>7. NoReservation
    BY CommitNoRevival, NothingReserved
  <1>8. QED BY <1>6, <1>7, HistoryStep DEF NoReservation

LEMMA QuietHistory ==
  ASSUME WorkspaceInv, WorkspaceInv', HistoryInv, Report, UNCHANGED raced,
         NEW r \in Requests, QuietStep(r)
  PROVE  HistoryInv'
  <1>1. NoRevival(r) /\ UNCHANGED sessions
    BY QuietStepStartsNoRevival
  <1>2. \A q \in Requests : ReservationKept(q)
    BY <1>1, NoRevivalKeepsReservations
  <1>3. generation \in Nat
    BY RevisionsAreNumbers
  <1>4. ctl \in [Controllers -> Controller]
    BY DEF WorkspaceInv, TypeOK
  <1>5. ASSUME NEW g \in Revisions, IsNextRevision(g)
        PROVE  g \in Nat /\ \A k \in KnownRevisions : k <= g
    <2>1. KnownRevisions \in SUBSET Nat
      BY RevisionsAreNumbers DEF KnownRevisions
    <2>2. g \in Nat
      BY WorkspaceAssumption DEF Revisions
    <2>3. QED BY <1>5, <2>1, <2>2 DEF IsNextRevision
  <1>6. CASE UNCHANGED <<ctl, generation>>
    BY <1>1, <1>2, <1>3, <1>6, HistoryQuiet
  <1>7. ASSUME NEW g \in Revisions, IsNextRevision(g), generation' = g, UNCHANGED ctl
        PROVE  HistoryInv'
    <2>1. generation <= g
      BY <1>5, <1>7, KnownCoverSeen
    <2>2. QED BY <1>1, <1>2, <1>7, <2>1, HistoryQuiet
  <1>8. CASE ReplacementMismatched(r)
    <2>1. PICK c \in Fresh :
            ctl' = [ctl EXCEPT ![c] = [NewController(None, 0) EXCEPT !.state = "disposing"]]
      BY <1>8 DEF ReplacementMismatched
    <2>2. \A s \in Loaded : sessions[s] # c
      BY FreshIsUnused DEF WorkspaceInv, LiveIffOwner, Loaded
    <2>3. \A s \in Loaded : ctl'[sessions[s]] = ctl[sessions[s]]
      BY <1>4, <2>1, <2>2, RevisionsAreNumbers
    <2>4. generation' = generation
      BY <1>8 DEF ReplacementMismatched
    <2>5. QED BY <1>1, <1>2, <1>3, <2>3, <2>4, HistoryQuiet
  <1>9. CASE BeginRevert(r)
    <2> DEFINE s == req[r].sid
    <2>1. ASSUME NEW g \in Revisions, IsNextRevision(g), generation' = g, Mutable(s),
                 ctl' = [ctl EXCEPT ![sessions[s]].rev = g],
                 Goto(r, [req[r] EXCEPT !.phase = "replacing", !.rev = g,
                              !.old = sessions[s], !.held = {s}])
          PROVE  HistoryInv'
      <3>1. s \in Sessions /\ sessions[s] # None /\ sessions[s] \in Controllers
        BY <2>1, RevisionsAreNumbers DEF Mutable, Loaded
      <3>2. /\ generation <= g
            /\ \A t \in Loaded : ctl[sessions[t]].rev <= g
            /\ \A t \in Sessions \ raced : seen[t] <= g
        BY <1>5, <2>1, KnownCoverSeen
      <3>3. /\ ctl'[sessions[s]].rev = g
            /\ \A d \in Controllers \ {sessions[s]} : ctl'[d] = ctl[d]
        BY <1>4, <2>1, <3>1 DEF Controller
      <3>4. g \in Nat /\ \A t \in Sessions : seen[t] \in Nat
        BY <1>5, <2>1, RevisionsAreNumbers
      <3>5. ASSUME NEW t \in Sessions \ raced'
            PROVE  IF sessions'[t] # None THEN ctl'[sessions'[t]].rev >= seen[t]
                                          ELSE generation' >= seen[t]
        <4>1. CASE sessions[t] = None \/ sessions[t] = sessions[s]
          BY <1>1, <2>1, <3>2, <3>3, <3>4, <4>1
        <4>2. CASE sessions[t] # None /\ sessions[t] # sessions[s]
          <5>1. sessions[t] \in Controllers
            BY <4>2, RevisionsAreNumbers DEF Loaded
          <5>2. QED BY <1>1, <3>3, <4>2, <5>1 DEF HistoryInv, HistoryKept
        <4>3. QED BY <4>1, <4>2
      <3>6. /\ req'[r].sid = s /\ req'[r].rev = g
            /\ \A q \in Requests \ {r} : req'[q].phase \notin Reserving
        <4>1. req[r] \in Request /\ req \in [Requests -> Request]
          BY DEF WorkspaceInv, TypeOK
        <4>2. req'[r].sid = s /\ req'[r].rev = g
          BY <2>1, <4>1 DEF Goto, Request
        <4>3. QED
          BY <1>1, <4>2
          DEF NoRevival, WorkspaceInv, OneMutationRuns, IsTurn, Waiting, Reserving
      <3>7. \A q \in Requests :
              req'[q].phase \in Reserving /\ req'[q].sid \notin raced' =>
                /\ req'[q].rev >= seen[req'[q].sid]
                /\ sessions'[req'[q].sid] # None =>
                     req'[q].rev >= ctl'[sessions'[req'[q].sid]].rev
        BY <1>1, <3>1, <3>2, <3>3, <3>4, <3>6
      <3> HIDE DEF s
      <3>8. QED BY <3>5, <3>7, HistoryStep
    <2>2. QED BY <1>6, <1>7, <1>9, <2>1, Zenon DEF BeginRevert
  <1>10. CASE Resolved(r)
    BY <1>6, <1>7, <1>10, Zenon DEF Resolved
  <1>11. CASE ~ReplacementMismatched(r) /\ ~BeginRevert(r) /\ ~Resolved(r)
    <2>1. UNCHANGED <<ctl, generation>>
      BY <1>11 DEF QuietStep, BeginValidation, Refused, OpenValidated, Discarded,
                   Evicted, Refreshed, RenameValidated, DeleteValidated,
                   ReplacementFailed, Retired, BeginFork, ForkFileRemoved, Closed,
                   OwnersUnchanged
    <2>2. QED BY <1>6, <2>1
  <1>12. QED BY <1>8, <1>9, <1>10, <1>11

LEMMA SettleHistory ==
  ASSUME WorkspaceInv, WorkspaceInv', HistoryInv, Report, UNCHANGED raced,
         NEW r \in Requests, NoRevival(r), UNCHANGED <<sessions, ctl, generation>>
  PROVE  HistoryInv'
  <1>1. generation \in Nat
    BY RevisionsAreNumbers
  <1>2. QED BY <1>1, NoRevivalKeepsReservations, HistoryQuiet

LEMMA OpeningHistory ==
  ASSUME WorkspaceInv, WorkspaceInv', HistoryInv, Report, UNCHANGED raced,
         NEW r \in Requests, BeginCreate(r) \/ Opened(r)
  PROVE  HistoryInv'
  <1>1. IsTurn(r) /\ req[r].phase \in {"queued", "opening"}
    BY DEF BeginCreate, Opened, At
  <1>2. CASE OwnersUnchanged /\ (Settle(r) \/ Fail(r))
    BY <1>1, <1>2, SettleNoRevival, FailNoRevival, SettleHistory DEF OwnersUnchanged
  <1>3. CASE BeginCreate(r)
    <2>1. ASSUME NEW victim \in Victims({}), NEW s \in Unused, NEW c \in Fresh,
                 Commit(r, c, s, victim)
          PROVE  HistoryInv'
      <3>1. /\ victim \in Controllers \union {None}
            /\ victim # None => sessions[ctl[victim].sid] = victim
        BY VictimType DEF WorkspaceInv, Typed
      <3>2. s \in Sessions
        BY DEF Unused
      <3>3. QED BY <1>1, <2>1, <3>1, <3>2, CommitHistory
    <2>2. QED BY <1>2, <1>3, <2>1, Zenon DEF BeginCreate
  <1>4. CASE Opened(r)
    <2> DEFINE s == req[r].sid  victim == req[r].victim
    <2>1. /\ req[r].phase = "opening" /\ s \in Sessions
          /\ victim \in Controllers \union {None}
          /\ victim # None => sessions[ctl[victim].sid] = victim
      BY <1>4 DEF Opened, At, WorkspaceInv, OneMutationRuns, Waiting, Remembers,
                  CandidateKept, TypeOK, Request
    <2>2. ASSUME NEW c \in Fresh, Commit(r, c, s, victim) PROVE HistoryInv'
      <3> HIDE DEF s, victim
      <3>1. QED BY <1>1, <2>1, <2>2, CommitHistory
    <2>3. ASSUME NEW c \in Fresh, UNCHANGED sessions, UNCHANGED generation,
                 ctl' = [ctl EXCEPT ![c] = [NewController(s, 0) EXCEPT !.state = "disposing"]],
                 Goto(r, [req[r] EXCEPT !.phase = "discarding", !.wait = {c}])
          PROVE  HistoryInv'
      <3>1. NoRevival(r)
        <4> DEFINE next == [req[r] EXCEPT !.phase = "discarding", !.wait = {c}]
        <4>1. next.phase = "discarding"
          BY DEF WorkspaceInv, TypeOK, Request
        <4>2. Goto(r, next)
          BY <2>3
        <4> HIDE DEF next
        <4>3. QED BY <1>1, <4>1, <4>2, GotoNoRevival DEF Reserving
      <3>2. \A t \in Loaded : sessions[t] # c /\ sessions[t] \in Controllers
        BY FreshIsUnused, RevisionsAreNumbers DEF WorkspaceInv, LiveIffOwner, Loaded
      <3>3. \A t \in Loaded : ctl'[sessions[t]] = ctl[sessions[t]]
        BY <2>3, <3>2 DEF WorkspaceInv, TypeOK
      <3>4. generation \in Nat
        BY RevisionsAreNumbers
      <3>5. \A q \in Requests : ReservationKept(q)
        BY <3>1, NoRevivalKeepsReservations
      <3>6. \A t \in Loaded : ctl'[sessions[t]].rev = ctl[sessions[t]].rev
        BY <3>3
      <3>7. UNCHANGED <<sessions, raced>> /\ generation' >= generation
        BY <2>3, <3>4
      <3>8. QED BY <3>5, <3>6, <3>7, HistoryQuiet
    <2>4. CASE Fail(r) /\ OwnersUnchanged
      BY <1>2, <2>4
    <2>5. QED BY <1>4, <2>2, <2>3, <2>4, Zenon DEF Opened
  <1>5. QED BY <1>3, <1>4

(* A session without an owner is seen no further than the generation, which  *)
(* the recovery owner's removal raises above everything known.               *)
LEMMA RenamedHistory ==
  ASSUME WorkspaceInv, WorkspaceInv', HistoryInv, Report, UNCHANGED raced,
         NEW r \in Requests, Renamed(r)
  PROVE  HistoryInv'
  <1> DEFINE s == req[r].sid
  <1>1. /\ IsTurn(r) /\ req[r].phase = "renaming"
        /\ req[r] \in Request /\ req \in [Requests -> Request] /\ s \in Sessions
    BY DEF Renamed, At, WorkspaceInv, TypeOK, OneMutationRuns, Waiting
  <1>2. CASE Settle(r) /\ OwnersUnchanged
    BY <1>1, <1>2, SettleNoRevival, SettleHistory DEF OwnersUnchanged
  <1>3. CASE Goto(r, [req[r] EXCEPT !.phase = "refreshing"]) /\ OwnersUnchanged
    <2>1. NoRevival(r)
      BY <1>1, <1>3, GotoNoRevival DEF WorkspaceInv, TypeOK, Goto, Request, Reserving
    <2>2. QED BY <1>3, <2>1, SettleHistory DEF OwnersUnchanged
  <1>4. ASSUME req[r].old # None, NEW g \in Revisions, IsNextRevision(g),
               generation' = g, sessions' = [sessions EXCEPT ![s] = None],
               ctl' = [ctl EXCEPT ![sessions[s]] = Doomed(sessions[s])],
               Goto(r, [req[r] EXCEPT !.phase = "burying", !.rev = g,
                                      !.wait = {sessions[s]}])
        PROVE  HistoryInv'
    <2>1. g \in Nat /\ \A k \in KnownRevisions : k <= g
      <3>1. KnownRevisions \in SUBSET Nat
        BY RevisionsAreNumbers DEF KnownRevisions
      <3>2. g \in Nat
        BY WorkspaceAssumption DEF Revisions
      <3>3. QED BY <1>4, <3>1, <3>2 DEF IsNextRevision
    <2>2. \A t \in Sessions \ raced : seen[t] <= g /\ seen[t] \in Nat
      BY <2>1, KnownCoverSeen, RevisionsAreNumbers
    <2>3. sessions' \in [Sessions -> Controllers \union {None}]
          /\ \A t \in Sessions : sessions'[t] = IF t = s THEN None ELSE sessions[t]
      BY <1>4, WorkspaceAssumption DEF WorkspaceInv, TypeOK
    <2>4. \A t \in Sessions \ {s} : sessions[t] # None =>
            ctl'[sessions[t]] = ctl[sessions[t]]
      BY <1>1, <1>4 DEF WorkspaceInv, TypeOK, LiveIffOwner
    <2>5. ASSUME NEW t \in Sessions \ raced'
          PROVE  IF sessions'[t] # None THEN ctl'[sessions'[t]].rev >= seen[t]
                                        ELSE generation' >= seen[t]
      BY <1>4, <2>1, <2>2, <2>3, <2>4 DEF HistoryInv, HistoryKept
    <2>6. /\ req'[r].sid = s /\ req'[r].rev = g
          /\ \A q \in Requests \ {r} : req'[q].phase \notin Reserving
      <3>1. req'[r].sid = s /\ req'[r].rev = g
        BY <1>1, <1>4 DEF Goto, Request
      <3>2. QED
        BY <1>1, <1>4, <3>1
        DEF Goto, WorkspaceInv, OneMutationRuns, IsTurn, Waiting, Reserving
    <2>7. \A q \in Requests :
            req'[q].phase \in Reserving /\ req'[q].sid \notin raced' =>
              /\ req'[q].rev >= seen[req'[q].sid]
              /\ sessions'[req'[q].sid] # None =>
                   req'[q].rev >= ctl'[sessions'[req'[q].sid]].rev
      BY <1>1, <2>1, <2>2, <2>3, <2>6
    <2> HIDE DEF s
    <2>8. QED BY <2>5, <2>7, HistoryStep
  <1>5. QED BY <1>2, <1>3, <1>4, Zenon DEF Renamed

(* The reserved revision stays reserved until the file is back. *)
LEMMA RevivalHistory ==
  ASSUME WorkspaceInv, WorkspaceInv', HistoryInv, Report, UNCHANGED raced,
         NEW r \in Requests, Buried(r) \/ Restored(r)
  PROVE  HistoryInv'
  <1>1. /\ IsTurn(r) /\ req[r].phase \in Reserving
        /\ UNCHANGED <<sessions, ctl, generation>>
        /\ req[r] \in Request /\ req \in [Requests -> Request]
    BY DEF Buried, Restored, At, OwnersUnchanged, Reserving, WorkspaceInv, TypeOK
  <1>2. CASE Settle(r)
    BY <1>1, <1>2, SettleNoRevival, SettleHistory
  <1>3. ASSUME NEW next, Goto(r, next), next.sid = req[r].sid, next.rev = req[r].rev
        PROVE  HistoryInv'
    <2>1. \A q \in Requests : ReservationKept(q)
      BY <1>1, <1>3
      DEF ReservationKept, Goto, WorkspaceInv, OneMutationRuns, IsTurn, Waiting
    <2>2. generation \in Nat
      BY RevisionsAreNumbers
    <2>3. QED BY <1>1, <2>1, <2>2, HistoryQuiet
  <1>4. /\ [req[r] EXCEPT !.phase = "refreshing", !.wait = {}].sid = req[r].sid
        /\ [req[r] EXCEPT !.phase = "refreshing", !.wait = {}].rev = req[r].rev
        /\ [req[r] EXCEPT !.phase = "restoring", !.wait = {}].sid = req[r].sid
        /\ [req[r] EXCEPT !.phase = "restoring", !.wait = {}].rev = req[r].rev
        /\ [req[r] EXCEPT !.phase = "reviving"].sid = req[r].sid
        /\ [req[r] EXCEPT !.phase = "reviving"].rev = req[r].rev
    BY <1>1 DEF Request
  <1>5. QED BY <1>2, <1>3, <1>4, Zenon DEF Buried, Restored

(* A replacement starts at the revision reserved for it. *)
LEMMA ReplacementHistory ==
  ASSUME WorkspaceInv, WorkspaceInv', HistoryInv, Report, UNCHANGED raced,
         NEW r \in Requests, ReplacementOpened(r)
  PROVE  HistoryInv'
  <1> DEFINE s == req[r].sid  old == req[r].old
  <1>1. /\ IsTurn(r) /\ req[r].phase \in {"replacing", "recovering", "reviving"}
        /\ s \in Sessions /\ UNCHANGED generation
        /\ ctl \in [Controllers -> Controller]
        /\ sessions \in [Sessions -> Controllers \union {None}]
    BY DEF ReplacementOpened, Replacing, At, WorkspaceInv, OneMutationRuns, Waiting, TypeOK
  <1>2. PICK c \in Fresh :
          /\ sessions' = [sessions EXCEPT ![s] = c]
          /\ \/ ctl' = [ctl EXCEPT ![c] = NewController(s, req[r].rev)]
             \/ /\ req[r].phase # "reviving"
                /\ ctl' = [ctl EXCEPT ![c] = NewController(s, req[r].rev),
                                      ![old] = Doomed(old)]
    BY Zenon DEF ReplacementOpened
  <1>3. c \in Controllers /\ ctl[c].state = "unborn" /\ c # None
    BY FreshIsUnused, WorkspaceAssumption
  <1>4. req[r].phase # "reviving" =>
          old \in Controllers /\ sessions[s] = old /\ ctl[old].state = "live"
    BY <1>1 DEF WorkspaceInv, Remembers, OldKept, LiveIffOwner
  <1>5. ctl'[c].rev = req[r].rev
    BY <1>1, <1>2, <1>3, <1>4 DEF NewController
  <1>6. \A t \in Sessions \ {s} :
          /\ sessions'[t] = sessions[t]
          /\ sessions[t] # None => ctl'[sessions[t]] = ctl[sessions[t]]
    <2> SUFFICES ASSUME NEW t \in Sessions \ {s}
                 PROVE  /\ sessions'[t] = sessions[t]
                        /\ sessions[t] # None => ctl'[sessions[t]] = ctl[sessions[t]]
      OBVIOUS
    <2>1. sessions[t] # None => /\ sessions[t] \in Controllers
                                /\ ctl[sessions[t]].state = "live"
                                /\ ctl[sessions[t]].sid = t
      BY <1>1 DEF WorkspaceInv, LiveIffOwner
    <2>2. req[r].phase # "reviving" => ctl[old].sid = s
      BY <1>1, <1>4, WorkspaceAssumption DEF WorkspaceInv, LiveIffOwner
    <2>3. QED BY <1>1, <1>2, <1>3, <2>1, <2>2
  <1>7. ASSUME NEW t \in Sessions \ raced'
        PROVE  IF sessions'[t] # None THEN ctl'[sessions'[t]].rev >= seen[t]
                                      ELSE generation' >= seen[t]
    <2>1. CASE t = s
      <3>1. sessions'[t] = c /\ req[r].rev >= seen[s]
        BY <1>1, <1>2, <2>1 DEF HistoryInv, ReservedRevisionsKept, Reserving
      <3>2. QED BY <1>3, <1>5, <2>1, <3>1
    <2>2. CASE t # s
      BY <1>1, <1>6, <2>2 DEF HistoryInv, HistoryKept
    <2>3. QED BY <2>1, <2>2
  <1>8. NoReservation
    <2>1. CASE Settle(r)
      BY <1>1, <2>1, SettleNoRevival, NothingReserved
    <2>2. CASE Goto(r, [req[r] EXCEPT !.phase = "retiring", !.wait = {req[r].old}])
      <3>1. NoRevival(r) /\ req'[r].phase \notin Reserving
        <4> DEFINE next == [req[r] EXCEPT !.phase = "retiring", !.wait = {req[r].old}]
        <4>1. next.phase = "retiring"
          BY <1>1 DEF WorkspaceInv, TypeOK, Request
        <4> HIDE DEF next
        <4>2. Goto(r, next) /\ next.phase \notin Reserving
          BY <2>2, <4>1 DEF next, Reserving
        <4> QED
          BY <1>1, <4>2, GotoNoRevival
      <3>2. QED BY <3>1, NothingReserved
    <2>3. QED BY <2>1, <2>2, Zenon DEF ReplacementOpened
  <1> HIDE DEF s, old
  <1>9. QED BY <1>7, <1>8, HistoryStep DEF NoReservation

(* At shutdown the generation takes over from every owner. *)
LEMMA DisposeAllHistory ==
  ASSUME WorkspaceInv, WorkspaceInv', HistoryInv, Report, UNCHANGED raced,
         NEW r \in Requests, BeginDisposeAll(r)
  PROVE  HistoryInv'
  <1> DEFINE owners == {sessions[s] : s \in Loaded}
             next == [req[r] EXCEPT !.phase = "closing", !.wait = owners]
  <1>1. /\ IsTurn(r) /\ Goto(r, next) /\ sessions' = [s \in Sessions |-> None]
        /\ IsAdvancedGeneration(generation') /\ generation' \in Nat
    BY WorkspaceAssumption DEF BeginDisposeAll, At, Revisions
  <1>2. next.phase = "closing"
    BY DEF WorkspaceInv, TypeOK, Request
  <1> HIDE DEF next
  <1>3. NoReservation
    BY <1>1, <1>2, GotoNoRevival, NothingReserved DEF Reserving
  <1>4. \A s \in Sessions \ raced : generation' >= seen[s]
    <2>1. PICK g \in Nat : g = generation'
      BY <1>1
    <2>2. \A s \in Sessions \ raced : seen[s] <= g /\ seen[s] \in Nat
      BY <1>1, <2>1, KnownCoverSeen, RevisionsAreNumbers DEF IsAdvancedGeneration
    <2>3. QED BY <2>1, <2>2
  <1>5. QED BY <1>1, <1>3, <1>4, HistoryStep DEF NoReservation

LEMMA InitHistory == Init => HistoryInv
  BY WorkspaceAssumption
  DEF Init, HistoryInv, OwnersReport, HistoryKept, ReservedRevisionsKept, Loaded,
      FreeRequest, Reserving

LEMMA NextHistory ==
  ASSUME WorkspaceInv, WorkspaceInv', HistoryInv, [Next]_vars
  PROVE  HistoryInv'
  <1>1. CASE Environment
    BY <1>1, EnvironmentHistory
  <1>2. ASSUME NEW r \in Requests, Step(r) PROVE HistoryInv'
    <2>1. Report /\ UNCHANGED raced
      BY <1>2
      DEF Step, EnvironmentUnchanged, BeginCreate, BeginValidation, Refused,
          OpenValidated, Opened, Discarded, Evicted, Refreshed, RenameValidated,
          DeleteValidated, Resolved, Renamed, Buried, Restored, ReplacementFailed,
          ReplacementMismatched, ReplacementOpened, Retired, BeginFork,
          ForkFileRemoved, BeginRevert, BeginDisposeAll, Closed
    <2>2. QED
      BY <1>2, <2>1, QuietHistory, OpeningHistory, RenamedHistory, RevivalHistory,
         ReplacementHistory, DisposeAllHistory
      DEF Step, QuietStep
  <1>3. CASE UNCHANGED vars
    BY <1>3
    DEF vars, HistoryInv, OwnersReport, HistoryKept, ReservedRevisionsKept, Loaded
  <1>4. QED BY <1>1, <1>2, <1>3 DEF Next

(* What was seen of a session without an owner is covered by the generation, *)
(* and by the revision reserved for its next owner.                          *)
THEOREM HistoryInvariant == Spec => []HistoryInv
  <1>1. WorkspaceInv /\ HistoryInv /\ [Next]_vars => WorkspaceInv' /\ HistoryInv'
    BY NextInv, NextHistory
  <1>2. Spec => [](WorkspaceInv /\ HistoryInv)
    BY <1>1, InitInv, InitHistory, PTL DEF Spec
  <1>3. QED BY <1>2, PTL

(* No browser is shown an older transcript than it has seen, across reverts, *)
(* evictions, reopenings and failed deletes.                                 *)
THEOREM HistoryIsKept == Spec => []HistoryNeverRegresses
  <1>1. HistoryInv => HistoryNeverRegresses
    BY DEF HistoryInv, HistoryKept, HistoryNeverRegresses
  <1>2. QED BY <1>1, HistoryInvariant, PTL

-------------------------------------------------------------------------------
(* How a session gains and loses its owner *)

Gains(s) == sessions[s] = None /\ sessions'[s] # None
Loses(s) == sessions[s] # None /\ sessions'[s] = None
Spares(s) == s \notin protected /\ ~IsBusy(sessions[s])

LEMMA CommitMoves ==
  ASSUME NEW r, NEW c \in Fresh, NEW s \in Sessions, NEW victim,
         Commit(r, c, s, victim), sessions[s] = None,
         victim # None => Spares(ctl[victim].sid)
  PROVE  /\ Gains(s)
         /\ \A t \in Sessions : Loses(t) => Spares(t)
  <1>1. sessions' = [t \in Sessions |->
                       IF t = s THEN c
                       ELSE IF t \in SessionOf(victim) THEN None ELSE sessions[t]]
    BY DEF Commit
  <1>2. c # None
    BY FreshIsUnused, WorkspaceAssumption
  <1>3. QED BY <1>1, <1>2 DEF Gains, Loses, SessionOf

(* Registering an owner evicts another, and no session that may not be. *)
LEMMA OpeningMoves ==
  ASSUME WorkspaceInv, NEW r \in Requests, BeginCreate(r) \/ Opened(r)
  PROVE  \A s \in Sessions : Loses(s) => Spares(s) /\ \E t \in Sessions : Gains(t)
  <1>1. CASE UNCHANGED sessions
    BY <1>1 DEF Loses
  <1>2. CASE BeginCreate(r)
    <2>1. ASSUME NEW victim \in Victims({}), NEW s \in Unused, NEW c \in Fresh,
                 Commit(r, c, s, victim)
          PROVE  \A t \in Sessions : Loses(t) => Spares(t) /\ \E u \in Sessions : Gains(u)
      <3>1. s \in Sessions /\ sessions[s] = None
        BY DEF Unused, WorkspaceInv, OwnersHaveFiles, Loaded
      <3>2. victim # None => Spares(ctl[victim].sid)
        BY DEF Victims, Evictable, Spares, WorkspaceInv, LiveIffOwner, Loaded
      <3>3. QED BY <2>1, <3>1, <3>2, CommitMoves
    <2>2. QED BY <1>1, <1>2, <2>1 DEF BeginCreate, OwnersUnchanged
  <1>3. CASE Opened(r)
    <2> DEFINE s == req[r].sid  victim == req[r].victim
    <2>1. ASSUME NEW c \in Fresh, Registrable(s, victim), Commit(r, c, s, victim)
          PROVE  \A t \in Sessions : Loses(t) => Spares(t) /\ \E u \in Sessions : Gains(u)
      <3>1. s \in Sessions /\ sessions[s] = None
        BY <1>3, <2>1
        DEF Opened, At, WorkspaceInv, OneMutationRuns, Waiting, Registrable
      <3>2. victim # None => Spares(ctl[victim].sid)
        BY <2>1 DEF Registrable, VictimAvailable, Spares
      <3> HIDE DEF s, victim
      <3>3. QED BY <2>1, <3>1, <3>2, CommitMoves
    <2>2. QED BY <1>1, <1>3, <2>1, Zenon DEF Opened, OwnersUnchanged
  <1>4. QED BY <1>2, <1>3

(* Every other piece only takes owners out, or only puts one in. *)
LEMMA OtherMoves ==
  ASSUME WorkspaceInv, NEW r \in Requests, Step(r), ~BeginCreate(r), ~Opened(r)
  PROVE  \/ \A s \in Sessions : ~Gains(s)
         \/ \A s \in Sessions : ~Loses(s)
  <1>1. sessions \in [Sessions -> Controllers \union {None}]
    BY DEF WorkspaceInv, TypeOK
  <1>2. CASE UNCHANGED sessions
    BY <1>2 DEF Gains
  <1>3. CASE QuietStep(r) \/ Buried(r) \/ Restored(r)
    BY <1>2, <1>3, QuietStepStartsNoRevival DEF Buried, Restored, OwnersUnchanged
  <1>4. CASE Renamed(r)
    <2>1. ASSUME sessions' = [sessions EXCEPT ![req[r].sid] = None]
          PROVE  \A s \in Sessions : ~Gains(s)
      BY <1>1, <2>1 DEF Gains
    <2>2. QED BY <1>2, <1>4, <2>1, Zenon DEF Renamed, OwnersUnchanged
  <1>5. CASE ReplacementOpened(r)
    <2>1. PICK c \in Fresh : sessions' = [sessions EXCEPT ![req[r].sid] = c]
      BY <1>5 DEF ReplacementOpened
    <2>2. c # None
      BY FreshIsUnused, WorkspaceAssumption
    <2>3. QED BY <1>1, <2>1, <2>2 DEF Loses
  <1>6. CASE BeginDisposeAll(r)
    BY <1>6 DEF BeginDisposeAll, Gains
  <1>7. QED BY <1>3, <1>4, <1>5, <1>6 DEF Step, QuietStep

(* A session that a browser focuses, or that works, is never evicted for     *)
(* another, at whichever await the candidate was chosen.                     *)
THEOREM EvictionSpares == Spec => EvictionSparesFocusedAndBusy
  <1> DEFINE Spared == \A s, t \in Sessions :
                         /\ sessions[t] = None /\ sessions'[t] # None
                         /\ sessions[s] # None /\ sessions'[s] = None
                         => s \notin protected /\ ~IsBusy(sessions[s])
  <1>1. ASSUME WorkspaceInv, [Next]_vars PROVE Spared
    <2>1. CASE UNCHANGED sessions
      BY <2>1
    <2>2. CASE Environment
      BY <2>1, <2>2
      DEF Environment, Enqueue, OwnersUnchanged, DisposeSettled, Visibility, Progress,
          WorkSettled, Submit, FocusMoved, LifecycleUnchanged
    <2>3. ASSUME NEW r \in Requests, Step(r) PROVE Spared
      <3>1. CASE BeginCreate(r) \/ Opened(r)
        BY <1>1, <3>1, OpeningMoves DEF Loses, Spares
      <3>2. CASE ~BeginCreate(r) /\ ~Opened(r)
        BY <1>1, <2>3, <3>2, OtherMoves DEF Gains, Loses
      <3>3. QED BY <3>1, <3>2
    <2>4. CASE UNCHANGED vars
      BY <2>1, <2>4 DEF vars
    <2>5. QED BY <1>1, <2>2, <2>3, <2>4 DEF Next
  <1>2. WorkspaceInv /\ [Next]_vars => [Spared]_vars
    BY <1>1
  <1>3. QED BY <1>2, WorkspaceInvariant, PTL DEF Spec, EvictionSparesFocusedAndBusy

-------------------------------------------------------------------------------
(* Forks and soft deletes: all or nothing *)

(* Only the running mutation makes progress. *)
LEMMA SettleProgress ==
  ASSUME WorkspaceInv, NEW r \in Requests, IsTurn(r), Settle(r), OwnersKeepFiles'
  PROVE  ProgressInv'
  <1>1. \A q \in Requests : req'[q].phase \in {"free", "queued"}
    BY DEF WorkspaceInv, TypeOK, OneMutationRuns, IsTurn, Waiting, Settle, FreeRequest
  <1>2. QED
    BY <1>1 DEF ProgressInv, ForkProgress, DeleteProgress, FileReady, Waiting

LEMMA GotoProgress ==
  ASSUME WorkspaceInv, NEW r \in Requests, IsTurn(r), NEW next, Goto(r, next),
         OwnersKeepFiles',
         next.kind = "fork" =>
           /\ next.phase \in ForkPhases
           /\ next.phase \in {"evicting", "refreshing"} => sessions'[next.sid] # None,
         next.kind = "delete" =>
           /\ next.phase \in DeletePhases
           /\ next.phase = "retiring" => next.old # None
           /\ next.phase \in {"burying", "restoring"} => disk'[next.sid] = "deleted"
           /\ next.phase = "discarding" => disk'[next.sid] # "deleted"
           /\ next.phase = "refreshing" /\ next.old # None =>
                disk'[next.sid] = "deleted" /\ next.sid \notin unannounced',
         next.phase \in {"opening", "reviving"} => disk'[next.sid] # "deleted",
         next.phase \in {"resolving", "renaming"} /\ next.old = None =>
           sessions'[next.sid] = None
  PROVE  ProgressInv'
  <1>1. req'[r] = next
    BY GotoAt DEF WorkspaceInv
  <1>2. \A q \in Requests \ {r} : req'[q].phase \in {"free", "queued"}
    BY DEF WorkspaceInv, TypeOK, OneMutationRuns, IsTurn, Waiting, Goto
  <1>3. ForkProgress(r)' /\ DeleteProgress(r)' /\ FileReady(r)'
    BY <1>1 DEF ForkProgress, DeleteProgress, FileReady
  <1>4. \A q \in Requests \ {r} :
          ForkProgress(q)' /\ DeleteProgress(q)' /\ FileReady(q)'
    BY <1>2 DEF ForkProgress, DeleteProgress, FileReady, Waiting
  <1>5. QED BY <1>3, <1>4 DEF ProgressInv

(* Files of loaded sessions stay when no owner and no file changes. *)
LEMMA OwnersFilesStay ==
  ASSUME OwnersKeepFiles, UNCHANGED sessions,
         \A s \in Sessions : disk'[s] = "deleted" => disk[s] = "deleted"
  PROVE  OwnersKeepFiles'
  BY DEF OwnersKeepFiles, Loaded

LEMMA FailProgress ==
  ASSUME WorkspaceInv, OwnersKeepFiles', NEW r \in Requests, IsTurn(r), Fail(r)
  PROVE  ProgressInv'
  <1>1. CASE req[r].kind = "fork"
    <2> DEFINE next == [req[r] EXCEPT !.phase = "removing", !.wait = {}]
    <2>1. Goto(r, next)
      BY <1>1 DEF Fail
    <2>2. next.phase = "removing" /\ next.kind = "fork"
      BY <1>1 DEF WorkspaceInv, TypeOK, Request
    <2> HIDE DEF next
    <2>3. QED BY <2>1, <2>2, GotoProgress DEF ForkPhases
  <1>2. CASE req[r].kind # "fork"
    BY <1>2, SettleProgress DEF Fail
  <1>3. QED BY <1>1, <1>2

(* What the invariant says of the mutation whose turn it is. *)
LEMMA Underway ==
  ASSUME WorkspaceInv, ProgressInv, NEW r \in Requests, IsTurn(r), ~Waiting(r),
         req[r].phase # "closing"
  PROVE  /\ req[r].sid \in Sessions /\ Remembers(r) /\ FileReady(r)
         /\ req[r].kind = "fork" => req[r].phase \in ForkPhases
         /\ req[r].kind = "delete" => req[r].phase \in DeletePhases
         /\ OldKept(r) => disk[req[r].sid] # "deleted"
  BY TurnSession DEF ProgressInv, ForkProgress, DeleteProgress, OldKept,
     OwnersKeepFiles, Loaded

(* Pieces that change neither owners nor files, and no announcement. *)
LEMMA StillProgress ==
  ASSUME WorkspaceInv, ProgressInv, NEW r \in Requests,
         \/ BeginValidation(r) \/ Refused(r) \/ OpenValidated(r) \/ Discarded(r)
         \/ Evicted(r) \/ Refreshed(r) \/ RenameValidated(r) \/ DeleteValidated(r)
         \/ Resolved(r) \/ ReplacementFailed(r) \/ Retired(r) \/ BeginRevert(r)
         \/ Closed(r)
  PROVE  ProgressInv'
  <1>1. IsTurn(r) /\ UNCHANGED <<sessions, disk, unannounced>>
    BY DEF BeginValidation, Refused, OpenValidated, Discarded, Evicted, Refreshed,
           RenameValidated, DeleteValidated, Resolved, ReplacementFailed, Replacing,
           Retired, BeginRevert, Closed, OwnersUnchanged, At
  <1>2. OwnersKeepFiles'
    BY <1>1, OwnersFilesStay DEF ProgressInv
  <1>3. CASE Settle(r) \/ Fail(r)
    BY <1>1, <1>2, <1>3, SettleProgress, FailProgress
  <1>4. req[r] \in Request
    BY DEF WorkspaceInv, TypeOK
  <1>5. ASSUME NEW next, Goto(r, next), next.kind \notin {"fork", "delete"},
               next.phase \notin {"opening", "reviving", "resolving", "renaming"}
        PROVE  ProgressInv'
    BY <1>1, <1>2, <1>5, GotoProgress
  <1>6. CASE BeginValidation(r)
    <2> DEFINE next == [req[r] EXCEPT !.phase = "validating"]
    <2>1. Goto(r, next) /\ next.phase = "validating" /\ next.kind # "fork"
      BY <1>4, <1>6 DEF BeginValidation, Request
    <2> HIDE DEF next
    <2>2. QED BY <1>1, <1>2, <2>1, GotoProgress DEF DeletePhases
  <1>7. CASE OpenValidated(r)
    <2>1. req[r].kind \in {"open", "fork"} /\ disk[req[r].sid] = "present"
      BY <1>7 DEF OpenValidated
    <2>2. ASSUME NEW next, Goto(r, next), next.phase = "opening",
                 next.sid = req[r].sid, next.kind = req[r].kind
          PROVE  ProgressInv'
      BY <1>1, <1>2, <2>1, <2>2, GotoProgress DEF ForkPhases
    <2>3. ASSUME NEW victim, Goto(r, [req[r] EXCEPT !.phase = "opening",
                                 !.victim = victim, !.held = SessionOf(victim)])
          PROVE  ProgressInv'
      <3> DEFINE next == [req[r] EXCEPT !.phase = "opening",
                                 !.victim = victim, !.held = SessionOf(victim)]
      <3>1. next.phase = "opening" /\ next.sid = req[r].sid /\ next.kind = req[r].kind
        BY <1>4 DEF Request
      <3>2. Goto(r, next)
        BY <2>3
      <3> HIDE DEF next
      <3>3. QED BY <2>2, <3>1, <3>2
    <2>4. ASSUME Goto(r, [req[r] EXCEPT !.phase = "opening"])
          PROVE  ProgressInv'
      <3> DEFINE next == [req[r] EXCEPT !.phase = "opening"]
      <3>1. next.phase = "opening" /\ next.sid = req[r].sid /\ next.kind = req[r].kind
        BY <1>4 DEF Request
      <3>2. Goto(r, next)
        BY <2>4
      <3> HIDE DEF next
      <3>3. QED BY <2>2, <3>1, <3>2
    <2>5. QED BY <1>3, <1>7, <2>3, <2>4, Zenon DEF OpenValidated
  <1>8. CASE Evicted(r)
    <2>1. req[r].phase = "evicting"
      BY <1>8 DEF Evicted, At
    <2>2. ASSUME req[r].kind = "fork",
                 Goto(r, [req[r] EXCEPT !.phase = "refreshing", !.wait = {}])
          PROVE  ProgressInv'
      <3> DEFINE next == [req[r] EXCEPT !.phase = "refreshing", !.wait = {}]
      <3>1. next.phase = "refreshing" /\ next.sid = req[r].sid /\ next.kind = "fork"
        BY <1>4, <2>2 DEF Request
      <3>2. sessions[req[r].sid] # None
        BY <2>1, <2>2 DEF ProgressInv, ForkProgress, Waiting
      <3>3. Goto(r, next)
        BY <2>2
      <3> HIDE DEF next
      <3>4. QED BY <1>1, <1>2, <3>1, <3>2, <3>3, GotoProgress DEF ForkPhases
    <2>3. QED BY <1>3, <1>8, <2>2, Zenon DEF Evicted
  <1>9. CASE RenameValidated(r)
    <2> DEFINE next == [req[r] EXCEPT !.phase = "refreshing"]
    <2>1. Goto(r, next) /\ next.phase = "refreshing" /\ next.kind = "rename"
      BY <1>4, <1>9 DEF RenameValidated, Request
    <2> HIDE DEF next
    <2>2. QED BY <1>5, <2>1
  <1>10. CASE DeleteValidated(r)
    <2>1. /\ req[r].kind = "delete" /\ req[r].phase = "validating"
          /\ req[r].old = None
      BY <1>10 DEF DeleteValidated, At, WorkspaceInv, Remembers
    <2>2. ASSUME sessions[req[r].sid] = None,
                 Goto(r, [req[r] EXCEPT !.phase = "resolving"])
          PROVE  ProgressInv'
      <3> DEFINE next == [req[r] EXCEPT !.phase = "resolving"]
      <3>1. next.phase = "resolving" /\ next.sid = req[r].sid /\ next.kind = "delete"
        BY <1>4, <2>1 DEF Request
      <3>2. Goto(r, next)
        BY <2>2
      <3> HIDE DEF next
      <3>3. QED BY <1>1, <1>2, <2>2, <3>1, <3>2, GotoProgress DEF DeletePhases
    <2>3. ASSUME Mutable(req[r].sid),
                 Goto(r, [req[r] EXCEPT !.phase = "resolving",
                              !.old = sessions[req[r].sid], !.held = {req[r].sid}])
          PROVE  ProgressInv'
      <3> DEFINE next == [req[r] EXCEPT !.phase = "resolving",
                              !.old = sessions[req[r].sid], !.held = {req[r].sid}]
      <3>1. next.phase = "resolving" /\ next.kind = "delete" /\ next.old # None
        BY <1>4, <2>1, <2>3 DEF Request, Mutable, Loaded
      <3>2. Goto(r, next)
        BY <2>3
      <3> HIDE DEF next
      <3>3. QED BY <1>1, <1>2, <3>1, <3>2, GotoProgress DEF DeletePhases
    <2>4. QED BY <1>10, <2>2, <2>3, Zenon DEF DeleteValidated
  <1>11. CASE Resolved(r)
    <2>1. /\ req[r].phase = "resolving" /\ ~Waiting(r)
          /\ req[r].kind # "fork"
          /\ req[r].old = None => sessions[req[r].sid] = None
      BY <1>11, <1>1, Underway DEF Resolved, At, Waiting, FileReady, ForkPhases
    <2>2. ASSUME req[r].old = None, Goto(r, [req[r] EXCEPT !.phase = "renaming"])
          PROVE  ProgressInv'
      <3> DEFINE next == [req[r] EXCEPT !.phase = "renaming"]
      <3>1. next.phase = "renaming" /\ next.sid = req[r].sid /\ next.kind = req[r].kind
        BY <1>4 DEF Request
      <3>2. Goto(r, next)
        BY <2>2
      <3> HIDE DEF next
      <3>3. QED BY <1>1, <1>2, <2>1, <2>2, <3>1, <3>2, GotoProgress DEF DeletePhases
    <2>3. ASSUME NEW g, Goto(r, [req[r] EXCEPT !.phase = "recovering", !.rev = g])
          PROVE  ProgressInv'
      <3> DEFINE next == [req[r] EXCEPT !.phase = "recovering", !.rev = g]
      <3>1. next.phase = "recovering" /\ next.kind = req[r].kind
        BY <1>4 DEF Request
      <3>2. Goto(r, next)
        BY <2>3
      <3> HIDE DEF next
      <3>3. QED BY <1>1, <1>2, <2>1, <3>1, <3>2, GotoProgress DEF DeletePhases
    <2>4. QED BY <1>3, <1>11, <2>2, <2>3, Zenon DEF Resolved
  <1>12. CASE Retired(r)
    <2>1. req[r].phase = "retiring"
      BY <1>12 DEF Retired, At
    <2>2. ASSUME req[r].kind = "revert",
                 Goto(r, [req[r] EXCEPT !.phase = "refreshing", !.wait = {}])
          PROVE  ProgressInv'
      <3> DEFINE next == [req[r] EXCEPT !.phase = "refreshing", !.wait = {}]
      <3>1. next.phase = "refreshing" /\ next.kind = "revert"
        BY <1>4, <2>2 DEF Request
      <3>2. Goto(r, next)
        BY <2>2
      <3> HIDE DEF next
      <3>3. QED BY <1>5, <3>1, <3>2
    <2>3. ASSUME req[r].kind = "delete",
                 Goto(r, [req[r] EXCEPT !.phase = "renaming", !.wait = {}])
          PROVE  ProgressInv'
      <3> DEFINE next == [req[r] EXCEPT !.phase = "renaming", !.wait = {}]
      <3>1. next.phase = "renaming" /\ next.kind = "delete" /\ next.old = req[r].old
        BY <1>4, <2>3 DEF Request
      <3>2. req[r].old # None
        BY <2>1, <2>3 DEF ProgressInv, DeleteProgress, Waiting
      <3>3. Goto(r, next)
        BY <2>3
      <3> HIDE DEF next
      <3>4. QED BY <1>1, <1>2, <3>1, <3>2, <3>3, GotoProgress DEF DeletePhases
    <2>4. QED BY <1>3, <1>12, <2>2, <2>3, Zenon DEF Retired
  <1>13. CASE BeginRevert(r)
    <2>1. ASSUME NEW g, Goto(r, [req[r] EXCEPT !.phase = "replacing", !.rev = g,
                            !.old = sessions[req[r].sid], !.held = {req[r].sid}])
          PROVE  ProgressInv'
      <3> DEFINE next == [req[r] EXCEPT !.phase = "replacing", !.rev = g,
                            !.old = sessions[req[r].sid], !.held = {req[r].sid}]
      <3>1. next.phase = "replacing" /\ next.kind = "revert"
        BY <1>4, <1>13 DEF Request, BeginRevert
      <3>2. Goto(r, next)
        BY <2>1
      <3> HIDE DEF next
      <3>3. QED BY <1>5, <3>1, <3>2
    <2>2. QED BY <1>3, <1>13, <2>1, Zenon DEF BeginRevert
  <1>14. QED
    BY <1>3, <1>6, <1>7, <1>8, <1>9, <1>10, <1>11, <1>12, <1>13
    DEF Refused, Discarded, Refreshed, ReplacementFailed, Closed

(* The session a fork registers is the one whose file it wrote. *)
LEMMA CommitProgress ==
  ASSUME WorkspaceInv, ProgressInv, NEW r \in Requests, IsTurn(r),
         NEW c \in Fresh, NEW s \in Sessions, NEW victim, Commit(r, c, s, victim),
         disk'[s] # "deleted",
         \A t \in Sessions : disk'[t] = "deleted" => disk[t] = "deleted",
         req[r].kind # "delete",
         req[r].kind = "fork" => req[r].sid = s
  PROVE  ProgressInv'
  <1>1. /\ sessions' = [t \in Sessions |->
                          IF t = s THEN c
                          ELSE IF t \in SessionOf(victim) THEN None ELSE sessions[t]]
        /\ req[r] \in Request
    BY DEF Commit, WorkspaceInv, TypeOK
  <1>2. OwnersKeepFiles'
    BY <1>1 DEF ProgressInv, OwnersKeepFiles, Loaded
  <1>3. sessions'[s] # None
    BY <1>1, FreshIsUnused, WorkspaceAssumption
  <1>4. CASE Settle(r)
    BY <1>2, <1>4, SettleProgress
  <1>5. ASSUME Goto(r, [req[r] EXCEPT !.phase = "evicting", !.sid = s,
                       !.victim = victim, !.wait = {victim},
                       !.held = SessionOf(victim)])
        PROVE  ProgressInv'
    <2> DEFINE next == [req[r] EXCEPT !.phase = "evicting", !.sid = s,
                       !.victim = victim, !.wait = {victim},
                       !.held = SessionOf(victim)]
    <2>1. next.phase = "evicting" /\ next.sid = s /\ next.kind = req[r].kind
      BY <1>1 DEF Request
    <2>2. Goto(r, next)
      BY <1>5
    <2> HIDE DEF next
    <2>3. QED BY <1>2, <1>3, <2>1, <2>2, GotoProgress DEF ForkPhases
  <1>6. ASSUME req[r].kind = "fork", Goto(r, [req[r] EXCEPT !.phase = "refreshing"])
        PROVE  ProgressInv'
    <2> DEFINE next == [req[r] EXCEPT !.phase = "refreshing"]
    <2>1. next.phase = "refreshing" /\ next.sid = s /\ next.kind = "fork"
      BY <1>1, <1>6 DEF Request
    <2>2. Goto(r, next)
      BY <1>6
    <2> HIDE DEF next
    <2>3. QED BY <1>2, <1>3, <2>1, <2>2, GotoProgress DEF ForkPhases
  <1>7. QED BY <1>4, <1>5, <1>6, Zenon DEF Commit

LEMMA OpeningProgress ==
  ASSUME WorkspaceInv, ProgressInv, NEW r \in Requests, BeginCreate(r) \/ Opened(r)
  PROVE  ProgressInv'
  <1>1. IsTurn(r) /\ req[r] \in Request
    BY DEF BeginCreate, Opened, At, WorkspaceInv, TypeOK
  <1>2. ASSUME UNCHANGED <<sessions, disk>> PROVE OwnersKeepFiles'
    BY <1>2, OwnersFilesStay DEF ProgressInv
  <1>3. CASE (Settle(r) \/ Fail(r)) /\ UNCHANGED <<sessions, disk>>
    BY <1>1, <1>2, <1>3, SettleProgress, FailProgress
  <1>4. CASE BeginCreate(r)
    <2>1. ASSUME NEW victim \in Victims({}), NEW s \in Unused, NEW c \in Fresh,
                 disk' = [disk EXCEPT ![s] = "memory"], Commit(r, c, s, victim)
          PROVE  ProgressInv'
      <3>1. s \in Sessions
        BY DEF Unused
      <3>2. /\ disk'[s] # "deleted"
            /\ \A t \in Sessions : disk'[t] = "deleted" => disk[t] = "deleted"
        BY <2>1, <3>1 DEF WorkspaceInv, TypeOK
      <3>3. req[r].kind = "create"
        BY <1>4 DEF BeginCreate
      <3>4. QED BY <1>1, <2>1, <3>1, <3>2, <3>3, CommitProgress
    <2>2. QED BY <1>3, <1>4, <2>1, Zenon DEF BeginCreate, OwnersUnchanged
  <1>5. CASE Opened(r)
    <2> DEFINE s == req[r].sid  victim == req[r].victim
    <2>1. /\ req[r].phase = "opening" /\ UNCHANGED disk
          /\ s \in Sessions /\ disk[s] # "deleted" /\ req[r].kind # "delete"
      BY <1>1, <1>5, Underway DEF Opened, At, Waiting, FileReady, DeletePhases
    <2>2. ASSUME NEW c \in Fresh, Commit(r, c, s, victim) PROVE ProgressInv'
      <3> HIDE DEF victim
      <3>1. QED BY <1>1, <2>1, <2>2, CommitProgress
    <2>3. ASSUME NEW c, UNCHANGED sessions,
                 Goto(r, [req[r] EXCEPT !.phase = "discarding", !.wait = {c}])
          PROVE  ProgressInv'
      <3> DEFINE next == [req[r] EXCEPT !.phase = "discarding", !.wait = {c}]
      <3>1. next.phase = "discarding" /\ next.kind = req[r].kind
        BY <1>1 DEF Request
      <3>2. Goto(r, next)
        BY <2>3
      <3> HIDE DEF next
      <3>3. QED BY <1>1, <1>2, <2>1, <2>3, <3>1, <3>2, GotoProgress DEF ForkPhases
    <2>4. CASE Fail(r) /\ OwnersUnchanged
      BY <1>3, <2>1, <2>4 DEF OwnersUnchanged
    <2>5. QED BY <1>5, <2>2, <2>3, <2>4, Zenon DEF Opened
  <1>6. QED BY <1>4, <1>5

LEMMA RenamedProgress ==
  ASSUME WorkspaceInv, ProgressInv, NEW r \in Requests, Renamed(r)
  PROVE  ProgressInv'
  <1> DEFINE s == req[r].sid
  <1>1. /\ IsTurn(r) /\ req[r].phase = "renaming" /\ req[r] \in Request
        /\ s \in Sessions /\ req[r].kind # "fork"
        /\ req[r].old = None => sessions[s] = None
        /\ disk \in [Sessions -> FileStates]
        /\ sessions \in [Sessions -> Controllers \union {None}]
    BY Underway DEF Renamed, At, WorkspaceInv, TypeOK, Waiting, FileReady, ForkPhases
  <1>2. CASE Settle(r) /\ UNCHANGED disk /\ OwnersUnchanged
    BY <1>1, <1>2, OwnersFilesStay, SettleProgress DEF ProgressInv, OwnersUnchanged
  <1>3. ASSUME disk' = [disk EXCEPT ![s] = "deleted"], sessions'[s] = None,
               \A t \in Sessions \ {s} : sessions'[t] = sessions[t]
        PROVE  OwnersKeepFiles'
    BY <1>1, <1>3 DEF ProgressInv, OwnersKeepFiles, Loaded
  <1>4. ASSUME req[r].old = None, disk' = [disk EXCEPT ![s] = "deleted"],
               Goto(r, [req[r] EXCEPT !.phase = "refreshing"]), OwnersUnchanged
        PROVE  ProgressInv'
    <2> DEFINE next == [req[r] EXCEPT !.phase = "refreshing"]
    <2>1. next.phase = "refreshing" /\ next.kind # "fork" /\ next.old = None
      BY <1>1, <1>4 DEF Request
    <2>2. OwnersKeepFiles'
      BY <1>1, <1>3, <1>4 DEF OwnersUnchanged
    <2>3. Goto(r, next)
      BY <1>4
    <2> HIDE DEF next
    <2>4. QED BY <1>1, <2>1, <2>2, <2>3, GotoProgress DEF DeletePhases
  <1>5. ASSUME NEW g, disk' = [disk EXCEPT ![s] = "deleted"],
               sessions' = [sessions EXCEPT ![s] = None],
               Goto(r, [req[r] EXCEPT !.phase = "burying", !.rev = g,
                                      !.wait = {sessions[s]}])
        PROVE  ProgressInv'
    <2> DEFINE next == [req[r] EXCEPT !.phase = "burying", !.rev = g,
                                      !.wait = {sessions[s]}]
    <2>1. next.phase = "burying" /\ next.kind # "fork" /\ next.sid = s
      BY <1>1 DEF Request
    <2>2. OwnersKeepFiles' /\ disk'[s] = "deleted"
      BY <1>1, <1>3, <1>5
    <2>3. Goto(r, next)
      BY <1>5
    <2> HIDE DEF next, s
    <2>4. QED BY <1>1, <2>1, <2>2, <2>3, GotoProgress DEF DeletePhases
  <1>6. QED BY <1>2, <1>4, <1>5, Zenon DEF Renamed

LEMMA RevivalProgress ==
  ASSUME WorkspaceInv, ProgressInv, NEW r \in Requests, Buried(r) \/ Restored(r)
  PROVE  ProgressInv'
  <1> DEFINE s == req[r].sid
  <1>1. /\ IsTurn(r) /\ req[r].phase \in {"burying", "restoring"} /\ req[r] \in Request
        /\ UNCHANGED sessions /\ s \in Sessions
        /\ req[r].kind = "delete" => disk[s] = "deleted"
        /\ req[r].kind # "fork"
        /\ disk \in [Sessions -> FileStates]
    BY Underway
    DEF Buried, Restored, At, OwnersUnchanged, WorkspaceInv, TypeOK, Waiting,
        ProgressInv, DeleteProgress, ForkPhases
  <1>2. CASE Buried(r)
    <2>1. UNCHANGED disk /\ OwnersKeepFiles'
      BY <1>1, <1>2, OwnersFilesStay DEF Buried, ProgressInv
    <2>2. ASSUME unannounced' = unannounced \ {s},
                 Goto(r, [req[r] EXCEPT !.phase = "refreshing", !.wait = {}])
          PROVE  ProgressInv'
      <3> DEFINE next == [req[r] EXCEPT !.phase = "refreshing", !.wait = {}]
      <3>1. next.phase = "refreshing" /\ next.kind = req[r].kind /\ next.sid = s
        BY <1>1 DEF Request
      <3>2. Goto(r, next)
        BY <2>2
      <3> HIDE DEF next
      <3>3. QED BY <1>1, <2>1, <2>2, <3>1, <3>2, GotoProgress DEF DeletePhases
    <2>3. ASSUME Goto(r, [req[r] EXCEPT !.phase = "restoring", !.wait = {}])
          PROVE  ProgressInv'
      <3> DEFINE next == [req[r] EXCEPT !.phase = "restoring", !.wait = {}]
      <3>1. next.phase = "restoring" /\ next.kind = req[r].kind /\ next.sid = s
        BY <1>1 DEF Request
      <3>2. Goto(r, next)
        BY <2>3
      <3> HIDE DEF next
      <3>3. QED BY <1>1, <2>1, <3>1, <3>2, GotoProgress DEF DeletePhases
    <2>4. QED BY <1>2, <2>2, <2>3, Zenon DEF Buried
  <1>3. CASE Restored(r)
    <2>1. CASE Settle(r) /\ UNCHANGED disk
      BY <1>1, <2>1, OwnersFilesStay, SettleProgress DEF ProgressInv
    <2>2. ASSUME disk' = [disk EXCEPT ![s] = "present"],
                 Goto(r, [req[r] EXCEPT !.phase = "reviving"])
          PROVE  ProgressInv'
      <3> DEFINE next == [req[r] EXCEPT !.phase = "reviving"]
      <3>1. next.phase = "reviving" /\ next.kind = req[r].kind /\ next.sid = s
        BY <1>1 DEF Request
      <3>2. Goto(r, next)
        BY <2>2
      <3>3. OwnersKeepFiles' /\ disk'[s] = "present"
        BY <1>1, <2>2, OwnersFilesStay DEF ProgressInv
      <3> HIDE DEF next
      <3>4. QED BY <1>1, <3>1, <3>2, <3>3, GotoProgress DEF DeletePhases
    <2>3. QED BY <1>3, <2>1, <2>2, Zenon DEF Restored
  <1>4. QED BY <1>2, <1>3

(* A replacement is for a session that is loaded, or whose file is back. *)
LEMMA ReplacementProgress ==
  ASSUME WorkspaceInv, ProgressInv, NEW r \in Requests,
         ReplacementMismatched(r) \/ ReplacementOpened(r)
  PROVE  ProgressInv'
  <1> DEFINE s == req[r].sid
  <1>1. /\ IsTurn(r) /\ req[r].phase \in {"replacing", "recovering", "reviving"}
        /\ UNCHANGED disk /\ req[r] \in Request
        /\ sessions \in [Sessions -> Controllers \union {None}]
    BY DEF ReplacementMismatched, ReplacementOpened, Replacing, At, WorkspaceInv, TypeOK
  <1>2. /\ s \in Sessions /\ req[r].kind # "fork" /\ disk[s] # "deleted"
        /\ req[r].phase # "reviving" => req[r].old # None
    BY <1>1, Underway DEF Waiting, Remembers, FileReady, OldKept, ForkPhases
  <1>3. CASE ReplacementMismatched(r)
    <2>1. PICK c \in Fresh :
            Goto(r, [req[r] EXCEPT !.phase = "discarding", !.wait = {c}])
      BY <1>3, Zenon DEF ReplacementMismatched
    <2> DEFINE next == [req[r] EXCEPT !.phase = "discarding", !.wait = {c}]
    <2>2. next.phase = "discarding" /\ next.kind = req[r].kind /\ next.sid = s
      BY <1>1 DEF Request
    <2>3. OwnersKeepFiles'
      BY <1>1, <1>3, OwnersFilesStay DEF ReplacementMismatched, ProgressInv
    <2>4. Goto(r, next)
      BY <2>1
    <2> HIDE DEF next
    <2>5. QED BY <1>1, <1>2, <2>2, <2>3, <2>4, GotoProgress DEF DeletePhases
  <1>4. CASE ReplacementOpened(r)
    <2>1. PICK c \in Fresh : sessions' = [sessions EXCEPT ![s] = c]
      BY <1>4 DEF ReplacementOpened
    <2>2. OwnersKeepFiles'
      BY <1>1, <1>2, <2>1 DEF ProgressInv, OwnersKeepFiles, Loaded
    <2>3. CASE Settle(r)
      BY <1>1, <2>2, <2>3, SettleProgress
    <2>4. ASSUME req[r].phase # "reviving",
                 Goto(r, [req[r] EXCEPT !.phase = "retiring", !.wait = {req[r].old}])
          PROVE  ProgressInv'
      <3> DEFINE next == [req[r] EXCEPT !.phase = "retiring", !.wait = {req[r].old}]
      <3>1. next.phase = "retiring" /\ next.kind = req[r].kind /\ next.old = req[r].old
        BY <1>1 DEF Request
      <3>2. Goto(r, next)
        BY <2>4
      <3> HIDE DEF next
      <3>3. QED BY <1>1, <1>2, <2>2, <2>4, <3>1, <3>2, GotoProgress DEF DeletePhases
    <2>5. QED BY <1>4, <2>3, <2>4, Zenon DEF ReplacementOpened
  <1>5. QED BY <1>3, <1>4

LEMMA ForkProgresses ==
  ASSUME WorkspaceInv, ProgressInv, NEW r \in Requests, BeginFork(r) \/ ForkFileRemoved(r)
  PROVE  ProgressInv'
  <1>1. /\ IsTurn(r) /\ req[r] \in Request /\ UNCHANGED sessions
        /\ disk \in [Sessions -> FileStates]
    BY DEF BeginFork, ForkFileRemoved, At, OwnersUnchanged, WorkspaceInv, TypeOK
  <1>2. OwnersKeepFiles'
    <2>1. ASSUME NEW n, NEW file \in {"present", "removed"},
                 disk' = [disk EXCEPT ![n] = file]
          PROVE  OwnersKeepFiles'
      BY <1>1, <2>1, OwnersFilesStay DEF ProgressInv
    <2>2. CASE UNCHANGED disk
      BY <1>1, <2>2, OwnersFilesStay DEF ProgressInv
    <2>3. QED BY <2>1, <2>2 DEF BeginFork, ForkFileRemoved
  <1>3. CASE Settle(r)
    BY <1>1, <1>2, <1>3, SettleProgress
  <1>4. CASE BeginFork(r)
    <2>1. ASSUME NEW n, NEW victim, NEW phase \in {"validating", "removing"},
                 Goto(r, [req[r] EXCEPT !.phase = phase, !.sid = n,
                              !.victim = victim, !.held = SessionOf(victim)])
          PROVE  ProgressInv'
      <3> DEFINE next == [req[r] EXCEPT !.phase = phase, !.sid = n,
                              !.victim = victim, !.held = SessionOf(victim)]
      <3>1. next.phase = phase /\ next.kind = "fork"
        BY <1>1, <1>4 DEF Request, BeginFork
      <3>2. Goto(r, next)
        BY <2>1
      <3> HIDE DEF next
      <3>3. QED BY <1>1, <1>2, <3>1, <3>2, GotoProgress DEF ForkPhases
    <2>2. QED BY <1>3, <1>4, <2>1, Zenon DEF BeginFork
  <1>5. CASE ForkFileRemoved(r)
    <2>1. ASSUME Goto(r, [req[r] EXCEPT !.phase = "orphaned"])
          PROVE  ProgressInv'
      <3> DEFINE next == [req[r] EXCEPT !.phase = "orphaned"]
      <3>1. next.phase = "orphaned" /\ next.kind = req[r].kind
        BY <1>1 DEF Request
      <3>2. Goto(r, next)
        BY <2>1
      <3>3. req[r].kind # "delete"
        BY <1>1, <1>5, Underway DEF ForkFileRemoved, At, Waiting, DeletePhases
      <3> HIDE DEF next
      <3>4. QED BY <1>1, <1>2, <3>1, <3>2, <3>3, GotoProgress DEF ForkPhases
    <2>2. QED BY <1>3, <1>5, <2>1, Zenon DEF ForkFileRemoved
  <1>6. QED BY <1>4, <1>5

LEMMA DisposeAllProgress ==
  ASSUME WorkspaceInv, ProgressInv, NEW r \in Requests, BeginDisposeAll(r)
  PROVE  ProgressInv'
  <1> DEFINE owners == {sessions[s] : s \in Loaded}
             next == [req[r] EXCEPT !.phase = "closing", !.wait = owners]
  <1>1. /\ IsTurn(r) /\ Goto(r, next) /\ sessions' = [s \in Sessions |-> None]
        /\ req[r].kind = "disposeAll" /\ req[r] \in Request
    BY DEF BeginDisposeAll, At, WorkspaceInv, TypeOK
  <1>2. next.phase = "closing" /\ next.kind = "disposeAll"
    BY <1>1 DEF Request
  <1>3. OwnersKeepFiles'
    BY <1>1 DEF OwnersKeepFiles, Loaded
  <1> HIDE DEF next
  <1>4. QED BY <1>1, <1>2, <1>3, GotoProgress

(* Outside the tail, a file only goes from the SDK's memory to the disk. *)
LEMMA EnvironmentProgress ==
  ASSUME WorkspaceInv, ProgressInv, Environment
  PROVE  ProgressInv'
  <1>1. /\ UNCHANGED <<sessions, unannounced>>
        /\ \A s \in Sessions : disk'[s] = "deleted" <=> disk[s] = "deleted"
    <2>1. CASE UNCHANGED <<sessions, unannounced, disk>>
      BY <2>1
    <2>2. ASSUME NEW c \in Controllers, WorkSettled(c)
          PROVE  /\ UNCHANGED <<sessions, unannounced>>
                 /\ \A s \in Sessions : disk'[s] = "deleted" <=> disk[s] = "deleted"
      BY <2>2 DEF WorkSettled, LifecycleUnchanged, WorkspaceInv, TypeOK
    <2>3. QED
      BY <2>1, <2>2
      DEF Environment, Enqueue, OwnersUnchanged, DisposeSettled, Visibility, Progress,
          Submit, FocusMoved, LifecycleUnchanged
  <1>2. OwnersKeepFiles'
    BY <1>1, OwnersFilesStay DEF ProgressInv
  <1>3. \A q \in Requests : req'[q] = req[q] \/ req'[q].phase = "queued"
    BY DEF Environment, Enqueue, DisposeSettled, Visibility, Progress, WorkSettled,
           Submit, FocusMoved, LifecycleUnchanged, WorkspaceInv, TypeOK, FreeRequest
  <1>4. ASSUME NEW q \in Requests
        PROVE  ForkProgress(q)' /\ DeleteProgress(q)' /\ FileReady(q)'
    <2>1. CASE req'[q].phase \in {"free", "queued"}
      BY <2>1 DEF ForkProgress, DeleteProgress, FileReady, Waiting
    <2>2. CASE req'[q] = req[q] /\ ~Waiting(q)
      <3>1. /\ req[q].phase # "closing" => req[q].sid \in Sessions
            /\ ForkProgress(q) /\ DeleteProgress(q) /\ FileReady(q)
        BY <2>2 DEF WorkspaceInv, OneMutationRuns, ProgressInv
      <3>2. QED
        BY <1>1, <2>2, <3>1
        DEF ForkProgress, DeleteProgress, FileReady, Waiting, DeletePhases
    <2>3. QED BY <1>3, <2>1, <2>2 DEF Waiting
  <1>5. QED BY <1>2, <1>4 DEF ProgressInv

LEMMA NextProgress ==
  ASSUME WorkspaceInv, ProgressInv, [Next]_vars
  PROVE  ProgressInv'
  <1>1. ASSUME NEW r \in Requests, Step(r) PROVE ProgressInv'
    BY <1>1, StillProgress, OpeningProgress, RenamedProgress, RevivalProgress,
       ReplacementProgress, ForkProgresses, DisposeAllProgress
    DEF Step
  <1>2. CASE UNCHANGED vars
    BY <1>2
    DEF vars, ProgressInv, OwnersKeepFiles, Loaded, ForkProgress, DeleteProgress,
        FileReady, Waiting
  <1>3. QED BY <1>1, <1>2, EnvironmentProgress DEF Next

LEMMA InitProgress == Init => ProgressInv
  BY DEF Init, ProgressInv, OwnersKeepFiles, Loaded, ForkProgress, DeleteProgress,
         FileReady, Waiting, FreeRequest

(* The file of a loaded session is never a deleted one, and a fork and a     *)
(* soft delete know at each await where the file they move is.               *)
THEOREM ProgressInvariant == Spec => [](WorkspaceInv /\ ProgressInv)
  <1>1. WorkspaceInv /\ ProgressInv /\ [Next]_vars => WorkspaceInv' /\ ProgressInv'
    BY NextInv, NextProgress
  <1>2. QED BY <1>1, InitInv, InitProgress, PTL DEF Spec

(* A mutation that goes on to another await has not settled. *)
LEMMA GoesOn ==
  ASSUME WorkspaceInv, NEW r \in Requests, req'[r].phase = "free",
         NEW phase \in Phases \ {"free"}
  PROVE  /\ ~Goto(r, [req[r] EXCEPT !.phase = phase])
         /\ \A wait : ~Goto(r, [req[r] EXCEPT !.phase = phase, !.wait = wait])
         /\ \A g : ~Goto(r, [req[r] EXCEPT !.phase = phase, !.rev = g])
         /\ \A g, wait :
              ~Goto(r, [req[r] EXCEPT !.phase = phase, !.rev = g, !.wait = wait])
         /\ \A old, held :
              ~Goto(r, [req[r] EXCEPT !.phase = phase, !.old = old, !.held = held])
         /\ \A s, victim, wait, held :
              ~Goto(r, [req[r] EXCEPT !.phase = phase, !.sid = s, !.victim = victim,
                                      !.wait = wait, !.held = held])
  <1>1. req[r] \in Request
    BY DEF WorkspaceInv, TypeOK
  <1>2. ASSUME NEW next, next.phase = phase PROVE ~Goto(r, next)
    BY <1>2, GotoAt DEF WorkspaceInv
  <1>3. ~Goto(r, [req[r] EXCEPT !.phase = phase])
    BY <1>1, <1>2 DEF Request
  <1>4. ASSUME NEW wait PROVE ~Goto(r, [req[r] EXCEPT !.phase = phase, !.wait = wait])
    BY <1>1, <1>2 DEF Request
  <1>5. ASSUME NEW g PROVE ~Goto(r, [req[r] EXCEPT !.phase = phase, !.rev = g])
    BY <1>1, <1>2 DEF Request
  <1>6. ASSUME NEW g, NEW wait
        PROVE  ~Goto(r, [req[r] EXCEPT !.phase = phase, !.rev = g, !.wait = wait])
    BY <1>1, <1>2 DEF Request
  <1>7. ASSUME NEW old, NEW held
        PROVE  ~Goto(r, [req[r] EXCEPT !.phase = phase, !.old = old, !.held = held])
    BY <1>1, <1>2 DEF Request
  <1>8. ASSUME NEW s, NEW victim, NEW wait, NEW held
        PROVE  ~Goto(r, [req[r] EXCEPT !.phase = phase, !.sid = s, !.victim = victim,
                                       !.wait = wait, !.held = held])
    BY <1>1, <1>2 DEF Request
  <1>9. QED BY <1>3, <1>4, <1>5, <1>6, <1>7, <1>8

(* Where a soft delete may settle, and what that piece leaves alone. *)
LEMMA DeleteSettles ==
  ASSUME WorkspaceInv, ProgressInv, NEW r \in Requests, Step(r),
         req[r].kind = "delete", req[r].phase # "free", req'[r].phase = "free"
  PROVE  /\ IsTurn(r) /\ UNCHANGED disk
         /\ req[r].phase \notin {"queued", "burying"}
         /\ req[r].phase # "reviving" => UNCHANGED <<sessions, unannounced>>
  <1> USE DEF OwnersUnchanged
  <1>1. ~BeginValidation(r)
    BY GoesOn, Zenon DEF BeginValidation, Phases
  <1>2. ~DeleteValidated(r)
    BY GoesOn, Zenon DEF DeleteValidated, Phases
  <1>3. ~ReplacementMismatched(r)
    BY GoesOn, Zenon DEF ReplacementMismatched, Phases
  <1>4. ~Buried(r)
    BY GoesOn, Zenon DEF Buried, Phases
  <1>5. CASE Refused(r) \/ Discarded(r) \/ Refreshed(r) \/ ReplacementFailed(r)
    BY <1>5 DEF Refused, Discarded, Refreshed, ReplacementFailed, Replacing, At
  <1>6. CASE Resolved(r)
    BY <1>6 DEF Resolved, At
  <1>7. CASE Retired(r)
    BY <1>7 DEF Retired, At
  <1>8. CASE Renamed(r)
    <2>1. UNCHANGED disk /\ OwnersUnchanged
      BY <1>8, GoesOn, Zenon DEF Renamed, Phases
    <2>2. QED BY <1>8, <2>1 DEF Renamed, At
  <1>9. CASE Restored(r)
    <2>1. UNCHANGED disk
      BY <1>9, GoesOn, Zenon DEF Restored, Phases
    <2>2. QED BY <1>9, <2>1 DEF Restored, At
  <1>10. CASE ReplacementOpened(r)
    <2>1. req[r].phase = "reviving"
      BY <1>10, GoesOn, Zenon DEF ReplacementOpened, Phases
    <2>2. QED BY <1>10, <2>1 DEF ReplacementOpened, Replacing, At
  <1>11. ~BeginCreate(r) /\ ~RenameValidated(r) /\ ~BeginFork(r) /\ ~BeginRevert(r)
         /\ ~BeginDisposeAll(r) /\ ~OpenValidated(r)
    BY DEF BeginCreate, RenameValidated, BeginFork, BeginRevert, BeginDisposeAll,
           OpenValidated
  <1>12. ~Opened(r) /\ ~Evicted(r) /\ ~ForkFileRemoved(r) /\ ~Closed(r)
    BY DEF Opened, Evicted, ForkFileRemoved, Closed, At, ProgressInv, DeleteProgress,
           DeletePhases, Waiting
  <1>13. QED
    BY <1>1, <1>2, <1>3, <1>4, <1>5, <1>6, <1>7, <1>8, <1>9, <1>10, <1>11, <1>12
    DEF Step

(* A piece of one mutation settles no other. *)
LEMMA OthersKept ==
  ASSUME WorkspaceInv, NEW r \in Requests, Step(r)
  PROVE  \A q \in Requests \ {r} : req'[q] = req[q]
  <1>1. ASSUME NEW next, Goto(r, next)
        PROVE  \A q \in Requests \ {r} : req'[q] = req[q]
    BY <1>1 DEF Goto, WorkspaceInv, TypeOK
  <1>2. CASE Settle(r)
    BY <1>2 DEF Settle, WorkspaceInv, TypeOK
  <1>3. CASE Fail(r)
    BY <1>1, <1>2, <1>3 DEF Fail
  <1>4. ASSUME NEW c, NEW s, NEW victim, Commit(r, c, s, victim)
        PROVE  \A q \in Requests \ {r} : req'[q] = req[q]
    BY <1>1, <1>2, <1>4, Zenon DEF Commit
  <1>5. CASE QuietStep(r)
    BY <1>5, QuietStepStartsNoRevival DEF NoRevival
  <1>6. CASE BeginCreate(r)
    BY <1>2, <1>4, <1>6, Zenon DEF BeginCreate
  <1>7. CASE Opened(r)
    BY <1>1, <1>3, <1>4, <1>7, Zenon DEF Opened
  <1>8. CASE Renamed(r)
    BY <1>1, <1>2, <1>8, Zenon DEF Renamed
  <1>9. CASE Buried(r) \/ Restored(r)
    BY <1>1, <1>2, <1>9, Zenon DEF Buried, Restored
  <1>10. CASE ReplacementOpened(r)
    BY <1>1, <1>2, <1>10, Zenon DEF ReplacementOpened
  <1>11. CASE BeginDisposeAll(r)
    BY <1>1, <1>11, Zenon DEF BeginDisposeAll
  <1>12. QED
    BY <1>5, <1>6, <1>7, <1>8, <1>9, <1>10, <1>11 DEF Step, QuietStep

LEMMA OwnStepSettles ==
  ASSUME WorkspaceInv, Next, NEW r \in Requests,
         req[r].phase # "free", req'[r].phase = "free"
  PROVE  Step(r)
  <1>1. ~Environment
    BY DEF Environment, Enqueue, DisposeSettled, Visibility, Progress, WorkSettled,
           Submit, FocusMoved, LifecycleUnchanged, WorkspaceInv, TypeOK, FreeRequest
  <1>2. QED BY <1>1, OthersKept DEF Next

(* When a soft delete settles, a deleted file has no owner and its removal   *)
(* was announced, and a session whose file is back still has an owner.       *)
THEOREM DeletesAllOrNothing == Spec => SoftDeleteAllOrNothing
  <1> DEFINE Settled(r) ==
               LET s == req[r].sid IN
               req[r].kind = "delete" /\ req[r].phase # "free" /\ req'[r].phase = "free"
               => /\ disk'[s] = "deleted" => sessions'[s] = None
                  /\ req[r].old # None /\ disk'[s] = "deleted"
                       /\ req[r].phase # "restoring" => s \notin unannounced'
                  /\ req[r].old # None /\ disk'[s] = "present"
                       /\ req[r].phase \notin {"reviving", "discarding"} =>
                       sessions'[s] # None
  <1>1. ASSUME WorkspaceInv, ProgressInv, Next, NEW r \in Requests
        PROVE  Settled(r)
    <2> SUFFICES ASSUME req[r].kind = "delete", req[r].phase # "free",
                        req'[r].phase = "free"
                 PROVE  Settled(r)
      OBVIOUS
    <2> DEFINE s == req[r].sid
    <2>1. /\ IsTurn(r) /\ disk' = disk /\ req[r].phase \notin {"queued", "burying"}
          /\ req[r].phase # "reviving" => UNCHANGED <<sessions, unannounced>>
      BY <1>1, OwnStepSettles, DeleteSettles
    <2>2. ~Waiting(r) /\ req[r].phase \in DeletePhases
      BY <1>1, <2>1 DEF Waiting, ProgressInv, DeleteProgress
    <2>3. s \in Sessions /\ Remembers(r) /\ FileReady(r) /\ DeleteProgress(r)
          /\ (OldKept(r) => disk[s] # "deleted")
      BY <1>1, <2>1, <2>2, Underway DEF DeletePhases, ProgressInv
    <2>4. disk'[s] = "deleted" => sessions'[s] = None
      <3>1. OwnersKeepFiles'
        BY <1>1, NextProgress DEF ProgressInv
      <3>2. QED BY <2>3, <3>1 DEF OwnersKeepFiles, Loaded
    <2>5. sessions[s] # None => disk[s] # "deleted"
      BY <1>1, <2>3 DEF ProgressInv, OwnersKeepFiles, Loaded
    <2>6. CASE req[r].phase \in {"validating", "resolving", "recovering", "retiring",
                                 "renaming"}
      <3>1. req[r].old # None => sessions[s] # None
        BY <2>3, <2>6 DEF Remembers, OldKept
      <3>2. sessions' = sessions
        BY <2>1, <2>6
      <3>3. QED BY <2>1, <2>4, <2>5, <3>1, <3>2
    <2>7. CASE req[r].phase \in {"discarding", "reviving"}
      <3>1. disk[s] # "deleted"
        BY <2>2, <2>3, <2>7 DEF FileReady, DeleteProgress
      <3>2. QED BY <2>1, <2>4, <2>7, <3>1
    <2>8. CASE req[r].phase = "restoring"
      <3>1. disk[s] = "deleted"
        BY <2>2, <2>3, <2>8 DEF DeleteProgress
      <3>2. QED BY <2>1, <2>4, <2>8, <3>1
    <2>9. CASE req[r].phase = "refreshing"
      <3>1. req[r].old # None => disk[s] = "deleted" /\ s \notin unannounced
        BY <2>2, <2>3, <2>9 DEF DeleteProgress
      <3>2. QED BY <2>1, <2>4, <2>9, <3>1
    <2>10. QED BY <2>1, <2>2, <2>6, <2>7, <2>8, <2>9 DEF DeletePhases
  <1>2. ASSUME WorkspaceInv, ProgressInv, [Next]_vars, NEW r \in Requests
        PROVE  Settled(r)
    <2>1. CASE UNCHANGED vars
      BY <2>1 DEF vars
    <2>2. QED BY <1>1, <1>2, <2>1
  <1>3. WorkspaceInv /\ ProgressInv /\ [Next]_vars =>
          [\A r \in Requests : Settled(r)]_vars
    BY <1>2
  <1>4. QED BY <1>3, ProgressInvariant, PTL DEF Spec, SoftDeleteAllOrNothing

(* Where a fork may settle: with its session loaded, or its file unlinked. *)
LEMMA ForkSettles ==
  ASSUME WorkspaceInv, ProgressInv, NEW r \in Requests, Step(r),
         req[r].kind = "fork", req[r].phase \notin {"free", "queued", "orphaned"},
         req'[r].phase = "free"
  PROVE  sessions'[req[r].sid] # None \/ disk'[req[r].sid] = "removed"
  <1>1. /\ IsTurn(r) => req[r].sid \in Sessions /\ req[r].phase \in ForkPhases
        /\ ForkProgress(r) /\ ~Waiting(r)
    BY Underway DEF Waiting, ProgressInv, ForkPhases, ForkProgress
  <1>2. ~Fail(r)
    BY GoesOn, Zenon DEF Fail, Phases
  <1>3. ~OpenValidated(r)
    <2>1. ~Goto(r, [req[r] EXCEPT !.phase = "opening"])
      BY GoesOn, Zenon DEF Phases
    <2>2. QED BY <2>1 DEF OpenValidated
  <1>4. ASSUME NEW c, NEW s, NEW victim PROVE ~Commit(r, c, s, victim)
    BY GoesOn, Zenon DEF Commit, Phases
  <1>5. ~Opened(r)
    <2>1. \A c : ~Goto(r, [req[r] EXCEPT !.phase = "discarding", !.wait = {c}])
      BY GoesOn, Zenon DEF Phases
    <2>2. QED BY <1>2, <1>4, <2>1, Zenon DEF Opened
  <1>6. ~Evicted(r)
    <2>1. ~Goto(r, [req[r] EXCEPT !.phase = "refreshing", !.wait = {}])
      BY GoesOn, Zenon DEF Phases
    <2>2. QED BY <2>1, Zenon DEF Evicted
  <1>7. CASE Refreshed(r)
    <2>1. req[r].phase = "refreshing" /\ UNCHANGED sessions
      BY <1>7 DEF Refreshed, At, OwnersUnchanged
    <2>2. QED BY <1>1, <2>1 DEF ForkProgress
  <1>8. CASE ForkFileRemoved(r)
    <2>1. ~Goto(r, [req[r] EXCEPT !.phase = "orphaned"])
      BY GoesOn, Zenon DEF Phases
    <2>2. disk' = [disk EXCEPT ![req[r].sid] = "removed"] /\ IsTurn(r)
      BY <1>8, <2>1, Zenon DEF ForkFileRemoved, At
    <2>3. QED BY <1>1, <2>2 DEF WorkspaceInv, TypeOK
  <1>9. ~Refused(r) /\ ~Discarded(r)
    BY <1>2 DEF Refused, Discarded
  <1>10. /\ ~BeginCreate(r) /\ ~BeginValidation(r) /\ ~RenameValidated(r)
         /\ ~DeleteValidated(r) /\ ~BeginFork(r) /\ ~BeginRevert(r)
         /\ ~BeginDisposeAll(r)
    BY DEF BeginCreate, BeginValidation, RenameValidated, DeleteValidated, BeginFork,
           BeginRevert, BeginDisposeAll, At
  <1>11. req[r].phase \in ForkPhases
    BY <1>1 DEF ForkProgress
  <1>12. /\ ~Resolved(r) /\ ~Renamed(r) /\ ~Buried(r) /\ ~Restored(r) /\ ~Retired(r)
         /\ ~Closed(r)
    BY <1>11 DEF Resolved, Renamed, Buried, Restored, Retired, Closed, At, ForkPhases
  <1>13. ~ReplacementFailed(r) /\ ~ReplacementMismatched(r) /\ ~ReplacementOpened(r)
    BY <1>11
    DEF ReplacementFailed, ReplacementMismatched, ReplacementOpened, Replacing, At,
        ForkPhases
  <1>14. QED
    BY <1>3, <1>5, <1>6, <1>7, <1>8, <1>9, <1>10, <1>12, <1>13 DEF Step

(* When a fork settles, the file it created is loaded or was removed, unless *)
(* removing it failed.                                                       *)
THEOREM ForksAllOrNothing == Spec => ForkAllOrNothing
  <1> DEFINE Settled ==
               \A r \in Requests :
                 /\ req[r].kind = "fork" /\ req[r].phase \notin {"free", "queued", "orphaned"}
                 /\ req'[r].phase = "free"
                 => sessions'[req[r].sid] # None \/ disk'[req[r].sid] = "removed"
  <1>1. ASSUME WorkspaceInv, ProgressInv, [Next]_vars PROVE Settled
    <2>1. CASE Next
      BY <1>1, <2>1, OwnStepSettles, ForkSettles
    <2>2. CASE UNCHANGED vars
      BY <2>2 DEF vars
    <2>3. QED BY <1>1, <2>1, <2>2
  <1>2. WorkspaceInv /\ ProgressInv /\ [Next]_vars => [Settled]_vars
    BY <1>1
  <1>3. QED BY <1>2, ProgressInvariant, PTL DEF Spec, ForkAllOrNothing

(* A session loses its owner only in exchange for another one, when its file *)
(* is deleted, or at shutdown: replacing an owner never leaves a gap.        *)
THEOREM OwnershipHasNoGap == Spec => NoOwnershipGap
  <1> DEFINE Kept ==
               \A s \in Sessions :
                 sessions[s] # None /\ sessions'[s] = None =>
                    \/ \E t \in Sessions : sessions[t] = None /\ sessions'[t] # None
                    \/ disk[s] # "deleted" /\ disk'[s] = "deleted"
                    \/ \E r \in Requests : At(r, "queued") /\ req[r].kind = "disposeAll"
  <1>1. ASSUME WorkspaceInv, ProgressInv, NEW r \in Requests, Step(r) PROVE Kept
    <2>1. CASE UNCHANGED sessions
      BY <2>1
    <2>2. CASE QuietStep(r) \/ Buried(r) \/ Restored(r)
      BY <1>1, <2>1, <2>2, QuietStepStartsNoRevival DEF Buried, Restored, OwnersUnchanged
    <2>3. CASE BeginCreate(r) \/ Opened(r)
      BY <1>1, <2>3, OpeningMoves DEF Gains, Loses
    <2>4. CASE Renamed(r)
      <3>1. ASSUME disk' = [disk EXCEPT ![req[r].sid] = "deleted"],
                   sessions' = [sessions EXCEPT ![req[r].sid] = None]
            PROVE  Kept
        BY <1>1, <3>1
        DEF WorkspaceInv, TypeOK, ProgressInv, OwnersKeepFiles, Loaded
      <3>2. QED BY <2>1, <2>4, <3>1, Zenon DEF Renamed, OwnersUnchanged
    <2>5. CASE ReplacementOpened(r)
      <3>1. PICK c \in Fresh : sessions' = [sessions EXCEPT ![req[r].sid] = c]
        BY <2>5 DEF ReplacementOpened
      <3>2. c # None
        BY FreshIsUnused, WorkspaceAssumption
      <3>3. QED BY <1>1, <3>1, <3>2 DEF WorkspaceInv, TypeOK
    <2>6. CASE BeginDisposeAll(r)
      BY <2>6 DEF BeginDisposeAll
    <2>7. QED BY <1>1, <2>2, <2>3, <2>4, <2>5, <2>6 DEF Step, QuietStep
  <1>2. ASSUME WorkspaceInv, ProgressInv, [Next]_vars PROVE Kept
    <2>1. CASE UNCHANGED sessions
      BY <2>1
    <2>2. CASE Environment
      BY <2>1, <2>2
      DEF Environment, Enqueue, OwnersUnchanged, DisposeSettled, Visibility, Progress,
          WorkSettled, Submit, FocusMoved, LifecycleUnchanged
    <2>3. CASE UNCHANGED vars
      BY <2>1, <2>3 DEF vars
    <2>4. QED BY <1>1, <1>2, <2>2, <2>3 DEF Next
  <1>3. WorkspaceInv /\ ProgressInv /\ [Next]_vars => [Kept]_vars
    BY <1>2
  <1>4. QED BY <1>3, ProgressInvariant, PTL DEF Spec, NoOwnershipGap

-------------------------------------------------------------------------------
(* The tail moves on: no mutation is left out of it, and no disposal is      *)
(* awaited that was not begun.                                               *)

EndingsKept == \A c \in Controllers : ctl[c].state \in Ending => ctl'[c].state \in Ending

(* What a mutation goes on with. *)
Ready(next) ==
    /\ next.phase # "free"
    /\ \A c \in next.wait : ctl'[c].state \in Ending
    /\ next.phase \in Exchanging => next.kind \in {"revert", "delete"}

LEMMA QueuePlaces ==
  ASSUME WorkspaceInv, queue # <<>>
  PROVE  /\ Len(queue) \in Nat \ {0} /\ DOMAIN queue = 1..Len(queue)
         /\ Head(queue) = queue[1] /\ DOMAIN Tail(queue) = 1..(Len(queue) - 1)
         /\ \A i \in 1..(Len(queue) - 1) : Tail(queue)[i] = queue[i + 1]
  BY DEF WorkspaceInv, TypeOK

LEMMA GotoTurns ==
  ASSUME WorkspaceInv, TailMovesOn, NEW r \in Requests, IsTurn(r),
         NEW next, Goto(r, next), Ready(next), EndingsKept
  PROVE  TailMovesOn'
  <1>1. req'[r] = next /\ queue' = queue /\ \A q \in Requests : q # r => req'[q] = req[q]
    BY DEF WorkspaceInv, TypeOK, Goto
  <1>2. req[r].phase # "free"
    BY QueuePlaces DEF TailMovesOn, HasOneTurn, IsTurn
  <1>3. ASSUME NEW q \in Requests
        PROVE  HasOneTurn(q)' /\ DisposalsBegun(q)' /\ KnowsItsWay(q)'
    <2>1. CASE q = r
      BY <1>1, <1>2, <2>1 DEF TailMovesOn, HasOneTurn, DisposalsBegun, KnowsItsWay, Ready
    <2>2. CASE q # r
      <3>1. req[q].wait \subseteq Controllers
        BY DEF WorkspaceInv, TypeOK, Request
      <3>2. QED
        BY <1>1, <2>2, <3>1
        DEF TailMovesOn, HasOneTurn, DisposalsBegun, KnowsItsWay, EndingsKept
    <2>3. QED BY <2>1, <2>2
  <1>4. QED BY <1>3 DEF TailMovesOn

LEMMA SettleTurns ==
  ASSUME WorkspaceInv, TailMovesOn, NEW r \in Requests, IsTurn(r), Settle(r), EndingsKept
  PROVE  TailMovesOn'
  <1>1. /\ req'[r] = FreeRequest /\ queue' = Tail(queue)
        /\ \A q \in Requests : q # r => req'[q] = req[q]
    BY DEF WorkspaceInv, TypeOK, Settle
  <1>2. /\ Len(queue) \in Nat \ {0} /\ DOMAIN queue = 1..Len(queue)
        /\ queue[1] = r /\ DOMAIN queue' = 1..(Len(queue) - 1)
        /\ \A i \in 1..(Len(queue) - 1) : queue'[i] = queue[i + 1]
    BY <1>1, QueuePlaces DEF IsTurn
  <1>3. ASSUME NEW q \in Requests
        PROVE  HasOneTurn(q)'
    <2>1. CASE q = r
      <3>1. \A j \in DOMAIN queue : queue[j] = r => j = 1
        BY <1>2 DEF TailMovesOn, HasOneTurn
      <3>2. QED
        BY <1>1, <1>2, <2>1, <3>1 DEF HasOneTurn, FreeRequest
    <2>2. CASE q # r /\ req[q].phase = "free"
      BY <1>1, <1>2, <2>2 DEF TailMovesOn, HasOneTurn
    <2>3. CASE q # r /\ req[q].phase # "free"
      <3>1. PICK i \in DOMAIN queue : \A j \in DOMAIN queue : queue[j] = q <=> j = i
        BY <2>3 DEF TailMovesOn, HasOneTurn
      <3>2. i # 1 /\ i - 1 \in DOMAIN queue'
        BY <1>2, <2>3, <3>1
      <3>3. \A j \in DOMAIN queue' : queue'[j] = q <=> j = i - 1
        BY <1>2, <3>1
      <3>4. QED
        BY <1>1, <2>3, <3>2, <3>3 DEF HasOneTurn
    <2>4. QED BY <2>1, <2>2, <2>3
  <1>4. ASSUME NEW q \in Requests
        PROVE  DisposalsBegun(q)' /\ KnowsItsWay(q)'
    <2>1. req[q].wait \subseteq Controllers
      BY DEF WorkspaceInv, TypeOK, Request
    <2>2. QED
      BY <1>1, <2>1
      DEF TailMovesOn, DisposalsBegun, KnowsItsWay, EndingsKept, FreeRequest, Exchanging
  <1>5. QED BY <1>3, <1>4 DEF TailMovesOn

LEMMA FailTurns ==
  ASSUME WorkspaceInv, TailMovesOn, NEW r \in Requests, IsTurn(r), Fail(r), EndingsKept
  PROVE  TailMovesOn'
  <1>1. CASE req[r].kind = "fork"
    <2> DEFINE next == [req[r] EXCEPT !.phase = "removing", !.wait = {}]
    <2>1. next.phase = "removing" /\ next.wait = {}
      BY DEF WorkspaceInv, TypeOK, Request
    <2>2. Goto(r, next)
      BY <1>1 DEF Fail
    <2> HIDE DEF next
    <2>3. QED BY <2>1, <2>2, GotoTurns DEF Ready, Exchanging
  <1>2. CASE req[r].kind # "fork"
    BY <1>2, SettleTurns DEF Fail
  <1>3. QED BY <1>1, <1>2

(* Going on with what is awaited already. *)
LEMMA GoesOnTurns ==
  ASSUME WorkspaceInv, TailMovesOn, NEW r \in Requests, IsTurn(r), EndingsKept,
         NEW next, Goto(r, next),
         next.phase # "free", next.kind = req[r].kind,
         next.wait = req[r].wait \/ next.wait = {},
         next.phase \in Exchanging =>
            req[r].phase \in Exchanging \/ req[r].kind \in {"revert", "delete"}
  PROVE  TailMovesOn'
  <1>1. req[r].wait \subseteq Controllers
    BY DEF WorkspaceInv, TypeOK, Request
  <1>2. Ready(next)
    BY <1>1 DEF Ready, TailMovesOn, DisposalsBegun, KnowsItsWay, EndingsKept
  <1>3. QED BY <1>2, GotoTurns

LEMMA BeginningTurns ==
  ASSUME WorkspaceInv, TailMovesOn, NEW r \in Requests, EndingsKept,
         BeginValidation(r) \/ OpenValidated(r) \/ RenameValidated(r)
  PROVE  TailMovesOn'
  <1>1. IsTurn(r) /\ req[r] \in Request
    <2>1. IsTurn(r)
      BY DEF BeginValidation, OpenValidated, RenameValidated, At
    <2>2. QED BY <2>1 DEF WorkspaceInv, TypeOK
  <1>2. ASSUME NEW phase \in {"validating", "refreshing", "opening"},
               Goto(r, [req[r] EXCEPT !.phase = phase])
        PROVE  TailMovesOn'
    <2> DEFINE next == [req[r] EXCEPT !.phase = phase]
    <2>1. next.phase = phase /\ next.kind = req[r].kind /\ next.wait = req[r].wait
      BY <1>1 DEF Request
    <2>2. Goto(r, next)
      BY <1>2
    <2> HIDE DEF next
    <2>3. QED BY <1>1, <2>1, <2>2, GoesOnTurns DEF Exchanging
  <1>3. ASSUME NEW victim,
               Goto(r, [req[r] EXCEPT !.phase = "opening", !.victim = victim,
                            !.held = SessionOf(victim)])
        PROVE  TailMovesOn'
    <2> DEFINE next == [req[r] EXCEPT !.phase = "opening", !.victim = victim,
                            !.held = SessionOf(victim)]
    <2>1. next.phase = "opening" /\ next.kind = req[r].kind /\ next.wait = req[r].wait
      BY <1>1 DEF Request
    <2>2. Goto(r, next)
      BY <1>3
    <2> HIDE DEF next
    <2>3. QED BY <1>1, <2>1, <2>2, GoesOnTurns DEF Exchanging
  <1>4. CASE BeginValidation(r)
    BY <1>2, <1>4, Zenon DEF BeginValidation
  <1>5. CASE RenameValidated(r)
    BY <1>2, <1>5, Zenon DEF RenameValidated
  <1>6. CASE OpenValidated(r)
    BY <1>1, <1>2, <1>3, <1>6, SettleTurns, Zenon DEF OpenValidated
  <1>7. QED BY <1>4, <1>5, <1>6

LEMMA ForkTurns ==
  ASSUME WorkspaceInv, TailMovesOn, NEW r \in Requests, EndingsKept,
         BeginFork(r) \/ ForkFileRemoved(r)
  PROVE  TailMovesOn'
  <1>1. IsTurn(r) /\ req[r] \in Request
    <2>1. IsTurn(r)
      BY DEF BeginFork, ForkFileRemoved, At
    <2>2. QED BY <2>1 DEF WorkspaceInv, TypeOK
  <1>2. ASSUME NEW n, NEW victim, NEW phase \in {"validating", "removing"},
               Goto(r, [req[r] EXCEPT !.phase = phase, !.sid = n, !.victim = victim,
                            !.held = SessionOf(victim)])
        PROVE  TailMovesOn'
    <2> DEFINE next == [req[r] EXCEPT !.phase = phase, !.sid = n, !.victim = victim,
                            !.held = SessionOf(victim)]
    <2>1. next.phase = phase /\ next.kind = req[r].kind /\ next.wait = req[r].wait
      BY <1>1 DEF Request
    <2>2. Goto(r, next)
      BY <1>2
    <2> HIDE DEF next
    <2>3. QED BY <1>1, <2>1, <2>2, GoesOnTurns DEF Exchanging
  <1>3. ASSUME Goto(r, [req[r] EXCEPT !.phase = "orphaned"])
        PROVE  TailMovesOn'
    <2> DEFINE next == [req[r] EXCEPT !.phase = "orphaned"]
    <2>1. next.phase = "orphaned" /\ next.kind = req[r].kind /\ next.wait = req[r].wait
      BY <1>1 DEF Request
    <2>2. Goto(r, next)
      BY <1>3
    <2> HIDE DEF next
    <2>3. QED BY <1>1, <2>1, <2>2, GoesOnTurns DEF Exchanging
  <1>4. CASE BeginFork(r)
    BY <1>1, <1>2, <1>4, SettleTurns, Zenon DEF BeginFork
  <1>5. CASE ForkFileRemoved(r)
    BY <1>1, <1>3, <1>5, SettleTurns, Zenon DEF ForkFileRemoved
  <1>6. QED BY <1>4, <1>5

(* An owner is replaced: by a revert and a soft delete only. *)
LEMMA ExchangeTurns ==
  ASSUME WorkspaceInv, TailMovesOn, NEW r \in Requests, EndingsKept,
         DeleteValidated(r) \/ Resolved(r) \/ BeginRevert(r)
  PROVE  TailMovesOn'
  <1>1. IsTurn(r) /\ req[r] \in Request
    <2>1. IsTurn(r)
      BY DEF DeleteValidated, Resolved, BeginRevert, At
    <2>2. QED BY <2>1 DEF WorkspaceInv, TypeOK
  <1>2. req[r].kind \in {"revert", "delete"}
    <2>1. CASE DeleteValidated(r) \/ BeginRevert(r)
      BY <2>1 DEF DeleteValidated, BeginRevert
    <2>2. CASE Resolved(r)
      <3>1. req[r].phase = "resolving"
        BY <2>2 DEF Resolved, At
      <3>2. QED BY <3>1 DEF TailMovesOn, KnowsItsWay, Exchanging
    <2>3. QED BY <2>1, <2>2
  <1>3. ASSUME NEW phase \in {"resolving", "renaming"}, Goto(r, [req[r] EXCEPT !.phase = phase])
        PROVE  TailMovesOn'
    <2> DEFINE next == [req[r] EXCEPT !.phase = phase]
    <2>1. next.phase = phase /\ next.kind = req[r].kind /\ next.wait = req[r].wait
      BY <1>1 DEF Request
    <2>2. Goto(r, next)
      BY <1>3
    <2> HIDE DEF next
    <2>3. QED BY <1>1, <1>2, <2>1, <2>2, GoesOnTurns
  <1>4. ASSUME NEW old, NEW held,
               Goto(r, [req[r] EXCEPT !.phase = "resolving", !.old = old, !.held = held])
        PROVE  TailMovesOn'
    <2> DEFINE next == [req[r] EXCEPT !.phase = "resolving", !.old = old, !.held = held]
    <2>1. next.phase = "resolving" /\ next.kind = req[r].kind /\ next.wait = req[r].wait
      BY <1>1 DEF Request
    <2>2. Goto(r, next)
      BY <1>4
    <2> HIDE DEF next
    <2>3. QED BY <1>1, <1>2, <2>1, <2>2, GoesOnTurns
  <1>5. ASSUME NEW g, Goto(r, [req[r] EXCEPT !.phase = "recovering", !.rev = g])
        PROVE  TailMovesOn'
    <2> DEFINE next == [req[r] EXCEPT !.phase = "recovering", !.rev = g]
    <2>1. next.phase = "recovering" /\ next.kind = req[r].kind /\ next.wait = req[r].wait
      BY <1>1 DEF Request
    <2>2. Goto(r, next)
      BY <1>5
    <2> HIDE DEF next
    <2>3. QED BY <1>1, <1>2, <2>1, <2>2, GoesOnTurns
  <1>6. ASSUME NEW g, NEW old, NEW held,
               Goto(r, [req[r] EXCEPT !.phase = "replacing", !.rev = g, !.old = old,
                            !.held = held])
        PROVE  TailMovesOn'
    <2> DEFINE next == [req[r] EXCEPT !.phase = "replacing", !.rev = g, !.old = old,
                            !.held = held]
    <2>1. next.phase = "replacing" /\ next.kind = req[r].kind /\ next.wait = req[r].wait
      BY <1>1 DEF Request
    <2>2. Goto(r, next)
      BY <1>6
    <2> HIDE DEF next
    <2>3. QED BY <1>1, <1>2, <2>1, <2>2, GoesOnTurns
  <1>7. CASE DeleteValidated(r)
    BY <1>3, <1>4, <1>7, Zenon DEF DeleteValidated
  <1>8. CASE Resolved(r)
    BY <1>1, <1>3, <1>5, <1>8, SettleTurns, Zenon DEF Resolved
  <1>9. CASE BeginRevert(r)
    BY <1>1, <1>6, <1>9, SettleTurns, Zenon DEF BeginRevert
  <1>10. QED BY <1>7, <1>8, <1>9

(* A disposal has settled, or the last await has. *)
LEMMA SettlingTurns ==
  ASSUME WorkspaceInv, TailMovesOn, NEW r \in Requests, EndingsKept,
         \/ Refused(r) \/ Discarded(r) \/ Evicted(r) \/ Refreshed(r)
         \/ Buried(r) \/ Restored(r) \/ ReplacementFailed(r) \/ Retired(r) \/ Closed(r)
  PROVE  TailMovesOn'
  <1>1. IsTurn(r) /\ req[r] \in Request
    <2>1. IsTurn(r)
      BY DEF Refused, Discarded, Evicted, Refreshed, Buried, Restored, ReplacementFailed,
             Replacing, Retired, Closed, At
    <2>2. QED BY <2>1 DEF WorkspaceInv, TypeOK
  <1>2. ASSUME NEW phase \in {"refreshing", "restoring", "renaming"},
               Goto(r, [req[r] EXCEPT !.phase = phase, !.wait = {}])
        PROVE  TailMovesOn'
    <2> DEFINE next == [req[r] EXCEPT !.phase = phase, !.wait = {}]
    <2>1. next.phase = phase /\ next.kind = req[r].kind /\ next.wait = {}
      BY <1>1 DEF Request
    <2>2. Goto(r, next)
      BY <1>2
    <2> HIDE DEF next
    <2>3. QED BY <1>1, <2>1, <2>2, GoesOnTurns DEF Exchanging
  <1>3. ASSUME Goto(r, [req[r] EXCEPT !.phase = "reviving"])
        PROVE  TailMovesOn'
    <2> DEFINE next == [req[r] EXCEPT !.phase = "reviving"]
    <2>1. next.phase = "reviving" /\ next.kind = req[r].kind /\ next.wait = req[r].wait
      BY <1>1 DEF Request
    <2>2. Goto(r, next)
      BY <1>3
    <2> HIDE DEF next
    <2>3. QED BY <1>1, <2>1, <2>2, GoesOnTurns DEF Exchanging
  <1>4. CASE Refused(r) \/ Discarded(r)
    BY <1>1, <1>4, FailTurns DEF Refused, Discarded
  <1>5. CASE Refreshed(r) \/ ReplacementFailed(r) \/ Closed(r)
    BY <1>1, <1>5, SettleTurns DEF Refreshed, ReplacementFailed, Closed
  <1>6. CASE Evicted(r)
    BY <1>1, <1>2, <1>6, SettleTurns, Zenon DEF Evicted
  <1>7. CASE Buried(r)
    BY <1>1, <1>2, <1>7, Zenon DEF Buried
  <1>8. CASE Restored(r)
    BY <1>1, <1>3, <1>8, SettleTurns, Zenon DEF Restored
  <1>9. CASE Retired(r)
    BY <1>1, <1>2, <1>9, SettleTurns, Zenon DEF Retired
  <1>10. QED BY <1>4, <1>5, <1>6, <1>7, <1>8, <1>9

(* Every controller keeps its state, or is fresh, or begins to be disposed. *)
LEMMA EndingsStay ==
  ASSUME \A d \in Controllers : \/ ctl'[d].state = ctl[d].state
                               \/ ctl[d].state \in {"unborn", "live"}
                               \/ ctl'[d].state \in Ending
  PROVE  EndingsKept
  BY DEF EndingsKept, Ending

LEMMA CommitTurns ==
  ASSUME WorkspaceInv, TailMovesOn, NEW r \in Requests, IsTurn(r), NEW s \in Sessions,
         NEW c \in Fresh, NEW victim, Commit(r, c, s, victim),
         victim # None => /\ victim \in Controllers /\ ctl[victim].sid \in Sessions
                          /\ sessions[ctl[victim].sid] = victim
  PROVE  TailMovesOn'
  <1>1. PICK g : ctl' = [d \in Controllers |->
                           IF d = c THEN NewController(s, g)
                           ELSE IF d = victim THEN Doomed(d) ELSE ctl[d]]
    BY DEF Commit
  <1>2. /\ req[r] \in Request /\ c \in Controllers /\ ctl[c].state = "unborn"
        /\ \A d \in Controllers : Doomed(d).state = "disposing"
    BY DoomedType, FreshIsUnused DEF WorkspaceInv, TypeOK
  <1>3. victim # None => ctl[victim].state = "live" /\ ctl'[victim].state = "disposing"
    <2>1. victim # None => ctl[victim].state = "live"
      BY WorkspaceAssumption DEF WorkspaceInv, LiveIffOwner
    <2>2. QED BY <1>1, <1>2, <2>1
  <1>4. EndingsKept
    <2>1. ASSUME NEW d \in Controllers
          PROVE  \/ ctl'[d].state = ctl[d].state \/ ctl[d].state \in {"unborn", "live"}
                 \/ ctl'[d].state \in Ending
      <3>1. CASE d = c
        BY <1>2, <3>1
      <3>2. CASE d # c /\ d = victim
        BY <1>1, <1>2, <3>2 DEF Ending
      <3>3. CASE d # c /\ d # victim
        BY <1>1, <3>3
      <3>4. QED BY <3>1, <3>2, <3>3
    <2>2. QED BY <2>1, EndingsStay
  <1>5. CASE victim # None
    <2> DEFINE next == [req[r] EXCEPT !.phase = "evicting", !.sid = s,
                            !.victim = victim, !.wait = {victim}, !.held = SessionOf(victim)]
    <2>1. next.phase = "evicting" /\ next.wait = {victim}
      BY <1>2 DEF Request
    <2>2. Goto(r, next)
      BY <1>5 DEF Commit
    <2> HIDE DEF next
    <2>3. Ready(next)
      BY <1>3, <1>5, <2>1 DEF Ready, Exchanging, Ending
    <2>4. QED BY <1>4, <2>2, <2>3, GotoTurns
  <1>6. CASE victim = None /\ req[r].kind = "fork"
    <2> DEFINE next == [req[r] EXCEPT !.phase = "refreshing"]
    <2>1. next.phase = "refreshing" /\ next.kind = req[r].kind /\ next.wait = req[r].wait
      BY <1>2 DEF Request
    <2>2. Goto(r, next)
      BY <1>6 DEF Commit
    <2> HIDE DEF next
    <2>3. QED BY <1>4, <2>1, <2>2, GoesOnTurns DEF Exchanging
  <1>7. CASE victim = None /\ req[r].kind # "fork"
    BY <1>4, <1>7, SettleTurns DEF Commit
  <1>8. QED BY <1>5, <1>6, <1>7

(* A controller that is not registered is disposed, and awaited. *)
LEMMA DiscardingTurns ==
  ASSUME WorkspaceInv, TailMovesOn, NEW r \in Requests, IsTurn(r), NEW c \in Fresh, NEW s,
         ctl' = [ctl EXCEPT ![c] = [NewController(s, 0) EXCEPT !.state = "disposing"]],
         Goto(r, [req[r] EXCEPT !.phase = "discarding", !.wait = {c}])
  PROVE  TailMovesOn'
  <1> DEFINE next == [req[r] EXCEPT !.phase = "discarding", !.wait = {c}]
  <1>1. req[r] \in Request /\ ctl \in [Controllers -> Controller]
        /\ c \in Controllers /\ ctl[c].state = "unborn"
    BY FreshIsUnused DEF WorkspaceInv, TypeOK
  <1>2. ctl'[c].state = "disposing" /\ \A d \in Controllers : d # c => ctl'[d] = ctl[d]
    BY <1>1 DEF NewController
  <1>3. next.phase = "discarding" /\ next.wait = {c}
    BY <1>1 DEF Request
  <1>4. Goto(r, next)
    OBVIOUS
  <1> HIDE DEF next
  <1>5. EndingsKept /\ Ready(next)
    BY <1>1, <1>2, <1>3, EndingsStay DEF Ready, Exchanging, Ending
  <1>6. QED BY <1>4, <1>5, GotoTurns

LEMMA BeginCreateTurns ==
  ASSUME WorkspaceInv, TailMovesOn, NEW r \in Requests, BeginCreate(r)
  PROVE  TailMovesOn'
  <1>1. IsTurn(r)
    BY DEF BeginCreate, At
  <1>2. CASE Settle(r) /\ OwnersUnchanged
    <2>1. EndingsKept
      BY <1>2, EndingsStay DEF OwnersUnchanged
    <2>2. QED BY <1>1, <1>2, <2>1, SettleTurns
  <1>3. ASSUME NEW victim \in Victims({}), NEW s \in Unused, NEW c \in Fresh,
               Commit(r, c, s, victim)
        PROVE  TailMovesOn'
    <2>1. s \in Sessions
      BY DEF Unused
    <2>2. victim # None => /\ victim \in Controllers /\ ctl[victim].sid \in Sessions
                           /\ sessions[ctl[victim].sid] = victim
      BY VictimType DEF WorkspaceInv, Typed
    <2>3. QED BY <1>1, <1>3, <2>1, <2>2, CommitTurns
  <1>4. QED BY <1>2, <1>3 DEF BeginCreate

LEMMA OpenedTurns ==
  ASSUME WorkspaceInv, TailMovesOn, NEW r \in Requests, Opened(r)
  PROVE  TailMovesOn'
  <1> DEFINE s == req[r].sid  victim == req[r].victim
  <1>1. IsTurn(r) /\ req[r].phase = "opening"
    BY DEF Opened, At
  <1>2. CASE Fail(r) /\ OwnersUnchanged
    <2>1. EndingsKept
      BY <1>2, EndingsStay DEF OwnersUnchanged
    <2>2. QED BY <1>1, <1>2, <2>1, FailTurns
  <1>3. ASSUME NEW c \in Fresh, Commit(r, c, s, victim)
        PROVE  TailMovesOn'
    <2>1. s \in Sessions
      BY <1>1 DEF WorkspaceInv, OneMutationRuns, Waiting
    <2>2. victim # None => /\ victim \in Controllers /\ ctl[victim].sid \in Sessions
                           /\ sessions[ctl[victim].sid] = victim
      BY <1>1 DEF WorkspaceInv, Remembers, CandidateKept, TypeOK, Request
    <2> HIDE DEF s, victim
    <2>3. QED BY <1>1, <1>3, <2>1, <2>2, CommitTurns
  <1>4. QED BY <1>1, <1>2, <1>3, DiscardingTurns, Zenon DEF Opened

LEMMA RenamedTurns ==
  ASSUME WorkspaceInv, TailMovesOn, NEW r \in Requests, Renamed(r)
  PROVE  TailMovesOn'
  <1> DEFINE s == req[r].sid
  <1>1. IsTurn(r) /\ req[r].phase = "renaming" /\ req[r] \in Request
    BY DEF Renamed, At, WorkspaceInv, TypeOK
  <1>2. CASE Settle(r) /\ OwnersUnchanged
    <2>1. EndingsKept
      BY <1>2, EndingsStay DEF OwnersUnchanged
    <2>2. QED BY <1>1, <1>2, <2>1, SettleTurns
  <1>3. CASE Goto(r, [req[r] EXCEPT !.phase = "refreshing"]) /\ OwnersUnchanged
    <2> DEFINE next == [req[r] EXCEPT !.phase = "refreshing"]
    <2>1. next.phase = "refreshing" /\ next.kind = req[r].kind /\ next.wait = req[r].wait
      BY <1>1 DEF Request
    <2>2. Goto(r, next)
      BY <1>3
    <2> HIDE DEF next
    <2>3. EndingsKept
      BY <1>3, EndingsStay DEF OwnersUnchanged
    <2>4. QED BY <1>1, <2>1, <2>2, <2>3, GoesOnTurns DEF Exchanging
  <1>4. ASSUME req[r].old # None, NEW g,
               ctl' = [ctl EXCEPT ![sessions[s]] = Doomed(sessions[s])],
               Goto(r, [req[r] EXCEPT !.phase = "burying", !.rev = g, !.wait = {sessions[s]}])
        PROVE  TailMovesOn'
    <2> DEFINE next == [req[r] EXCEPT !.phase = "burying", !.rev = g, !.wait = {sessions[s]}]
    <2>1. s \in Sessions /\ sessions[s] # None
      BY <1>1, <1>4 DEF WorkspaceInv, Remembers, OneMutationRuns, Waiting
    <2>2. sessions[s] \in Controllers /\ ctl[sessions[s]].state = "live"
          /\ ctl \in [Controllers -> Controller]
      BY <2>1 DEF WorkspaceInv, TypeOK, LiveIffOwner
    <2>3. Doomed(sessions[s]).state = "disposing"
      BY <2>2, DoomedType DEF WorkspaceInv
    <2>4. EndingsKept
      BY <1>4, <2>2, <2>3, EndingsStay
    <2>5. next.phase = "burying" /\ next.wait = {sessions[s]}
      BY <1>1 DEF Request
    <2>6. Goto(r, next)
      BY <1>4
    <2> HIDE DEF next
    <2>7. Ready(next)
      BY <1>4, <2>2, <2>3, <2>5 DEF Ready, Exchanging, Ending
    <2>8. QED BY <1>1, <2>4, <2>6, <2>7, GotoTurns
  <1>5. QED BY <1>2, <1>3, <1>4, Zenon DEF Renamed

LEMMA ReplacementTurns ==
  ASSUME WorkspaceInv, TailMovesOn, NEW r \in Requests,
         ReplacementMismatched(r) \/ ReplacementOpened(r)
  PROVE  TailMovesOn'
  <1> DEFINE s == req[r].sid  old == req[r].old
  <1>1. IsTurn(r) /\ req[r].phase \in {"replacing", "recovering", "reviving"}
    BY DEF ReplacementMismatched, ReplacementOpened, Replacing, At
  <1>2. req[r] \in Request /\ ctl \in [Controllers -> Controller] /\ s \in Sessions
    BY <1>1 DEF WorkspaceInv, TypeOK, OneMutationRuns, Waiting
  <1>3. CASE ReplacementMismatched(r)
    BY <1>1, <1>3, DiscardingTurns, Zenon DEF ReplacementMismatched
  <1>4. CASE ReplacementOpened(r) /\ req[r].phase = "reviving"
    <2>1. PICK c \in Fresh : ctl' = [ctl EXCEPT ![c] = NewController(s, req[r].rev)]
      BY <1>4, Zenon DEF ReplacementOpened
    <2>2. Settle(r)
      BY <1>4, Zenon DEF ReplacementOpened
    <2>3. EndingsKept
      BY <1>2, <2>1, FreshIsUnused, EndingsStay
    <2>4. QED BY <1>1, <2>2, <2>3, SettleTurns
  <1>5. CASE ReplacementOpened(r) /\ req[r].phase # "reviving"
    <2> DEFINE next == [req[r] EXCEPT !.phase = "retiring", !.wait = {old}]
    <2>1. PICK c \in Fresh : ctl' = [ctl EXCEPT ![c] = NewController(s, req[r].rev),
                                                ![old] = Doomed(old)]
      BY <1>5, Zenon DEF ReplacementOpened
    <2>2. Goto(r, next)
      BY <1>5, Zenon DEF ReplacementOpened
    <2>3. sessions[s] = old /\ old # None
      BY <1>1, <1>5 DEF WorkspaceInv, Remembers, OldKept
    <2>4. old \in Controllers /\ ctl[old].state = "live"
      BY <1>2, <2>3 DEF WorkspaceInv, TypeOK, LiveIffOwner
    <2>5. Doomed(old).state = "disposing"
      BY <2>4, DoomedType DEF WorkspaceInv
    <2>6. c \in Controllers /\ ctl[c].state = "unborn" /\ c # old
      BY <2>4, FreshIsUnused
    <2>7. ctl'[old].state = "disposing" /\ EndingsKept
      <3>1. \A d \in Controllers : d = c \/ d = old \/ ctl'[d] = ctl[d]
        BY <1>2, <2>1
      <3>2. ctl'[old].state = "disposing"
        BY <1>2, <2>1, <2>4, <2>5, <2>6
      <3>3. QED BY <2>4, <2>6, <3>1, <3>2, EndingsStay
    <2>8. next.phase = "retiring" /\ next.wait = {old} /\ next.kind = req[r].kind
      BY <1>2 DEF Request
    <2>9. req[r].kind \in {"revert", "delete"}
      BY <1>1, <1>5 DEF TailMovesOn, KnowsItsWay, Exchanging
    <2> HIDE DEF next
    <2>10. Ready(next)
      BY <2>7, <2>8, <2>9 DEF Ready, Ending
    <2>11. QED BY <1>1, <2>2, <2>7, <2>10, GotoTurns
  <1>6. QED BY <1>3, <1>4, <1>5

LEMMA DisposeAllTurns ==
  ASSUME WorkspaceInv, TailMovesOn, NEW r \in Requests, BeginDisposeAll(r)
  PROVE  TailMovesOn'
  <1> DEFINE owners == {sessions[s] : s \in Loaded}
             next == [req[r] EXCEPT !.phase = "closing", !.wait = owners]
  <1>1. /\ IsTurn(r) /\ Goto(r, next)
        /\ ctl' = [c \in Controllers |-> IF c \in owners THEN Doomed(c) ELSE ctl[c]]
    BY DEF BeginDisposeAll, At
  <1>2. \A c \in owners : c \in Controllers /\ ctl[c].state = "live"
    BY DEF WorkspaceInv, TypeOK, LiveIffOwner, Loaded
  <1>3. \A c \in Controllers : Doomed(c).state = "disposing"
    BY DoomedType DEF WorkspaceInv
  <1>4. next.phase = "closing" /\ next.wait = owners
    BY DEF WorkspaceInv, TypeOK, Request
  <1> HIDE DEF owners, next
  <1>5. EndingsKept
    BY <1>1, <1>3, EndingsStay DEF Ending
  <1>6. Ready(next)
    BY <1>1, <1>2, <1>3, <1>4 DEF Ready, Exchanging, Ending
  <1>7. QED BY <1>1, <1>5, <1>6, GotoTurns

(* The pieces that leave the controllers alone, or only raise a revision. *)
LEMMA QuietTurns ==
  ASSUME WorkspaceInv, TailMovesOn, NEW r \in Requests,
         (QuietStep(r) /\ ~ReplacementMismatched(r)) \/ Buried(r) \/ Restored(r)
  PROVE  TailMovesOn'
  <1>1. EndingsKept
    <2>1. CASE BeginRevert(r)
      <3>1. ASSUME NEW g \in Revisions, NEW c, ctl' = [ctl EXCEPT ![c].rev = g]
            PROVE  EndingsKept
        BY <3>1, EndingsStay DEF WorkspaceInv, TypeOK, Controller
      <3>2. CASE UNCHANGED ctl
        BY <3>2, EndingsStay
      <3>3. QED BY <2>1, <3>1, <3>2, Zenon DEF BeginRevert
    <2>2. CASE ~BeginRevert(r)
      <3>1. UNCHANGED ctl
        BY <2>2 DEF QuietStep, BeginValidation, Refused, OpenValidated, Discarded, Evicted,
                    Refreshed, RenameValidated, DeleteValidated, Resolved, Buried, Restored,
                    ReplacementFailed, Retired, BeginFork, ForkFileRemoved, Closed,
                    OwnersUnchanged
      <3>2. QED BY <3>1, EndingsStay
    <2>3. QED BY <2>1, <2>2
  <1>2. QED
    BY <1>1, BeginningTurns, ForkTurns, ExchangeTurns, SettlingTurns DEF QuietStep

LEMMA EnqueueTurns ==
  ASSUME WorkspaceInv, TailMovesOn, NEW r \in Requests, NEW kind \in Offered,
         NEW s \in Sessions \union {None}, Enqueue(r, kind, s)
  PROVE  TailMovesOn'
  <1>1. /\ req[r].phase = "free" /\ UNCHANGED ctl /\ queue' = Append(queue, r)
        /\ req' = [req EXCEPT ![r] = [FreeRequest EXCEPT !.kind = kind,
                                           !.phase = "queued", !.sid = s]]
    BY DEF Enqueue, OwnersUnchanged
  <1>2. /\ req'[r].phase = "queued" /\ req'[r].wait = {}
        /\ \A q \in Requests : q # r => req'[q] = req[q]
    BY <1>1 DEF WorkspaceInv, TypeOK, FreeRequest
  <1>3. /\ Len(queue) \in Nat /\ DOMAIN queue = 1..Len(queue)
        /\ DOMAIN queue' = 1..(Len(queue) + 1)
        /\ queue'[Len(queue) + 1] = r /\ \A i \in 1..Len(queue) : queue'[i] = queue[i]
    BY <1>1 DEF WorkspaceInv, TypeOK
  <1>4. ASSUME NEW q \in Requests
        PROVE  HasOneTurn(q)'
    <2>1. CASE q = r
      <3>1. \A j \in DOMAIN queue' : queue'[j] = r <=> j = Len(queue) + 1
        BY <1>1, <1>3 DEF TailMovesOn, HasOneTurn
      <3>2. Len(queue) + 1 \in DOMAIN queue'
        BY <1>3
      <3>3. QED BY <1>2, <2>1, <3>1, <3>2 DEF HasOneTurn
    <2>2. CASE q # r /\ req[q].phase = "free"
      BY <1>2, <1>3, <2>2 DEF TailMovesOn, HasOneTurn
    <2>3. CASE q # r /\ req[q].phase # "free"
      <3>1. PICK i \in DOMAIN queue : \A j \in DOMAIN queue : queue[j] = q <=> j = i
        BY <2>3 DEF TailMovesOn, HasOneTurn
      <3>2. i \in DOMAIN queue' /\ \A j \in DOMAIN queue' : queue'[j] = q <=> j = i
        BY <1>3, <2>3, <3>1
      <3>3. QED BY <1>2, <2>3, <3>2 DEF HasOneTurn
    <2>4. QED BY <2>1, <2>2, <2>3
  <1>5. ASSUME NEW q \in Requests
        PROVE  DisposalsBegun(q)' /\ KnowsItsWay(q)'
    BY <1>1, <1>2 DEF TailMovesOn, DisposalsBegun, KnowsItsWay, Exchanging
  <1>6. QED BY <1>4, <1>5 DEF TailMovesOn

LEMMA OutsideTurns ==
  ASSUME WorkspaceInv, TailMovesOn, UNCHANGED <<queue, req>>, EndingsKept
  PROVE  TailMovesOn'
  <1>1. \A q \in Requests : req[q].wait \subseteq Controllers
    BY DEF WorkspaceInv, TypeOK, Request
  <1>2. QED
    BY <1>1 DEF TailMovesOn, HasOneTurn, DisposalsBegun, KnowsItsWay, EndingsKept

LEMMA EnvironmentTurns ==
  ASSUME WorkspaceInv, TailMovesOn, Environment
  PROVE  TailMovesOn'
  <1>1. ctl \in [Controllers -> Controller]
    BY DEF WorkspaceInv, TypeOK
  <1>2. ASSUME NEW c, NEW work, ctl' = [ctl EXCEPT ![c].work = work]
        PROVE  EndingsKept
    BY <1>1, <1>2, EndingsStay DEF Controller
  <1>3. ASSUME NEW c, NEW g, ctl' = [ctl EXCEPT ![c].rev = g]
        PROVE  EndingsKept
    BY <1>1, <1>3, EndingsStay DEF Controller
  <1>4. ASSUME NEW c \in Controllers, DisposeSettled(c)
        PROVE  EndingsKept
    <2>1. PICK outcome \in {"disposed", "failed"} :
            ctl' = [ctl EXCEPT ![c] = [NewController(None, 0) EXCEPT !.state = outcome]]
      BY <1>4 DEF DisposeSettled
    <2>2. \A d \in Controllers : ctl'[d] = ctl[d] \/ ctl'[d].state = outcome
      BY <1>1, <2>1 DEF NewController
    <2>3. QED BY <2>2, EndingsStay DEF Ending
  <1>5. ASSUME NEW c \in Controllers, Visibility(c) \/ WorkSettled(c)
        PROVE  EndingsKept
    BY <1>2, <1>5 DEF Visibility, WorkSettled
  <1>6. ASSUME NEW c \in Controllers, Progress(c)
        PROVE  EndingsKept
    <2>1. ctl' = [ctl EXCEPT ![c].rev = ctl[c].rev + 1]
      BY <1>6 DEF Progress
    <2>2. QED BY <1>3, <2>1
  <1>7. ASSUME NEW s \in Sessions, Submit(s)
        PROVE  EndingsKept
    BY <1>2, <1>7 DEF Submit
  <1>8. ASSUME NEW s \in Sessions, FocusMoved(s)
        PROVE  EndingsKept
    BY <1>8, EndingsStay DEF FocusMoved
  <1>9. \/ UNCHANGED <<queue, req>> /\ EndingsKept
        \/ \E r \in Requests, k \in Offered, s \in Sessions \union {None} : Enqueue(r, k, s)
    <2>1. \/ \E r \in Requests, k \in Offered, s \in Sessions \union {None} : Enqueue(r, k, s)
          \/ UNCHANGED <<queue, req>>
      BY DEF Environment, DisposeSettled, Visibility, Progress, WorkSettled, Submit,
             FocusMoved, LifecycleUnchanged
    <2>2. QED
      BY <1>4, <1>5, <1>6, <1>7, <1>8, <2>1 DEF Environment
  <1>10. QED BY <1>9, EnqueueTurns, OutsideTurns

LEMMA NextTurns == WorkspaceInv /\ TailMovesOn /\ [Next]_vars => TailMovesOn'
  <1> SUFFICES ASSUME WorkspaceInv, TailMovesOn, [Next]_vars
               PROVE  TailMovesOn'
    OBVIOUS
  <1>1. ASSUME NEW r \in Requests, Step(r)
        PROVE  TailMovesOn'
    BY <1>1, QuietTurns, BeginCreateTurns, OpenedTurns, RenamedTurns, ReplacementTurns,
       DisposeAllTurns
    DEF Step, QuietStep
  <1>2. CASE UNCHANGED vars
    BY <1>2, OutsideTurns, EndingsStay DEF vars
  <1>3. QED BY <1>1, <1>2, EnvironmentTurns DEF Next

(* Every mutation that has not settled has one place in the tail, whatever   *)
(* failed before it, and awaits no disposal that was not begun, so that the  *)
(* tail never stands still for good while awaited calls settle               *)
(* (runLifecycleMutation and the awaits of session-workspace.ts).            *)
THEOREM NoMutationLeftOut == Spec => []TailMovesOn
  <1>1. Init => TailMovesOn
    BY DEF Init, TailMovesOn, HasOneTurn, DisposalsBegun, KnowsItsWay, FreeRequest, Exchanging
  <1>2. QED BY <1>1, NextTurns, InitInv, WorkspaceInvariant, PTL DEF Spec
===============================================================================
