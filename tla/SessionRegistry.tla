--------------------------- MODULE SessionRegistry ---------------------------
(***************************************************************************)
(* What the workspace promises about the sessions it keeps loaded, without *)
(* saying how: at every instant each session has at most one owner, at     *)
(* most MaxLoaded sessions have one, ownership moves in one indivisible    *)
(* step, and a controller that has been retired never owns a session       *)
(* again.  SessionWorkspace implements this module.                        *)
(***************************************************************************)
EXTENDS Naturals, FiniteSets

CONSTANTS
    Sessions,       \* session ids
    Controllers,    \* controller objects
    MaxLoaded,      \* options.maxLoadedSessions
    None            \* undefined

VARIABLES
    owner,          \* session id -> the controller that owns it, or None
    used            \* controllers already constructed

vars == <<owner, used>>

Loaded == {s \in Sessions : owner[s] # None}

Init ==
    /\ owner = [s \in Sessions |-> None]
    /\ used = {}

\* A new controller takes a session nobody owns, while there is room for it.
Admit(s, c) ==
    /\ owner[s] = None
    /\ c \notin used
    /\ Cardinality(Loaded) < MaxLoaded
    /\ owner' = [owner EXCEPT ![s] = c]
    /\ used' = used \union {c}

\* A new controller takes a session in the very step that retires another.
Exchange(s, c, victim) ==
    /\ owner[s] = None
    /\ owner[victim] # None
    /\ c \notin used
    /\ owner' = [owner EXCEPT ![s] = c, ![victim] = None]
    /\ used' = used \union {c}

\* A new controller takes a session over from its owner: no ownership gap.
Replace(s, c) ==
    /\ owner[s] # None
    /\ c \notin used
    /\ owner' = [owner EXCEPT ![s] = c]
    /\ used' = used \union {c}

\* A controller is constructed and never becomes an owner.
Discard(c) ==
    /\ c \notin used
    /\ used' = used \union {c}
    /\ UNCHANGED owner

Remove(s) ==
    /\ owner[s] # None
    /\ owner' = [owner EXCEPT ![s] = None]
    /\ UNCHANGED used

Clear ==
    /\ owner' = [s \in Sessions |-> None]
    /\ UNCHANGED used

Next ==
    \/ \E s \in Sessions, c \in Controllers : Admit(s, c) \/ Replace(s, c)
    \/ \E s, victim \in Sessions, c \in Controllers : Exchange(s, c, victim)
    \/ \E c \in Controllers : Discard(c)
    \/ \E s \in Sessions : Remove(s)
    \/ Clear

Spec == Init /\ [][Next]_vars
==============================================================================
