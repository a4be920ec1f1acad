---------------------------- MODULE StreamSwitch ----------------------------
(***************************************************************************)
(* What a path of mediamtx promises its readers, whatever feeds it: a path  *)
(* is off the air or carries the stream of one source; a reader is attached *)
(* only to the stream on the air, is detached with all the others when that *)
(* stream ends, and is never moved from one source to another; a request    *)
(* waits only while the path is off the air, and the requests that wait     *)
(* are answered all at once, by a stream or by an error.                    *)
(***************************************************************************)
EXTENDS FiniteSets, Naturals

CONSTANTS
    Sources,    \* what can feed the path
    Readers,    \* the clients
    None,       \* off the air
    MaxReaders  \* the limit on attached readers; zero means none

VARIABLES
    online,     \* the source on the air, or None
    attached,   \* the readers of its stream
    waiting     \* the requests on hold

switchVars == <<online, attached, waiting>>

Fits(rs) == MaxReaders = 0 \/ Cardinality(rs) <= MaxReaders

SwitchInit ==
    /\ online = None
    /\ attached = {}
    /\ waiting = {}

\* A request that finds the path off the air waits.
Hold(r) ==
    /\ online = None
    /\ waiting' = waiting \cup {r}
    /\ UNCHANGED <<online, attached>>

\* A source goes on the air.  Every request that waited is answered.
GoOnline(src) ==
    /\ online = None
    /\ online' = src
    /\ attached' \in {rs \in SUBSET waiting : Fits(rs)}
    /\ waiting' = {}

\* The stream ends, and all its readers are detached.
GoOffline ==
    /\ online # None
    /\ online' = None
    /\ attached' = {}
    /\ UNCHANGED waiting

\* The wait is over without a stream.
GiveUp ==
    /\ online = None
    /\ waiting' = {}
    /\ UNCHANGED <<online, attached>>

Attach(r) ==
    /\ online # None
    /\ attached' = attached \cup {r}
    /\ Fits(attached')
    /\ UNCHANGED <<online, waiting>>

Detach(r) ==
    /\ attached' = attached \ {r}
    /\ UNCHANGED <<online, waiting>>

SwitchNext ==
    \/ \E src \in Sources : GoOnline(src)
    \/ GoOffline
    \/ GiveUp
    \/ \E r \in Readers : Hold(r) \/ Attach(r) \/ Detach(r)

SwitchSpec == SwitchInit /\ [][SwitchNext]_switchVars
=============================================================================
