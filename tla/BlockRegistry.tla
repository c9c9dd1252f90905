---------------------------- MODULE BlockRegistry ----------------------------
(***************************************************************************)
(* What the adapter promises about block states.  The first blocks used are *)
(* tracked, each for good and with a state of its own that only operations   *)
(* on that block, the resets and time change.  A block that finds no room,    *)
(* or whose name does not fit, is promised nothing; the latter still uses    *)
(* room up.                                                                  *)
(***************************************************************************)
EXTENDS BlockStates

CONSTANTS
  Levels,    \* the health levels in use
  SomeKinds  \* the event kinds the watchdog is shown

VARIABLES
  room,     \* how many more blocks can be tracked
  tracked,  \* the state of each tracked block
  user      \* the block of the last operation, NoName after one on them all

States == [health : Int, watchdog : 0 .. 2, recovery : 0 .. 2, breaker : Breaker]

FreshState == [health |-> 0, watchdog |-> 0, recovery |-> 0,
               breaker |-> ClosedBreaker]

StateOf(k) == IF k \in DOMAIN tracked THEN tracked[k] ELSE FreshState

Extended(k, s) == [n \in DOMAIN tracked \cup {k} |-> IF n = k THEN s ELSE tracked[n]]

(* An operation that leaves block k, and no other, in state s. *)
Use(k, s) ==
  /\ user' = k
  /\ \/ /\ k \in DOMAIN tracked
        /\ tracked' = Extended(k, s)
        /\ UNCHANGED room
     \/ /\ k \notin DOMAIN tracked
        /\ room > 0
        /\ room' = room - 1
        /\ tracked' = IF Fits(k) THEN Extended(k, s) ELSE tracked
     \/ /\ k \notin DOMAIN tracked
        /\ room = 0
        /\ UNCHANGED <<room, tracked>>

Init ==
  /\ room = BlockSlots
  /\ tracked = [n \in {} |-> FreshState]
  /\ user = NoName

Synced(s) == [s EXCEPT !.recovery = IF s.breaker.open THEN 1 ELSE 0]

UseHealth(k, level) == Use(k, [StateOf(k) EXCEPT !.health = level])
UseEvent(k, kind)   == Use(k, [StateOf(k) EXCEPT !.watchdog = WatchdogAfter(@, kind)])
UseAttempt(k)       == Use(k, Synced(StateOf(k)))
UseResult(k, success) ==
  Use(k, Synced([StateOf(k) EXCEPT !.breaker =
                   IF success THEN Succeeded(@) ELSE Failed(@)]))

ForAll(Change(_)) ==
  /\ tracked' = [n \in DOMAIN tracked |-> Change(tracked[n])]
  /\ user' = NoName
  /\ UNCHANGED room

ClearWatchdogs  == ForAll(LAMBDA s : [s EXCEPT !.watchdog = 0])
ClearRecoveries == ForAll(LAMBDA s : [s EXCEPT !.recovery = 0, !.breaker = ClosedBreaker])
Age             == ForAll(LAMBDA s : [s EXCEPT !.breaker = Aged(@)])

Next ==
  \/ \E k \in Names :
       \/ \E level \in Levels : UseHealth(k, level)
       \/ \E kind \in SomeKinds : UseEvent(k, kind)
       \/ Use(k, StateOf(k))
       \/ HaveMicrores /\ UseAttempt(k)
       \/ HaveMicrores /\ \E success \in BOOLEAN : UseResult(k, success)
  \/ ClearWatchdogs
  \/ ClearRecoveries
  \/ Age

Spec == Init /\ [][Next]_<<room, tracked, user>>
=============================================================================
