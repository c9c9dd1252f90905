---------------------------- MODULE MCGuardDemos -----------------------------
(* The instance of GuardDemos for TLC. *)
EXTENDS GuardDemos

MCText == [n \in Names |-> n]
MCHash == [n \in Names |-> n]

Cfg(name, max_failures, timeout_ms) ==
  [name |-> name, max_failures |-> max_failures, timeout_ms |-> timeout_ms]

ConfigsNested == {Cfg(NoName, 1, 1), Cfg("b", 0, 0)}

(* What a step or a property can tell apart.  Health, watchdog and recovery
   states, reports and the history of incidents decide nothing, and of the log
   only the two bracket kinds and the blocks entered are looked at.  The port
   picks between two incidents that differ in neither; it is told apart between
   runs, so that every demo is taken on every port. *)
NestedView ==
  <<streaks, now, callback, failedRuns, wiped,
    IF frames = <<>> THEN port ELSE "HOST",
    [i \in 0 .. BlockSlots |-> <<blocks.slot[i].block_name, blocks.slot[i].breaker>>],
    [i \in DOMAIN log |-> <<log[i].kind \in {"ENTERED", "COMPLETED"},
                            log[i].kind = "ENTERED",
                            IF log[i].kind = "ENTERED" THEN log[i].block_name
                                                       ELSE NoName>>],
    [i \in DOMAIN frames |->
       <<frames[i].phase, frames[i].block_name,
         IF frames[i].phase = "entering" THEN frames[i].max_failures ELSE 0,
         frames[i].last_event # NoEvent>>]>>
=============================================================================
