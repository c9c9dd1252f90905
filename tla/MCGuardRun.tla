----------------------------- MODULE MCGuardRun -----------------------------
(* Instances of GuardRun for TLC. *)
EXTENDS GuardRun

(* "long" stands for a name of more than 63 characters. *)
MCText == [n \in Names |-> IF n = "long" THEN "lon" ELSE n]
MCHash == [n \in Names |-> n]

Cfg(name, max_failures, timeout_ms) ==
  [name |-> name, max_failures |-> max_failures, timeout_ms |-> timeout_ms]

ConfigsFlat    == {Cfg("a", 3, 0), Cfg("b", 0, 0)}
ConfigsOne     == {Cfg("a", 2, 1), Cfg("a", 0, 1)}

(* For guard_flat: no action and none of its properties reads the last report
   or the log. *)
FlatView == <<streaks, blocks, now, callback, frames, incidents, failedRuns>>
=============================================================================
