---------------------------- MODULE TunnelHealth ----------------------------
(***************************************************************************)
(* The per-tunnel health machine of a spoke (sdwan/tunnel_health.py) and   *)
(* the aggregation of tunnels into a hub state (sdwan/hub_health.py), as   *)
(* operators on health records; EdgeFailover runs a machine for every      *)
(* WireGuard interface.                                                    *)
(*                                                                         *)
(* Two exact changes of representation keep the state finite:              *)
(*   - hold_down_until, a point on the monotonic clock, is kept as the     *)
(*     time left until it, hold = max(0, hold_down_until - now);           *)
(*     Elapse(h) lets one unit of time pass;                               *)
(*   - successes and failures are only ever compared with >= against a     *)
(*     threshold, so they saturate at that threshold.                      *)
(* Reasons, wall-clock times and round-trip metrics are left out.          *)
(***************************************************************************)
EXTENDS Integers

CONSTANTS
  SuspectFailures,    \* consecutive unusable samples that make a tunnel SUSPECT
  FailedFailures,     \* ... and FAILED
  RecoverySuccesses,  \* consecutive usable samples that end RECOVERING
  HoldDown,           \* hold_down_s, in units of time
  StaleAfter          \* stale_after_s: samples older than this are refused

(* The constructor's check of the thresholds. *)
ASSUME HealthThresholds ==
  /\ SuspectFailures \in Nat /\ FailedFailures \in Nat
  /\ RecoverySuccesses \in Nat /\ HoldDown \in Nat /\ StaleAfter \in Nat
  /\ 0 < SuspectFailures /\ SuspectFailures < FailedFailures
  /\ 0 < RecoverySuccesses /\ 0 < StaleAfter

TunnelStates == {"UNKNOWN", "HEALTHY", "SUSPECT", "FAILED", "RECOVERING"}

Health == [state     : TunnelStates,
           successes : 0 .. RecoverySuccesses,
           failures  : 0 .. FailedFailures,
           hold      : 0 .. HoldDown]

(* A probe result as observe() sees it: whether all four checks passed     *)
(* (usable), its age when it is handed over, and whether its sequence      *)
(* number is above the last accepted one.                                  *)
Samples == [usable : BOOLEAN, age : {0, StaleAfter, StaleAfter + 1}, newer : BOOLEAN]

InitialHealth == [state |-> "UNKNOWN", successes |-> 0, failures |-> 0, hold |-> 0]

(* StaleMeasurement is raised for these: a duplicate or out-of-order       *)
(* sequence number, or a sample that is too old.                           *)
StaleMeasurement(sample) == ~sample.newer \/ sample.age > StaleAfter

Bump(n, cap) == IF n < cap THEN n + 1 ELSE cap

(* Faulty: failures are not reset by a usable sample. *)
UsableKeepsFailures(h) ==
  LET successes == Bump(h.successes, RecoverySuccesses)
      recovered == successes >= RecoverySuccesses /\ h.hold = 0
      waiting   == h.state = "FAILED" \/ (h.state = "RECOVERING" /\ ~recovered)
  IN  [h EXCEPT !.state = IF waiting THEN "RECOVERING" ELSE "HEALTHY", !.successes = successes]

(* Faulty: RECOVERING is skipped. *)
UsableHealsAtOnce(h) ==
  [h EXCEPT !.state = "HEALTHY", !.successes = Bump(@, RecoverySuccesses), !.failures = 0]

(* observe() on a usable sample. *)
ObserveUsable(h) ==
  LET successes == Bump(h.successes, RecoverySuccesses)
      recovered == successes >= RecoverySuccesses /\ h.hold = 0
      waiting   == h.state = "FAILED" \/ (h.state = "RECOVERING" /\ ~recovered)
      state     == IF waiting THEN "RECOVERING" ELSE "HEALTHY"
  IN  [state |-> state, successes |-> successes, failures |-> 0, hold |-> h.hold]

(* observe() on an unusable sample: the hold-down is pushed out to a full  *)
(* HoldDown from now, which is never before the old one.                   *)
ObserveUnusable(h) ==
  LET failures == Bump(h.failures, FailedFailures)
      state    == IF failures >= FailedFailures THEN "FAILED"
                  ELSE IF failures >= SuspectFailures THEN "SUSPECT" ELSE h.state
  IN  [state |-> state, successes |-> 0, failures |-> failures, hold |-> HoldDown]

(* observe(): a refused sample leaves the machine as it was. *)
Observe(h, sample) ==
  IF StaleMeasurement(sample) THEN h
  ELSE IF sample.usable THEN ObserveUsable(h) ELSE ObserveUnusable(h)

(* One unit of time passes. *)
Elapse(h) == [h EXCEPT !.hold = IF @ > 0 THEN @ - 1 ELSE 0]

(* Faulty: one recovering tunnel hides the healthy ones of its hub. *)
AggregateHubVetoing(states) ==
  IF states = {} THEN "UNKNOWN"
  ELSE IF states = {"FAILED"} THEN "UNREACHABLE"
  ELSE IF "RECOVERING" \in states THEN "RECOVERING"
  ELSE IF states = {"HEALTHY"} THEN "HEALTHY"
  ELSE "DEGRADED"

(* aggregate_hub over the states of the tunnels that lead to one hub. *)
AggregateHub(states) ==
  IF states = {} THEN "UNKNOWN"
  ELSE IF states = {"FAILED"} THEN "UNREACHABLE"
  ELSE IF "RECOVERING" \in states /\ "HEALTHY" \notin states THEN "RECOVERING"
  ELSE IF states = {"HEALTHY"} THEN "HEALTHY"
  ELSE "DEGRADED"
=============================================================================
