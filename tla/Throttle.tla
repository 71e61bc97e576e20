------------------------------- MODULE Throttle -------------------------------
(***************************************************************************)
(* The AIMD throttle of a run, createThrottleController: how many          *)
(* candidates the shared limiter lets into flight, and by how many steps   *)
(* the pacing floor was raised.  Both react to windows of list pages.      *)
(***************************************************************************)
EXTENDS Integers

CONSTANT Concurrency  \* the configured concurrency: the base and the maximum

ASSUME ConcurrencyAssumption == Concurrency \in Nat \ {0}

\* Mutant: the first rate-limited page already shrinks the limiter.
RateLimitedWindowOfOne == 1
RateLimitedWindow == 2
CleanWindow == 3

Throttles == [concurrency : 1 .. Concurrency, floorSteps : Nat,
              rateLimited : 0 .. RateLimitedWindow, clean : 0 .. CleanWindow]

NewThrottle == [concurrency |-> Concurrency, floorSteps |-> 0,
                rateLimited |-> 0, clean |-> 0]

\* Math.max(floor, Math.floor(concurrency / 2)) with a floor of 1.
Halved(n) == IF n \div 2 < 1 THEN 1 ELSE n \div 2

OnRateLimited(t) ==
  IF t.rateLimited + 1 < RateLimitedWindow
    THEN [t EXCEPT !.rateLimited = @ + 1, !.clean = 0]
    ELSE [concurrency |-> Halved(t.concurrency), floorSteps |-> t.floorSteps + 1,
          rateLimited |-> 0, clean |-> 0]

OnCleanWindow(t) ==
  IF t.clean + 1 < CleanWindow
    THEN [t EXCEPT !.clean = @ + 1, !.rateLimited = 0]
    ELSE [t EXCEPT !.clean = 0, !.rateLimited = 0,
                   !.concurrency = IF @ < Concurrency THEN @ + 1 ELSE @]
=============================================================================
