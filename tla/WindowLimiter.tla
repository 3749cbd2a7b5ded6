---------------------------- MODULE WindowLimiter ----------------------------
(***************************************************************************)
(* What a fixed-window limiter promises its callers: a window opens with   *)
(* the first call it counts, lasts at least Window ticks unless it is      *)
(* cleared, and grants at most Limit calls.  RateLimiter implements it     *)
(* over Redis (services/rate_limit.py).                                    *)
(***************************************************************************)
EXTENDS Naturals

CONSTANTS
  Limit,   \* calls one window grants
  Window   \* ticks a window lasts at the least

VARIABLES
  time,    \* the clock
  opened,  \* when the window was opened
  used     \* calls the window has granted, 0 while none is open

wvars == <<time, opened, used>>

WInit == time = 0 /\ opened = 0 /\ used = 0

Open ==
  /\ used = 0
  /\ used' = 1
  /\ opened' = time
  /\ UNCHANGED time

Grant ==
  /\ used \in 1..(Limit - 1)
  /\ used' = used + 1
  /\ UNCHANGED <<time, opened>>

Pass ==
  /\ time' = time + 1
  /\ UNCHANGED <<opened, used>>

Close ==
  /\ time' = time + 1
  /\ time' >= opened + Window
  /\ used' = 0
  /\ UNCHANGED opened

Clear == used' = 0 /\ UNCHANGED <<time, opened>>

WNext == Open \/ Grant \/ Pass \/ Close \/ Clear

WSpec == WInit /\ [][WNext]_wvars
=============================================================================
