----------------------------- MODULE MCSession -----------------------------
(* The panel's session with two administrators and two calls at a time.    *)
EXTENDS Session

\* What a mixed-up session goes on to do is not followed: every property
\* stops short of it.
NotMixedUp == ~ stray
=============================================================================
