-------------------------- MODULE PairingAttempts --------------------------
(***************************************************************************)
(* What BluezManager's signals promise their listener: attempts run one at *)
(* a time, each announced by `attemptStarted` and closed by at most one    *)
(* verdict, and no verdict comes without an attempt.  An attempt may also  *)
(* close without a word: it was cancelled, or BlueZ could not be reached.  *)
(***************************************************************************)
VARIABLES running, signal

vars == <<running, signal>>

Init == running = FALSE /\ signal = "none"

Start   == ~running /\ running' \in BOOLEAN /\ signal' = "started"
Verdict == running /\ running' = FALSE /\ signal' \in {"paired", "failed"}
Silence == running /\ running' = FALSE /\ signal' = "none"
Work    == running' = running /\ signal' = "none"

Next == Start \/ Verdict \/ Silence \/ Work

Spec == Init /\ [][Next]_vars
=============================================================================
