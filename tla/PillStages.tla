----------------------------- MODULE PillStages -----------------------------
(***************************************************************************)
(* What the popup promises of one pen's stage and its pill, whatever the   *)
(* driver and BlueZ call in and whichever timer fires.  The pen is away,   *)
(* waited for, paired, or given up on; a pill says that something goes on, *)
(* an error pill that it failed.                                           *)
(*                                                                         *)
(* A pairing is believed only of a pen that is there; an error is shown    *)
(* only in place of a pill, and only on giving up on a pen that is not     *)
(* paired; nothing is shown of a pen that is away; and what was given up   *)
(* on shows a pill again only by being waited for again or paired.  No     *)
(* clock: when a pill is taken down is the timers' concern.                *)
(***************************************************************************)
VARIABLES stage,    \* away, waiting, paired, givenUp
          pill      \* none, pill, error

vars == <<stage, pill>>

Init == stage = "away" /\ pill = "none"

\* The pen is seated, reported, or an attempt to reach it starts.
Wait == stage' = "waiting" /\ pill' = "pill"

\* It is paired, or seen again and still paired.
Confirm == /\ stage # "away"
           /\ stage' = "paired" /\ pill' \in {pill, "pill"}

\* The attempt failed, or took too long.
GiveUp == /\ stage' = "givenUp"
          /\ pill' = IF pill = "none" \/ stage = "paired" THEN "none" ELSE "error"

\* It leaves, and what was shown of it goes.
Leave == stage' = "away" /\ pill' = "none"

TakeDown == stage' = stage /\ pill' = "none"

Next == Wait \/ Confirm \/ GiveUp \/ Leave \/ TakeDown

Spec == Init /\ [][Next]_vars
=============================================================================
