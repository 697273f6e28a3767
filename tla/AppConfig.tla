------------------------------ MODULE AppConfig ------------------------------
(***************************************************************************)
(* AppConfig::load() (src/src/appconfig.cpp): what every start of the      *)
(* program makes of a config file that the program itself wrote once,      *)
(* perhaps not to its end, and that the user edits and removes.            *)
(*                                                                         *)
(* A duration is what toInt() makes of it: a number, or Unreadable when    *)
(* the key is missing or holds none.  Any other key holds a text, or is    *)
(* Absent.  How QSettings splits a line into both is not modelled.         *)
(***************************************************************************)
EXTENDS Integers, Sequences

CONSTANTS Texts,          \* what a key that is no duration may hold
          ShippedText     \* the defaults of ButtonMapConfig for those keys

VARIABLES
    exists,         \* there is a file
    ms, text,       \* what it holds
    config,         \* what the last start loaded
    touched         \* ghost: a user wrote the file, or its first write tore a value

vars == <<exists, ms, text, config, touched>>

Durations == {"double-click-ms", "long-press-ms", "connect-timeout-ms"}
TextKeys  == {"enabled", "grab", "repeat",
              "primary", "primary-double-click", "primary-long-press",
              "secondary", "secondary-double-click", "secondary-long-press"}

\* The order the defaults are written in.
Written == <<"enabled", "grab", "repeat", "double-click-ms", "long-press-ms",
             "primary", "primary-double-click", "primary-long-press",
             "secondary", "secondary-double-click", "secondary-long-press",
             "connect-timeout-ms">>

Value == [ok : BOOLEAN, number : Int]

Number(n)  == [ok |-> TRUE, number |-> n]
Unreadable == [ok |-> FALSE, number |-> 0]
Absent     == CHOOSE v : v \notin Texts

ShippedMs == [k \in Durations |-> IF k = "double-click-ms" THEN 300
                                  ELSE IF k = "long-press-ms" THEN 500 ELSE 15 * 1000]
Shipped   == [ms |-> ShippedMs, text |-> [k \in TextKeys |-> ShippedText[k]]]

\* kMinGestureMs .. kMaxGestureMs, and 0 .. kMaxConnectTimeoutMs.
Least == [k \in Durations |-> IF k = "connect-timeout-ms" THEN 0 ELSE 50]
Most  == [k \in Durations |-> IF k = "connect-timeout-ms" THEN 600 * 1000 ELSE 10 * 1000]

\* A file that holds the shipped values of some keys, and no others.
MsUpTo(keys)   == [k \in Durations |-> IF k \in keys THEN Number(ShippedMs[k]) ELSE Unreadable]
TextUpTo(keys) == [k \in TextKeys |-> IF k \in keys THEN ShippedText[k] ELSE Absent]

Init == /\ exists = FALSE /\ ms = MsUpTo({}) /\ text = TextUpTo({})
        /\ touched = FALSE
        /\ config = Shipped         \* nothing is loaded yet

-----------------------------------------------------------------------------
Bound(least, value, most) ==        \* qBound()
    IF value < least THEN least ELSE IF value > most THEN most ELSE value

IniMilliseconds(value, fallback, least, most) ==
    IF value.ok THEN Bound(least, value.number, most) ELSE fallback

IniText(value, fallback) == IF value = Absent THEN fallback ELSE value

Read == [ms   |-> [k \in Durations |->
                      IniMilliseconds(ms[k], ShippedMs[k], Least[k], Most[k])],
         text |-> [k \in TextKeys |-> IniText(text[k], ShippedText[k])]]

\* writeDefaultConfig(): it does not look whether the stream took everything, so
\* what is left may end after any key, or within the value of the next.
WriteDefaultConfig ==
    \/ UNCHANGED <<exists, ms, text, touched>>      \* no directory, or no file
    \/ /\ exists' = TRUE
       /\ \E n \in 0 .. Len(Written) :
             LET whole == {Written[i] : i \in 1 .. n}
             IN  \/ /\ ms' = MsUpTo(whole) /\ text' = TextUpTo(whole)
                    /\ UNCHANGED touched
                 \/ /\ n < Len(Written) /\ touched' = TRUE
                    /\ \E digits \in Value, rest \in Texts :
                          /\ ms' = [MsUpTo(whole) EXCEPT ![Written[n + 1]] = digits]
                          /\ text' = [TextUpTo(whole) EXCEPT ![Written[n + 1]] = rest]

\* The program starts, or prints its configuration (--list-input).
Load ==
    \/ /\ exists
       /\ config' = Read
       /\ UNCHANGED <<exists, ms, text, touched>>
    \/ /\ ~exists
       /\ config' = Shipped
       /\ WriteDefaultConfig

\* The user writes the file, a copy from elsewhere included, or removes it.
Edit ==
    /\ exists' = TRUE /\ touched' = TRUE
    /\ ms' \in [Durations -> Value]
    /\ text' \in [TextKeys -> Texts \union {Absent}]
    /\ UNCHANGED config

Remove ==
    /\ exists' = FALSE /\ touched' = FALSE
    /\ ms' = MsUpTo({}) /\ text' = TextUpTo({})
    /\ UNCHANGED config

Next == Load \/ Edit \/ Remove

Spec == Init /\ [][Next]_vars

-----------------------------------------------------------------------------
\* Whatever the file holds, the program runs with values the other components can
\* work with: their assumptions on DoubleClickMs, LongPressMs and ConnectTimeoutMs.
Usable == \A k \in Durations : config.ms[k] \in Least[k] .. Most[k]

\* "The file is created with the shipped defaults when it is missing": a file the
\* user never wrote loads as the defaults, also one whose write ended early, unless
\* it ended within a value.
UntouchedLoadsShipped == [][Load /\ ~touched => config' = Shipped]_vars
=============================================================================
