--------------------------- MODULE SettingsProofs ---------------------------
(***************************************************************************)
(* The two files the program reads and others write: the palette of        *)
(* ThemeWatcher and the config file of AppConfig.                          *)
(*                                                                         *)
(* The watch on the palette file outlives every replacement of the file,   *)
(* whatever is written and in whatever order the reports are delivered.    *)
(* WatchSurvivesReplace speaks of the handler at rest with nothing left to *)
(* report.  What carries it there is Owed: a file that is there and not    *)
(* watched always has a report on its way, or the handler about to re-arm. *)
(*                                                                         *)
(* The configuration is usable whatever the file holds, and the file the   *)
(* program writes loads as the defaults it was written from.               *)
(***************************************************************************)
EXTENDS Integers, ThemeWatcher, TLAPS

CONSTANTS Texts, ShippedText                      \* of AppConfig
VARIABLES exists, ms, text, config, touched       \* of AppConfig

C == INSTANCE AppConfig

\* The constructor has set up its watches when the handler first runs.
Booted == /\ pc \in {"rest", "rearm"} => ~booting
          /\ dirWatched => ~booting \/ pc = "watchFile"

\* What the watcher lists is there, or it is about to report that it is not; what is
\* there and not listed will be.
Owed ==
    /\ fileWatch = "live" => Exists("qt6ct")
    /\ fileWatch = "gone" => "gone" \in events
    /\ dirWatched /\ Exists("qt6ct") /\ fileWatch = "none" =>
           pc \in {"rearm", "watchFile"} \/ events # {}

ThemeInv == TypeOK /\ Booted /\ Owed

LEMMA TwoCandidates == Len(Candidates) = 2
  BY DEF Candidates

LEMMA ThemeInitial == Init => ThemeInv
  <1>1. ASSUME Init PROVE TypeOK
    <2>1. at \in 1 .. Len(Candidates)
      BY <1>1, TwoCandidates DEF Init
    <2>2. {booting, dirWatched, noticed} \subseteq BOOLEAN
      BY <1>1, Zenon DEF Init
    <2> QED BY <1>1, <2>1, <2>2 DEF Init, TypeOK
  <1>2. Init => Booted /\ Owed
    BY DEF Init, Booted, Owed
  <1> QED BY <1>1, <1>2 DEF ThemeInv

LEMMA ThemeTypeInductive == ASSUME TypeOK, [Next]_vars PROVE TypeOK'
  <1> USE TwoCandidates DEF TypeOK, codeVars, watchVars
  <1>1. CASE Find
    BY <1>1 DEF Find, Loaded
  <1>2. CASE Apply
    <2>1. file[Candidates[at]] \in Palettes => theme' \in Palettes
      BY <1>2 DEF Apply
    <2>2. theme' \in {"builtin", "mixed"} \union Palettes
      BY <1>2, <2>1 DEF Apply
    <2> QED BY <1>2, <2>2 DEF Apply, Loaded
  <1>3. CASE WatchDir \/ WatchFile \/ Rearm
    BY <1>3 DEF WatchDir, WatchFile, Rearm, AddedPath
  <1>4. ASSUME NEW e \in {"dir", "file", "gone"}, Report(e) PROVE TypeOK'
    BY <1>4 DEF Report
  <1>5. ASSUME NEW content \in {"absent", "torn"} \union Palettes,
               NEW named \in BOOLEAN, NEW gone \in BOOLEAN, Written(content, named, gone)
        PROVE  TypeOK'
    BY <1>5 DEF Written, Paths
  <1>6. CASE Create \/ Rewrite \/ Finish \/ Replace \/ Remove
    BY <1>5, <1>6 DEF Create, Rewrite, Finish, Replace, Remove
  <1>7. CASE FallbackChanges
    BY <1>7 DEF FallbackChanges, Paths
  <1>8. CASE UNCHANGED vars
    BY <1>8 DEF vars
  <1> QED BY <1>1, <1>3, <1>4, <1>6, <1>7, <1>8, <1>2 DEF Next, Handler, Writers

LEMMA WatchInductive == ASSUME ThemeInv, [Next]_vars PROVE Booted' /\ Owed'
  <1> USE DEF ThemeInv, TypeOK, Booted, Owed, Exists, Paths, Candidates, codeVars, watchVars
  <1>1. CASE Find \/ Apply
    BY <1>1 DEF Find, Apply, Loaded
  <1>2. CASE WatchDir \/ WatchFile \/ Rearm
    BY <1>2 DEF WatchDir, WatchFile, Rearm, AddedPath
  <1>3. ASSUME NEW e \in {"dir", "file", "gone"}, Report(e) PROVE Booted' /\ Owed'
    BY <1>3 DEF Report
  <1>4. CASE Create
    BY <1>4, PalettesAssumption DEF Create, Written
  <1>5. CASE Rewrite \/ Finish
    BY <1>5, PalettesAssumption DEF Rewrite, Finish, Written
  <1>6. CASE Replace \/ Remove
    BY <1>6, PalettesAssumption DEF Replace, Remove, Written
  <1>7. CASE FallbackChanges
    BY <1>7 DEF FallbackChanges
  <1>8. CASE UNCHANGED vars
    BY <1>8 DEF vars
  <1> QED BY <1>1, <1>2, <1>3, <1>4, <1>5, <1>6, <1>7, <1>8 DEF Next, Handler, Writers

LEMMA ThemeAlways == Spec => []ThemeInv
  <1>1. Init => ThemeInv
    BY ThemeInitial
  <1>2. ThemeInv /\ [Next]_vars => ThemeInv'
    BY ThemeTypeInductive, WatchInductive DEF ThemeInv
  <1> QED BY <1>1, <1>2, PTL DEF Spec

-----------------------------------------------------------------------------
\* The variables of the theme, its watcher and the files keep their types.
THEOREM ThemeTypes == Spec => []TypeOK
  <1>1. ThemeInv => TypeOK
    BY DEF ThemeInv
  <1> QED BY <1>1, ThemeAlways, PTL

\* No replacement or removal of the palette leaves the popup watching a file that is
\* not there, or none although there is one.
THEOREM ThemeWatchSurvives == Spec => []WatchSurvivesReplace
  <1>1. ThemeInv => WatchSurvivesReplace
    BY DEF ThemeInv, TypeOK, Owed, WatchSurvivesReplace
  <1> QED BY <1>1, ThemeAlways, PTL

-----------------------------------------------------------------------------
(***************************************************************************)
(* The config file.                                                        *)
(***************************************************************************)
\* A key of an untouched file is as shipped or missing.
AsShipped ==
    ~touched => /\ \A k \in C!Durations : ms[k] \in {C!Number(C!ShippedMs[k]), C!Unreadable}
                /\ \A k \in C!TextKeys : text[k] \in {ShippedText[k], C!Absent}

ConfigInv == C!Usable /\ AsShipped /\ ms \in [C!Durations -> C!Value]

LEMMA ShippedIsUsable ==
    \A k \in C!Durations :
        /\ C!ShippedMs[k] \in Int /\ C!Least[k] \in Int /\ C!Most[k] \in Int
        /\ C!Least[k] <= C!ShippedMs[k] /\ C!ShippedMs[k] <= C!Most[k]
  BY SMT DEF C!ShippedMs, C!Least, C!Most, C!Durations

LEMMA UpToType == ASSUME NEW keys PROVE C!MsUpTo(keys) \in [C!Durations -> C!Value]
  BY ShippedIsUsable DEF C!MsUpTo, C!Number, C!Unreadable, C!Value

LEMMA UpToShipped ==
    ASSUME NEW keys
    PROVE  /\ \A k \in C!Durations :
                  C!MsUpTo(keys)[k] \in {C!Number(C!ShippedMs[k]), C!Unreadable}
           /\ \A k \in C!TextKeys : C!TextUpTo(keys)[k] \in {ShippedText[k], C!Absent}
  BY DEF C!MsUpTo, C!TextUpTo

\* A duration that is read lies within its bounds; one that was shipped or is
\* missing is read as shipped.
LEMMA ReadBounds ==
    ASSUME NEW k \in C!Durations, NEW v \in C!Value
    PROVE  LET r == C!IniMilliseconds(v, C!ShippedMs[k], C!Least[k], C!Most[k])
           IN  /\ r \in C!Least[k] .. C!Most[k]
               /\ v \in {C!Number(C!ShippedMs[k]), C!Unreadable} => r = C!ShippedMs[k]
  <1>1. v.number \in Int
    BY DEF C!Value
  <1> QED BY <1>1, ShippedIsUsable DEF C!IniMilliseconds, C!Bound, C!Number, C!Unreadable

LEMMA ReadIsUsable == ASSUME ConfigInv, config' = C!Read PROVE C!Usable'
  <1>1. \A k \in C!Durations : C!Read.ms[k] \in C!Least[k] .. C!Most[k]
    BY ReadBounds DEF C!Read, ConfigInv
  <1> QED BY <1>1 DEF C!Usable

LEMMA ShippedUsable == \A k \in C!Durations : C!Shipped.ms[k] \in C!Least[k] .. C!Most[k]
  BY ShippedIsUsable DEF C!Shipped

LEMMA ReadAsShipped == ASSUME ConfigInv, ~touched PROVE C!Read = C!Shipped
  <1>1. \A k \in C!Durations :
            C!IniMilliseconds(ms[k], C!ShippedMs[k], C!Least[k], C!Most[k]) = C!ShippedMs[k]
    BY ReadBounds DEF ConfigInv, AsShipped
  <1>2. \A k \in C!TextKeys : C!IniText(text[k], ShippedText[k]) = ShippedText[k]
    BY DEF ConfigInv, AsShipped, C!IniText
  <1>3. C!Read.ms = C!ShippedMs
    <2>1. C!Read.ms = [k \in C!Durations |-> C!ShippedMs[k]]
      BY <1>1, Zenon DEF C!Read
    <2>2. C!ShippedMs = [k \in C!Durations |-> C!ShippedMs[k]]
      BY SMT DEF C!ShippedMs
    <2> QED BY <2>1, <2>2
  <1> QED BY <1>2, <1>3 DEF C!Read, C!Shipped

\* What the first start leaves of the file, however much it managed to write.
LEMMA WriteKeeps ==
    ASSUME ConfigInv, C!WriteDefaultConfig
    PROVE  AsShipped' /\ ms' \in [C!Durations -> C!Value]
  <1>1. CASE UNCHANGED <<exists, ms, text, touched>>
    BY <1>1 DEF ConfigInv, AsShipped
  <1>2. ASSUME NEW keys, ms' = C!MsUpTo(keys), text' = C!TextUpTo(keys)
        PROVE  AsShipped' /\ ms' \in [C!Durations -> C!Value]
    BY <1>2, UpToType, UpToShipped DEF AsShipped
  <1>3. ASSUME NEW keys, NEW torn, NEW digits \in C!Value, touched' = TRUE,
               ms' = [C!MsUpTo(keys) EXCEPT ![torn] = digits]
        PROVE  AsShipped' /\ ms' \in [C!Durations -> C!Value]
    BY <1>3, UpToType DEF AsShipped
  <1> QED BY <1>1, <1>2, <1>3 DEF C!WriteDefaultConfig

LEMMA ConfigInductive == ASSUME ConfigInv, [C!Next]_(C!vars) PROVE ConfigInv'
  <1>1. CASE C!Load /\ exists
    BY <1>1, ReadIsUsable DEF C!Load, ConfigInv, AsShipped
  <1>2. CASE C!Load /\ ~exists
    BY <1>2, WriteKeeps, ShippedUsable DEF C!Load, ConfigInv, C!Usable
  <1>3. CASE C!Edit
    BY <1>3 DEF C!Edit, ConfigInv, C!Usable, AsShipped
  <1>4. CASE C!Remove
    BY <1>4, UpToType, UpToShipped DEF C!Remove, ConfigInv, C!Usable, AsShipped
  <1>5. CASE UNCHANGED C!vars
    BY <1>5 DEF C!vars, ConfigInv, C!Usable, AsShipped
  <1> QED BY <1>1, <1>2, <1>3, <1>4, <1>5 DEF C!Next

LEMMA ConfigInitial == C!Init => ConfigInv
  <1>1. C!Init => C!Usable
    BY ShippedUsable DEF C!Init, C!Usable
  <1>2. C!Init => AsShipped /\ ms \in [C!Durations -> C!Value]
    BY UpToType, UpToShipped DEF C!Init, AsShipped
  <1> QED BY <1>1, <1>2 DEF ConfigInv

LEMMA ConfigAlways == C!Spec => []ConfigInv
  BY ConfigInitial, ConfigInductive, PTL DEF C!Spec

\* Every start runs with durations within the bounds of appconfig.cpp, whatever
\* numbers or texts the file holds.
THEOREM ConfigIsUsable == C!Spec => []C!Usable
  BY ConfigAlways, PTL DEF ConfigInv

\* A file the user never wrote loads as the shipped defaults, however much of it the
\* first start managed to write, short of tearing a value.
THEOREM DefaultsRoundTrip == C!Spec => C!UntouchedLoadsShipped
  <1>1. ConfigInv /\ C!Load /\ ~touched => config' = C!Shipped
    BY ReadAsShipped DEF C!Load
  <1>2. ConfigInv /\ [C!Next]_(C!vars) =>
            [C!Load /\ ~touched => config' = C!Shipped]_(C!vars)
    BY <1>1
  <1> QED BY <1>2, ConfigAlways, PTL DEF C!Spec, C!UntouchedLoadsShipped
=============================================================================
