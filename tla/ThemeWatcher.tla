---------------------------- MODULE ThemeWatcher ----------------------------
(***************************************************************************)
(* The popup's colours (src/src/colortheme.cpp and the theme part of       *)
(* src/src/popupwidget.cpp): read once when the popup is made, and again   *)
(* whenever QFileSystemWatcher reports the qt6ct palette or its directory. *)
(* The handler re-arms the watch and walks through the candidate files;    *)
(* the writers (matugen, which replaces the file, editors, which rewrite   *)
(* it, and anyone who deletes it) run beside every step of it.             *)
(*                                                                         *)
(* A file that is being written is "torn": what is read of it may or may   *)
(* not have the expected format and the keys.  The candidates that are not *)
(* watched are one path here.                                              *)
(***************************************************************************)
EXTENDS Naturals, Sequences

CONSTANT Palettes       \* contents of a whole palette file

ASSUME PalettesAssumption ==
    {"absent", "torn", "builtin", "mixed"} \intersect Palettes = {}

Candidates == <<"qt6ct", "fallback">>
Paths      == {"qt6ct", "fallback"}

VARIABLES
    pc,         \* where the GUI thread is: making the popup, at rest, or in the handler
    at,         \* the candidate it looks at
    booting,    \* whether the constructor is still to set up its watches
    theme,      \* a palette, "builtin", or "mixed"
    file,       \* external: per path, "absent", "torn" or a palette
    dirWatched, \* QFileSystemWatcher: the directory
    fileWatch,  \* QFileSystemWatcher: "none", "live", "gone" (the file it named is)
    events,     \* QFileSystemWatcher: what it has to report
    noticed     \* ghost: the palette changed since the watches were set up

codeVars  == <<pc, at, booting, theme>>
watchVars == <<dirWatched, fileWatch, events>>
vars == <<codeVars, watchVars, file, noticed>>

Init ==
    /\ pc = "find" /\ at = 1 /\ booting = TRUE
    /\ theme = "builtin"
    /\ file \in [Paths -> {"absent", "torn"} \union Palettes]
    /\ dirWatched = FALSE /\ fileWatch = "none" /\ events = {}
    /\ noticed = FALSE

Exists(p) == file[p] # "absent"

-----------------------------------------------------------------------------
(***************************************************************************)
(* ColorTheme::loadFromQt6ct(): the first candidate that exists and has    *)
(* the expected format is read again and applied.                          *)
(***************************************************************************)
Loaded == /\ pc' = IF booting THEN "watchDir" ELSE "rest"
          /\ at' = 1

Find ==
    /\ pc = "find"
    /\ \/ /\ Exists(Candidates[at])
          /\ pc' = "apply" /\ UNCHANGED at
       \/ /\ file[Candidates[at]] \in {"absent", "torn"}
          /\ \/ at < Len(Candidates) /\ at' = at + 1 /\ UNCHANGED pc
             \/ at = Len(Candidates) /\ Loaded
    /\ UNCHANGED <<booting, theme, watchVars, file, noticed>>

\* loadFrom() takes each colour from the file or, where the file has none, leaves it:
\* a file torn or gone since it was looked at leaves a mixture, or nothing new.
Apply ==
    LET now == file[Candidates[at]]
    IN  /\ pc = "apply"
        /\ theme' \in IF now \in Palettes THEN {now}
                      ELSE IF now = "torn" THEN {theme, "mixed"} ELSE {theme}
        /\ Loaded
        /\ UNCHANGED <<booting, watchVars, file, noticed>>

-----------------------------------------------------------------------------
(***************************************************************************)
(* The constructor's watches: the directory, then the file if it exists.   *)
(***************************************************************************)
WatchDir ==
    /\ pc = "watchDir"
    /\ \/ pc' = "watchFile" /\ dirWatched' = TRUE /\ UNCHANGED booting
       \/ pc' = "rest" /\ booting' = FALSE /\ UNCHANGED dirWatched     \* mkpath() failed
    /\ UNCHANGED <<at, theme, fileWatch, events, file, noticed>>

\* addPath() of a path the watcher lists already does nothing.
AddedPath == IF Exists("qt6ct") /\ fileWatch = "none" THEN "live" ELSE fileWatch

WatchFile ==
    /\ pc = "watchFile" /\ pc' = "rest" /\ booting' = FALSE
    /\ fileWatch' = AddedPath
    /\ UNCHANGED <<at, theme, dirWatched, events, file, noticed>>

-----------------------------------------------------------------------------
(***************************************************************************)
(* onThemeFileChanged()                                                    *)
(***************************************************************************)
\* Mutant: only the directory's reports re-arm the file's watch.
ReportRearmsForDir(e) ==
    /\ pc = "rest" /\ e \in events
    /\ events' = events \ {e}
    /\ fileWatch' = IF e = "gone" THEN "none" ELSE fileWatch
    /\ pc' = IF e = "dir" THEN "rearm" ELSE "find"
    /\ UNCHANGED <<at, booting, theme, dirWatched, file, noticed>>

\* The watcher reports; a file that is gone leaves its list.
Report(e) ==
    /\ pc = "rest" /\ e \in events
    /\ events' = events \ {e}
    /\ fileWatch' = IF e = "gone" THEN "none" ELSE fileWatch
    /\ pc' = "rearm"
    /\ UNCHANGED <<at, booting, theme, dirWatched, file, noticed>>

\* Mutant: the watch is set up once, by the constructor.
RearmForgotten ==
    /\ pc = "rearm" /\ pc' = "find"
    /\ UNCHANGED <<at, booting, theme, watchVars, file, noticed>>

Rearm ==
    /\ pc = "rearm" /\ pc' = "find"
    /\ fileWatch' = AddedPath
    /\ UNCHANGED <<at, booting, theme, dirWatched, events, file, noticed>>

-----------------------------------------------------------------------------
(***************************************************************************)
(* The writers.  A watched directory reports names that come and go, a     *)
(* watched file what is written to it and that it was removed or replaced. *)
(***************************************************************************)
\* The qt6ct file becomes `content`; `named` is whether its directory changed, `gone`
\* whether the file that was there is.
Written(content, named, gone) ==
    /\ file' = [file EXCEPT !["qt6ct"] = content]
    /\ events' = events \union (IF dirWatched /\ named THEN {"dir"} ELSE {})
                        \union (IF fileWatch # "live" THEN {}
                                ELSE IF gone THEN {"gone"} ELSE {"file"})
    /\ fileWatch' = IF gone /\ fileWatch = "live" THEN "gone" ELSE fileWatch
    /\ noticed' = (dirWatched /\ ~booting)
    /\ UNCHANGED <<codeVars, dirWatched>>

Create  == ~Exists("qt6ct") /\ Written("torn", TRUE, FALSE)
Rewrite == Exists("qt6ct") /\ Written("torn", FALSE, FALSE)
Finish  == file["qt6ct"] = "torn" /\ \E v \in Palettes : Written(v, FALSE, FALSE)
Replace == \E v \in Palettes : Written(v, TRUE, TRUE)
Remove  == Exists("qt6ct") /\ Written("absent", TRUE, TRUE)

\* Nobody watches the other candidates.
FallbackChanges ==
    /\ \E c \in {"absent", "torn"} \union Palettes :
          file' = [file EXCEPT !["fallback"] = c]
    /\ UNCHANGED <<codeVars, watchVars, noticed>>

-----------------------------------------------------------------------------
Handler == Find \/ Apply \/ WatchDir \/ WatchFile \/ Rearm
           \/ \E e \in {"dir", "file", "gone"} : Report(e)

Writers == Create \/ Rewrite \/ Finish \/ Replace \/ Remove \/ FallbackChanges

Next == Handler \/ Writers

\* The event loop delivers the watcher's reports; the writers owe nothing.
Spec == Init /\ [][Next]_vars /\ WF_vars(Handler)

-----------------------------------------------------------------------------
TypeOK ==
    /\ pc \in {"find", "apply", "watchDir", "watchFile", "rest", "rearm"}
    /\ at \in 1 .. Len(Candidates) /\ booting \in BOOLEAN
    /\ theme \in {"builtin", "mixed"} \union Palettes
    /\ file \in [Paths -> {"absent", "torn"} \union Palettes]
    /\ dirWatched \in BOOLEAN /\ fileWatch \in {"none", "live", "gone"}
    /\ events \subseteq {"dir", "file", "gone"} /\ noticed \in BOOLEAN

\* "matugen replaces the file atomically, which drops the watch on the path": once
\* the handler is at rest and nothing is left to report, the file that is there now is
\* the one that is watched, however often it was replaced or removed.
WatchSurvivesReplace ==
    pc = "rest" /\ dirWatched /\ events = {} =>
        fileWatch = IF Exists("qt6ct") THEN "live" ELSE "none"

\* A palette that is complete and stays is what the popup is painted in, though it was
\* written in any number of pieces, while the handler was reading or in between --
\* provided it was written after the watches were set up.
ThemeCatchesUp ==
    \A v \in Palettes :
        noticed /\ file["qt6ct"] = v ~> theme = v \/ file["qt6ct"] # v
=============================================================================
