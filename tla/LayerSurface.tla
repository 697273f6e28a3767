---------------------------- MODULE LayerSurface ----------------------------
(***************************************************************************)
(* WaylandLayerSurface (src/src/waylandlayersurface.cpp) as a pure         *)
(* function of its fields.  A call maps a surface to the set of surfaces   *)
(* it may leave: allocating a buffer or a pool may fail.                   *)
(*                                                                         *)
(* The surface is always mapped: hiding it means committing one            *)
(* transparent row.  `pool` is the width the shared memory was last sized  *)
(* for, `buffer` the rectangle of it that is attached, `committed` the     *)
(* height last sent to the compositor, `pixels` what the memory holds.     *)
(* Widths are in units of the configured one, heights in rows.             *)
(***************************************************************************)
EXTENDS Integers

CONSTANTS Height,      \* the full height of the island, kSurfaceHeight
          Widths       \* widths the compositor may configure

ASSUME SurfaceAssumption == Height \in Nat \ {0, 1} /\ Widths \subseteq Nat \ {0}

NoPool   == 0
NoBuffer == [w |-> 0, h |-> 0]
Buffers  == {NoBuffer} \union [w : Widths, h : {1, Height}]

Surface == [configured : BOOLEAN, width : Widths, pool : {NoPool} \union Widths,
            buffer : Buffers, committed : {0, 1, Height},
            pixels : {"blank", "image"}, queueTimer : BOOLEAN]

Usable(l) == l.configured /\ l.pool # NoPool

-----------------------------------------------------------------------------
\* destroyPool(), with the memory, and createPool() for width w.
DestroyPool(l)   == [l EXCEPT !.pool = NoPool, !.buffer = NoBuffer, !.pixels = "blank"]
CreatePool(l, w) == {[l EXCEPT !.pool = w, !.pixels = "blank"], l}

EnsurePoolSize(l) == IF l.pool >= l.width THEN {l} ELSE CreatePool(DestroyPool(l), l.width)

\* ensureBuffer(): the buffer attached has h rows, or there is none.
EnsureBuffer(l, h) ==
    LET wanted == [w |-> l.width, h |-> h]
    IN  IF l.buffer = wanted THEN {l}
        ELSE {[l EXCEPT !.buffer = wanted], [l EXCEPT !.buffer = NoBuffer]}

\* Mutants: the pool is not grown; the pixels are not wiped.
UpdateImageInPlace(l) ==
    IF ~Usable(l) THEN {l} ELSE {[l EXCEPT !.pixels = "image"]}

HideKeepsPixels(l) ==
    IF ~Usable(l) THEN {l}
    ELSE {IF m.buffer = NoBuffer THEN m ELSE [m EXCEPT !.committed = 1] :
             m \in EnsureBuffer([l EXCEPT !.queueTimer = FALSE], 1)}

-----------------------------------------------------------------------------
\* updateImage(), of an image painted afresh.
UpdateImage(l) ==
    IF ~Usable(l) THEN {l}
    ELSE {IF m.pool = NoPool THEN m ELSE [m EXCEPT !.pixels = "image"] :
             m \in EnsurePoolSize(l)}

\* commitFrame(), m_visibleHeight being the full height.
CommitFrame(l) ==
    IF ~Usable(l) THEN {l}
    ELSE {IF m.buffer = NoBuffer THEN m ELSE [m EXCEPT !.committed = Height] :
             m \in EnsureBuffer([l EXCEPT !.queueTimer = TRUE], Height)}

Hide(l) ==
    IF ~Usable(l) THEN {l}
    ELSE {IF m.buffer = NoBuffer THEN m ELSE [m EXCEPT !.committed = 1] :
             m \in EnsureBuffer([l EXCEPT !.queueTimer = FALSE, !.pixels = "blank"], 1)}

\* s_lsConfigure() or s_lsClosed(), of a surface not closed before.
Dispatched(l) ==
    IF ~l.configured THEN {l}
    ELSE {[l EXCEPT !.configured = FALSE]} \union {[l EXCEPT !.width = w] : w \in Widths}

\* init(): it fails, and the popup carries on without it, or ends with hide().
\* The pool is sized for the width asked for, whatever was configured.
Initialised ==
    LET Asked(w, configured) ==
            [configured |-> configured, width |-> w, pool |-> NoPool, buffer |-> NoBuffer,
             committed |-> 0, pixels |-> "blank", queueTimer |-> FALSE]
        Mapped == UNION {CreatePool(Asked(w, TRUE), asked) : w \in Widths, asked \in Widths}
    IN  {Asked(w, FALSE) : w \in Widths} \union UNION {Hide(l) : l \in Mapped}
=============================================================================
