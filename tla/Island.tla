------------------------------- MODULE Island -------------------------------
(***************************************************************************)
(* The choreography of the popup (src/src/popupwidget.cpp): how the island *)
(* on screen follows the mode the state machine asks for.  A transition is *)
(* spread over frames -- old content out, shape, new content in -- and can *)
(* be interrupted by the next one at any frame.  The frames end in the     *)
(* layer surface.                                                          *)
(*                                                                         *)
(* A spring holds the frames it needs to reach its target, at most Span;   *)
(* a retargeted spring may be anywhere.  The shape counts as arrived one   *)
(* frame early (kRevealAt and kVanishAt are below 1).  The state machine   *)
(* is here any caller of setMode() and startFrames().                      *)
(***************************************************************************)
EXTENDS LayerSurface

CONSTANT Span       \* bound: frames a spring takes to settle

ASSUME SpanAssumption == Span \in Nat \ {0}

VARIABLES
    mode, content, nextContent,
    swapPending, revealPending, collapsing,
    layerVisible, frameTimer,
    alphaTarget, fade,          \* m_contentAlpha
    morph,                      \* m_width and m_height
    presenceTarget, vanish,     \* m_presence
    layer                       \* the WaylandLayerSurface

vars == <<mode, content, nextContent, swapPending, revealPending, collapsing,
          layerVisible, frameTimer, alphaTarget, fade, morph,
          presenceTarget, vanish, layer>>

Modes    == {"Hidden", "Compact", "Expanded", "Error"}
Contents == {"None", "Connecting", "Battery", "Error"}

ContentFor(m) == [Hidden |-> "None", Compact |-> "Connecting",
                  Expanded |-> "Battery", Error |-> "Error"][m]

Init ==
    /\ mode = "Hidden" /\ content = "None" /\ nextContent = "None"
    /\ swapPending = FALSE /\ revealPending = FALSE /\ collapsing = FALSE
    /\ layerVisible = FALSE /\ frameTimer = FALSE
    /\ alphaTarget = 0 /\ fade = 0 /\ morph = 0
    /\ presenceTarget = 0 /\ vanish = 0
    /\ layer \in Initialised

\* A spring whose target moves from t to u; one already there stays on course.
Retargeted(t, u, left) == IF t = u THEN {left} ELSE 0 .. Span

Frames == frameTimer' = (frameTimer \/ layerVisible')     \* startFrames()

-----------------------------------------------------------------------------
(***************************************************************************)
(* setMode(), for a mode that is not the current one: its early return for *)
(* the current mode changes nothing, and the one for a popup that is       *)
(* already hidden is never taken, since a shown mode has its layer.        *)
(***************************************************************************)
\* "Every appearance starts as a dot": the springs are snapped.
Appear(m) ==
    /\ layerVisible' = TRUE
    /\ content' = "None"
    /\ fade' = 0 /\ morph' = 0
    /\ presenceTarget' = 1 /\ vanish' = Span
    /\ collapsing' = FALSE

\* Mutant: a collapse interrupted halfway goes on.
RedirectKeepsCollapsing(m) ==
    /\ UNCHANGED <<layerVisible, content, morph, collapsing, presenceTarget, vanish>>
    /\ fade' \in Retargeted(alphaTarget, 0, fade)

\* A new mode for an island on screen, a collapse under way included.
Redirect(m) ==
    /\ UNCHANGED <<layerVisible, content, morph>>
    /\ fade' \in Retargeted(alphaTarget, 0, fade)
    /\ \/ m = "Hidden" /\ UNCHANGED <<collapsing, presenceTarget, vanish>>
       \/ /\ m # "Hidden"
          /\ collapsing' = FALSE
          /\ presenceTarget' = 1
          /\ vanish' \in Retargeted(presenceTarget, 1, vanish)

\* Mutant: nothing to fade out, no swap.
SetModeSkipsSwap(m) ==
    /\ mode' = m /\ nextContent' = ContentFor(m)
    /\ swapPending' = layerVisible /\ revealPending' = FALSE /\ alphaTarget' = 0
    /\ (layerVisible /\ Redirect(m)) \/ (~layerVisible /\ Appear(m))
    /\ Frames /\ UNCHANGED layer

SetMode(m) ==
    /\ mode' = m
    /\ nextContent' = ContentFor(m)
    /\ swapPending' = TRUE /\ revealPending' = FALSE /\ alphaTarget' = 0
    /\ \/ layerVisible /\ Redirect(m)
       \/ ~layerVisible /\ Appear(m)
    /\ Frames
    /\ UNCHANGED layer

\* Something to draw that changes no mode: new battery values, a paired pen.
Refresh ==
    /\ UNCHANGED <<mode, content, nextContent, swapPending, revealPending, collapsing,
                   layerVisible, alphaTarget, fade, morph, presenceTarget, vanish, layer>>
    /\ Frames

-----------------------------------------------------------------------------
(***************************************************************************)
(* onFrame(), in the order of the code.                                    *)
(***************************************************************************)
Step(left) == IF left > 0 THEN left - 1 ELSE 0

\* anythingMoving(), by what was just drawn; `other` stands for the shake, the
\* pulse and the battery ring.
Moving(other) ==
    \/ swapPending' \/ revealPending' \/ collapsing'
    \/ content' = "Connecting"
    \/ fade' # 0 \/ morph' # 0 \/ vanish' # 0
    \/ other

\* Mutant: fading is forgotten.
DrawStopsEarly ==
    /\ layer' \in UNION {CommitFrame(l) : l \in UpdateImage(layer)}
    /\ frameTimer' = (morph' # 0 \/ vanish' # 0)

\* Mutant: the image is handed over and never committed.
DrawUncommitted ==
    /\ layer' \in UpdateImage(layer)
    /\ \E other \in BOOLEAN : frameTimer' = Moving(other)

FinishHide ==
    /\ frameTimer' = FALSE /\ layerVisible' = FALSE
    /\ collapsing' = FALSE /\ content' = "None"
    /\ presenceTarget' = 0 /\ vanish' = 0
    /\ layer' \in Hide(layer)

\* renderFrame(), and the frame timer's rest.
Draw ==
    /\ layer' \in UNION {CommitFrame(l) : l \in UpdateImage(layer)}
    /\ \E other \in BOOLEAN : frameTimer' = Moving(other)

\* The rest of the frame, once content is what it shows: `shape` frames from
\* its shape, `waiting` to be revealed, or `leaving`.
Animate(shown, shape, waiting, leaving) ==
    LET arrived  == shape <= 1
        reveal   == waiting /\ arrived
        dissolve == leaving /\ presenceTarget = 1 /\ arrived
        presence == IF dissolve THEN 0 ELSE presenceTarget
        left     == Step(IF dissolve THEN Span ELSE vanish)
    IN  /\ revealPending' = (waiting /\ ~reveal)
        /\ alphaTarget' = IF reveal THEN 1 ELSE alphaTarget
        /\ fade' = Step(IF reveal THEN Span ELSE fade)
        /\ morph' = Step(shape)
        /\ \/ leaving /\ presence = 0 /\ left = 0 /\ FinishHide
           \/ /\ ~(leaving /\ presence = 0 /\ left = 0)
              /\ content' = shown /\ collapsing' = leaving
              /\ presenceTarget' = presence /\ vanish' = left
              /\ UNCHANGED layerVisible
              /\ Draw

\* The old content has faded out.
Faded == swapPending /\ alphaTarget = 0 /\ fade = 0

OnFrame ==
    /\ frameTimer
    /\ UNCHANGED <<mode, nextContent>>
    /\ \/ /\ Faded
          /\ swapPending' = FALSE
          /\ \E shape \in 0 .. Span :
                Animate(nextContent, shape, nextContent # "None", nextContent = "None")
       \/ /\ ~Faded
          /\ swapPending' = swapPending
          /\ Animate(content, morph, revealPending, collapsing)

-----------------------------------------------------------------------------
\* What the state machine may ask: an error only of a pill that is up.
Request == \E m \in Modes \ {mode} :
    /\ mode = "Hidden" => m # "Error"
    /\ SetMode(m)

\* onThemeFileChanged(): a reloaded theme is painted at once, between the frames.
Repaint ==
    /\ layerVisible
    /\ layer' \in UNION {CommitFrame(l) : l \in UpdateImage(layer)}
    /\ UNCHANGED <<mode, content, nextContent, swapPending, revealPending, collapsing,
                   layerVisible, frameTimer, alphaTarget, fade, morph, presenceTarget, vanish>>

\* A tick of the queue timer that finds an event.
Dispatch == /\ layer.queueTimer
            /\ layer' \in Dispatched(layer)
            /\ UNCHANGED <<mode, content, nextContent, swapPending, revealPending, collapsing,
                           layerVisible, frameTimer, alphaTarget, fade, morph,
                           presenceTarget, vanish>>

Next == Request \/ Refresh \/ OnFrame \/ Repaint \/ Dispatch

\* The frame timer fires while it runs.
Spec == Init /\ [][Next]_vars /\ WF_vars(OnFrame)

-----------------------------------------------------------------------------
TypeOK ==
    /\ mode \in Modes /\ content \in Contents /\ nextContent \in Contents
    /\ {swapPending, revealPending, collapsing, layerVisible, frameTimer} \subseteq BOOLEAN
    /\ alphaTarget \in 0 .. 1 /\ presenceTarget \in 0 .. 1
    /\ fade \in 0 .. Span /\ morph \in 0 .. Span /\ vanish \in 0 .. Span
    /\ layer \in Surface

\* A pill that is asked for is on its way in, even if the request interrupted a
\* collapse halfway.
ShownIsComing ==
    mode # "Hidden" => layerVisible /\ presenceTarget = 1 /\ ~collapsing

\* No transition is left halfway: while one is pending, frames keep coming.
TransitionsAreDriven == swapPending \/ revealPending \/ collapsing => frameTimer

\* What is on screen lags behind the mode only while a swap is pending.
ContentIsTheModes == layerVisible /\ ~swapPending => content = ContentFor(mode)

\* A hidden popup leaves no stale pixels to flash at the next slide-in, whatever
\* painted it last, a theme change included: only a surface the compositor
\* closed, which will never be shown again, keeps them.  And it does not poll
\* the display, with two exceptions: hide() returns before it stops the queue
\* timer if the surface was closed, and also if its pool could not be grown.
\* The comment in init() -- "the timer is started/stopped in commitFrame() and
\* hide()" -- knows of neither.
HiddenIsBlank ==
    ~layerVisible => /\ layer.pixels = "image" => ~layer.configured
                     /\ layer.queueTimer => ~layer.configured \/ layer.pool = NoPool

\* The attached buffer lies within the shared memory: beyond it, reading it is
\* the compositor's protocol error.
BufferInPool == layer.buffer.w * layer.buffer.h <= layer.pool * Height

\* What the compositor was last sent is h rows of such pixels.  A surface that is
\* closed or has lost its pool cannot be sent anything, nor a frame for which no
\* buffer could be had.
Sent(h, pixels) ==
    Usable(layer) /\ layer.buffer # NoBuffer =>
        layer.committed = h /\ layer.buffer.h = h /\ layer.pixels = pixels

\* A mode that lasts ends up on the screen and stays there: its content revealed
\* and committed at full height, or, of a hidden one, a single blank row.
ModeIsPainted ==
    /\ \A m \in Modes \ {"Hidden"} :
          <>[](mode = m) => <>[](/\ content = ContentFor(m) /\ alphaTarget = 1
                                /\ Sent(Height, "image"))
    /\ <>[](mode = "Hidden") => <>[](~layerVisible /\ Sent(1, "blank"))
=============================================================================
