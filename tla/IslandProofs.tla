---------------------------- MODULE IslandProofs ----------------------------
(***************************************************************************)
(* The choreography for every number of frames a spring may take, and the  *)
(* surface's memory for every height and set of widths.                    *)
(*                                                                         *)
(* ContentIsTheModes and TransitionsAreDriven hold together or not at all: *)
(* a collapse that ends while a swap is pending would stop the frames the  *)
(* swap needs.  It cannot, since what collapses is hidden and has nothing  *)
(* else to do (LeavingIsAll).                                              *)
(***************************************************************************)
EXTENDS Island, TLAPS

Flags == /\ mode \in Modes /\ content \in Contents /\ nextContent = ContentFor(mode)
         /\ swapPending \in BOOLEAN /\ revealPending \in BOOLEAN /\ collapsing \in BOOLEAN
         /\ layerVisible \in BOOLEAN /\ frameTimer \in BOOLEAN

Springs == /\ alphaTarget \in {0, 1} /\ presenceTarget \in {0, 1}
           /\ fade \in 0 .. Span /\ morph \in 0 .. Span /\ vanish \in 0 .. Span

\* What collapses is hidden, and nothing else is under way.
LeavingIsAll == collapsing => mode = "Hidden" /\ ~swapPending /\ ~revealPending

FramesAreSeen == frameTimer => layerVisible

Flow == /\ ShownIsComing /\ TransitionsAreDriven /\ ContentIsTheModes
        /\ LeavingIsAll /\ FramesAreSeen

\* There are no pixels without memory: destroyPool() unmaps them.
Unmapped(l) == l.pool = NoPool => l.pixels = "blank"

IInv == /\ Flags /\ Springs /\ Flow
        /\ layer \in Surface /\ Unmapped(layer) /\ HiddenIsBlank

-----------------------------------------------------------------------------
(***************************************************************************)
(* The layer surface.                                                      *)
(***************************************************************************)
\* The attached buffer lies within the shared memory.
Fits(l) == l.buffer.w * l.buffer.h <= l.pool * Height

\* No configured width is that much wider than another that one row of it
\* exceeds a whole pool of the other: hide() does not grow the pool.
Comparable == \A v, w \in Widths : v <= w * Height

\* What HiddenIsBlank says of the surface of a hidden popup.
Blank(l) == /\ l.pixels = "image" => ~l.configured
            /\ l.queueTimer => ~l.configured \/ l.pool = NoPool

LEMMA SurfaceFields ==
    ASSUME NEW l \in Surface
    PROVE  /\ l.configured \in BOOLEAN /\ l.width \in Widths /\ l.width \in Nat \ {0}
           /\ l.pool \in {NoPool} \union Widths /\ l.pool \in Nat
           /\ l.buffer \in Buffers /\ l.committed \in {0, 1, Height}
           /\ l.pixels \in {"blank", "image"} /\ l.queueTimer \in BOOLEAN
  <1>1. /\ l.configured \in BOOLEAN /\ l.width \in Widths
        /\ l.pool \in {NoPool} \union Widths
        /\ l.buffer \in Buffers /\ l.committed \in {0, 1, Height}
        /\ l.pixels \in {"blank", "image"} /\ l.queueTimer \in BOOLEAN
    BY DEF Surface
  <1>2. l.width \in Nat \ {0} /\ l.pool \in Nat
    <2>1. \A w \in Widths : w \in Nat \ {0}
      BY SurfaceAssumption
    <2>2. 0 \in Nat
      OBVIOUS
    <2>3. l.pool = 0 \/ l.pool \in Widths
      BY <1>1 DEF NoPool
    <2>4. l.width \in Nat \ {0}
      BY <1>1, <2>1
    <2>5. l.pool \in Nat
      BY <2>1, <2>2, <2>3
    <2> QED BY <2>4, <2>5
  <1> QED BY <1>1, <1>2

\* A surface without a buffer fits.
LEMMA NoBufferFits ==
    ASSUME NEW l, l.pool \in Nat, l.buffer = NoBuffer PROVE Fits(l)
  <1>1. l.buffer.w * l.buffer.h = 0
    BY DEF NoBuffer
  <1>2. ASSUME NEW p \in Nat PROVE 0 <= p * Height
    BY SurfaceAssumption
  <1> QED BY <1>1, <1>2 DEF Fits

LEMMA PainterKeeps ==
    ASSUME NEW l \in Surface, NEW m \in UpdateImage(l)
    PROVE  /\ m \in Surface
           /\ Usable(m) => m.width <= m.pool
           /\ Fits(l) => Fits(m)
           /\ Unmapped(l) => Unmapped(m)
  <1> USE SurfaceAssumption DEF NoPool, NoBuffer, Buffers
  <1>1. CASE ~Usable(l)
    BY <1>1 DEF UpdateImage
  <1>2. CASE Usable(l)
    <2>1. PICK e \in EnsurePoolSize(l) :
              m = IF e.pool = NoPool THEN e ELSE [e EXCEPT !.pixels = "image"]
      BY <1>2 DEF UpdateImage
    <2>2. /\ e \in Surface
          /\ e.pool = NoPool \/ e.width <= e.pool
          /\ e = l \/ e.buffer = NoBuffer
          /\ Unmapped(e)
      <3>1. CASE l.pool >= l.width
        BY <1>2, <2>1, <3>1 DEF EnsurePoolSize, Surface, Usable, Unmapped
      <3>2. CASE ~(l.pool >= l.width)
        <4> DEFINE d == DestroyPool(l)
        <4>1. /\ d \in Surface /\ d.pool = NoPool /\ d.buffer = NoBuffer
              /\ d.pixels = "blank" /\ d.width = l.width /\ l.width \in Widths
          BY SurfaceFields DEF DestroyPool, Surface
        <4>2. e = d \/ e = [d EXCEPT !.pool = l.width, !.pixels = "blank"]
          BY <2>1, <3>2 DEF EnsurePoolSize, CreatePool
        <4> HIDE DEF d
        <4>3. CASE e = d
          BY <4>1, <4>3 DEF Unmapped
        <4>4. CASE e = [d EXCEPT !.pool = l.width, !.pixels = "blank"]
          <5>1. /\ e.pool = l.width /\ e.width = l.width /\ e.buffer = NoBuffer
                /\ Unmapped(e)
            BY <4>1, <4>4 DEF Surface, Unmapped
          <5>2. e \in Surface
            BY <4>1, <4>4 DEF Surface
          <5> QED BY <5>1, <5>2, SurfaceFields
        <4> QED BY <4>2, <4>3, <4>4
      <3> QED BY <3>1, <3>2
    <2>3. m.pool = e.pool /\ m.width = e.width /\ m.buffer = e.buffer /\ m \in Surface
      BY <2>1, <2>2 DEF Surface
    <2>4. e.buffer = NoBuffer => Fits(m)
      BY <2>3, SurfaceFields, NoBufferFits
    <2>5. e = l /\ Fits(l) => Fits(m)
      BY <2>3 DEF Fits
    <2>6. Unmapped(m)
      BY <2>1, <2>2, <2>3 DEF Unmapped
    <2> QED BY <2>2, <2>3, <2>4, <2>5, <2>6 DEF Usable
  <1> QED BY <1>1, <1>2

\* A buffer of the current width and of h rows, or none.
LEMMA BufferKeeps ==
    ASSUME NEW l \in Surface, NEW h \in {1, Height}, NEW m \in EnsureBuffer(l, h)
    PROVE  /\ m \in Surface
           /\ m.configured = l.configured /\ m.pool = l.pool
           /\ m.pixels = l.pixels /\ m.queueTimer = l.queueTimer
           /\ Fits(l) /\ l.width * h <= l.pool * Height => Fits(m)
  <1> USE SurfaceAssumption DEF NoPool, NoBuffer, Buffers
  <1> DEFINE wanted == [w |-> l.width, h |-> h]
  <1>1. m = l \/ m = [l EXCEPT !.buffer = wanted] \/ m = [l EXCEPT !.buffer = NoBuffer]
    BY DEF EnsureBuffer
  <1>2. wanted \in Buffers /\ NoBuffer \in Buffers
    BY SurfaceFields
  <1>3. CASE m = l
    BY <1>3
  <1>4. CASE m = [l EXCEPT !.buffer = wanted]
    <2>1. m.buffer.w = l.width /\ m.buffer.h = h /\ m.pool = l.pool
      BY <1>4 DEF Surface
    <2>2. m \in Surface
      BY <1>2, <1>4 DEF Surface
    <2>3. l.width * h <= l.pool * Height => Fits(m)
      BY <2>1 DEF Fits
    <2> QED BY <1>4, <2>2, <2>3 DEF Surface
  <1>5. CASE m = [l EXCEPT !.buffer = NoBuffer]
    <2>1. m.buffer = NoBuffer /\ m.pool = l.pool
      BY <1>5 DEF Surface
    <2>2. m \in Surface
      BY <1>2, <1>5 DEF Surface
    <2>3. Fits(m)
      BY <2>1, SurfaceFields, NoBufferFits
    <2> QED BY <1>5, <2>2, <2>3 DEF Surface
  <1> QED BY <1>1, <1>3, <1>4, <1>5

LEMMA CommitKeeps ==
    ASSUME NEW l \in Surface, Usable(l) => l.width <= l.pool, NEW m \in CommitFrame(l)
    PROVE  m \in Surface /\ (Fits(l) => Fits(m)) /\ (Unmapped(l) => Unmapped(m))
  <1>1. CASE ~Usable(l)
    BY <1>1 DEF CommitFrame
  <1>2. CASE Usable(l)
    <2> DEFINE t == [l EXCEPT !.queueTimer = TRUE]
    <2>1. PICK e \in EnsureBuffer(t, Height) :
              m = IF e.buffer = NoBuffer THEN e ELSE [e EXCEPT !.committed = Height]
      BY <1>2 DEF CommitFrame
    <2>2. /\ t \in Surface /\ t.width = l.width /\ t.pool = l.pool /\ t.buffer = l.buffer
          /\ t.pixels = l.pixels
      BY DEF Surface
    <2> HIDE DEF t
    <2>3. Fits(l) => Fits(t)
      BY <2>2 DEF Fits
    <2>4. t.width * Height <= t.pool * Height
      <3>1. ASSUME NEW w \in Nat, NEW p \in Nat, w <= p PROVE w * Height <= p * Height
        BY <3>1, SurfaceAssumption
      <3> QED BY <1>2, <2>2, <3>1, SurfaceFields
    <2>5. /\ e \in Surface /\ (Fits(l) => Fits(e))
          /\ e.pool = t.pool /\ e.pixels = t.pixels
      BY <2>1, <2>2, <2>3, <2>4, BufferKeeps
    <2>6. /\ m \in Surface /\ m.pool = e.pool /\ m.buffer = e.buffer /\ m.pixels = e.pixels
      BY <2>1, <2>5 DEF Surface
    <2>7. Unmapped(l) => Unmapped(m)
      BY <2>2, <2>5, <2>6 DEF Unmapped
    <2> QED BY <2>5, <2>6, <2>7 DEF Fits
  <1> QED BY <1>1, <1>2

LEMMA HideKeeps ==
    ASSUME NEW l \in Surface, Unmapped(l), NEW m \in Hide(l)
    PROVE  /\ m \in Surface /\ Unmapped(m) /\ Blank(m)
           /\ Fits(l) /\ Comparable => Fits(m)
  <1>1. CASE ~Usable(l)
    BY <1>1 DEF Hide, Blank, Unmapped, Usable
  <1>2. CASE Usable(l)
    <2> DEFINE t == [l EXCEPT !.queueTimer = FALSE, !.pixels = "blank"]
    <2>1. PICK e \in EnsureBuffer(t, 1) :
              m = IF e.buffer = NoBuffer THEN e ELSE [e EXCEPT !.committed = 1]
      BY <1>2 DEF Hide
    <2>2. /\ t \in Surface /\ t.width = l.width /\ t.pool = l.pool /\ t.buffer = l.buffer
          /\ t.queueTimer = FALSE /\ t.pixels = "blank"
      BY DEF Surface
    <2> HIDE DEF t
    <2>3. Fits(l) => Fits(t)
      BY <2>2 DEF Fits
    <2>4. Comparable => t.width * 1 <= t.pool * Height
      BY <1>2, <2>2, SurfaceFields DEF Comparable, Usable
    <2>5. /\ e \in Surface /\ e.queueTimer = FALSE /\ e.pixels = "blank"
          /\ Fits(l) /\ Comparable => Fits(e)
      BY <2>1, <2>2, <2>3, <2>4, BufferKeeps
    <2>6. /\ m \in Surface /\ m.pool = e.pool /\ m.buffer = e.buffer
          /\ m.queueTimer = FALSE /\ m.pixels = "blank"
      BY <2>1, <2>5 DEF Surface
    <2> QED BY <2>5, <2>6 DEF Fits, Blank, Unmapped
  <1> QED BY <1>1, <1>2

LEMMA DispatchKeeps ==
    ASSUME NEW l \in Surface, NEW m \in Dispatched(l)
    PROVE  /\ m \in Surface
           /\ Fits(l) => Fits(m)
           /\ Blank(l) => Blank(m)
           /\ Unmapped(l) => Unmapped(m)
  <1>1. \/ m = l
        \/ m = [l EXCEPT !.configured = FALSE]
        \/ \E w \in Widths : m = [l EXCEPT !.width = w] /\ l.configured
    BY DEF Dispatched
  <1>2. /\ m \in Surface /\ m.pool = l.pool /\ m.buffer = l.buffer
        /\ m.pixels = l.pixels /\ m.queueTimer = l.queueTimer
        /\ m.configured => l.configured
    BY <1>1 DEF Surface
  <1> QED BY <1>2 DEF Fits, Blank, Unmapped

LEMMA InitialSurface ==
    ASSUME NEW l \in Initialised
    PROVE  l \in Surface /\ Unmapped(l) /\ Blank(l) /\ (Comparable => Fits(l))
  <1> DEFINE Asked(w, configured) ==
                 [configured |-> configured, width |-> w, pool |-> NoPool, buffer |-> NoBuffer,
                  committed |-> 0, pixels |-> "blank", queueTimer |-> FALSE]
  <1>1. ASSUME NEW w \in Widths, NEW c \in BOOLEAN
        PROVE  /\ Asked(w, c) \in Surface /\ Fits(Asked(w, c))
               /\ Asked(w, c).pool = NoPool /\ Asked(w, c).buffer = NoBuffer
               /\ Asked(w, c).pixels = "blank" /\ ~Asked(w, c).queueTimer
    <2>1. /\ Asked(w, c) \in Surface
          /\ Asked(w, c).pool = NoPool /\ Asked(w, c).buffer = NoBuffer
          /\ Asked(w, c).pixels = "blank" /\ ~Asked(w, c).queueTimer
      BY DEF Surface, Buffers, NoPool
    <2> HIDE DEF Asked
    <2> QED BY <2>1, SurfaceFields, NoBufferFits
  <1>2. ASSUME NEW w \in Widths, l = Asked(w, FALSE)
        PROVE  l \in Surface /\ Unmapped(l) /\ Blank(l) /\ Fits(l)
    BY <1>1, <1>2 DEF Blank, Unmapped
  <1>3. ASSUME NEW w \in Widths, NEW asked \in Widths,
               NEW k \in CreatePool(Asked(w, TRUE), asked), l \in Hide(k)
        PROVE  l \in Surface /\ Unmapped(l) /\ Blank(l) /\ (Comparable => Fits(l))
    <2> DEFINE a == Asked(w, TRUE)
    <2>1. a \in Surface /\ Fits(a) /\ a.buffer = NoBuffer /\ a.pixels = "blank"
      BY <1>1
    <2>2. k = a \/ k = [a EXCEPT !.pool = asked, !.pixels = "blank"]
      BY DEF CreatePool
    <2> HIDE DEF a
    <2>3. k \in Surface /\ k.buffer = NoBuffer /\ Unmapped(k)
      BY <2>1, <2>2 DEF Surface, Unmapped
    <2>4. Fits(k)
      BY <2>3, SurfaceFields, NoBufferFits
    <2> QED BY <1>3, <2>3, <2>4, HideKeeps
  <1>4. \/ \E w \in Widths : l = Asked(w, FALSE)
        \/ \E w, asked \in Widths : \E k \in CreatePool(Asked(w, TRUE), asked) : l \in Hide(k)
    BY DEF Initialised
  <1> QED BY <1>2, <1>3, <1>4

\* A painted frame: updateImage(), then commitFrame().
LEMMA PaintKeeps ==
    ASSUME NEW l \in Surface, NEW m \in UNION {CommitFrame(k) : k \in UpdateImage(l)}
    PROVE  m \in Surface /\ (Fits(l) => Fits(m)) /\ (Unmapped(l) => Unmapped(m))
  <1>1. PICK k \in UpdateImage(l) : m \in CommitFrame(k)
    OBVIOUS
  <1> QED BY <1>1, PainterKeeps, CommitKeeps

-----------------------------------------------------------------------------
(***************************************************************************)
(* The choreography.                                                       *)
(***************************************************************************)
LEMMA ContentForMode ==
    /\ ContentFor("Hidden") = "None" /\ ContentFor("Compact") = "Connecting"
    /\ ContentFor("Expanded") = "Battery" /\ ContentFor("Error") = "Error"
    /\ \A m \in Modes : ContentFor(m) \in Contents /\ (ContentFor(m) = "None" <=> m = "Hidden")
  BY DEF ContentFor, Modes, Contents

LEMMA IInvInitial == Init => IInv
  <1> SUFFICES ASSUME Init PROVE IInv
    OBVIOUS
  <1>1. Flags
    BY ContentForMode DEF Init, Flags, Modes, Contents
  <1>2. Springs
    BY SpanAssumption DEF Init, Springs
  <1>3. Flow
    BY DEF Init, Flow, ShownIsComing, TransitionsAreDriven, ContentIsTheModes, LeavingIsAll,
           FramesAreSeen
  <1>4. layer \in Surface /\ Unmapped(layer) /\ HiddenIsBlank
    BY InitialSurface DEF Init, HiddenIsBlank, Blank
  <1> QED BY <1>1, <1>2, <1>3, <1>4 DEF IInv

LEMMA StepTypes == \A left \in 0 .. Span : Step(left) \in 0 .. Span
  BY SpanAssumption DEF Step

LEMMA RequestKeeps ==
    ASSUME IInv, NEW m \in Modes \ {mode}, SetMode(m)
    PROVE  IInv'
  <1>1. /\ mode' = m /\ nextContent' = ContentFor(m)
        /\ swapPending' = TRUE /\ revealPending' = FALSE /\ alphaTarget' = 0
        /\ layer' = layer
        /\ frameTimer' = (frameTimer \/ layerVisible')
    BY DEF SetMode, Frames
  <1>2. CASE layerVisible /\ Redirect(m)
    <2>1. layerVisible' = TRUE /\ content' = content /\ morph' = morph
      BY <1>2 DEF Redirect, IInv, Flags
    <2>2. fade' \in 0 .. Span /\ vanish' \in 0 .. Span
      BY <1>2, SpanAssumption DEF Redirect, Retargeted, IInv, Springs
    <2>3. /\ collapsing' = FALSE
          /\ presenceTarget' \in {0, 1} /\ (m # "Hidden" => presenceTarget' = 1)
      <3>1. CASE m = "Hidden"
        BY <1>2, <3>1 DEF Redirect, IInv, Flags, Springs, Flow, ShownIsComing
      <3>2. CASE m # "Hidden"
        BY <1>2, <3>2 DEF Redirect
      <3> QED BY <3>1, <3>2
    <2>4. frameTimer' = TRUE
      BY <1>1, <2>1, Zenon
    <2>5. Flags'
      BY <1>1, <2>1, <2>3, <2>4 DEF IInv, Flags
    <2>6. Springs'
      BY <1>1, <2>1, <2>2, <2>3 DEF IInv, Springs
    <2>7. Flow'
      BY <1>1, <2>1, <2>3, <2>4 DEF Flow, ShownIsComing, TransitionsAreDriven, ContentIsTheModes,
                                    LeavingIsAll, FramesAreSeen
    <2> QED BY <1>1, <2>1, <2>5, <2>6, <2>7 DEF IInv, HiddenIsBlank
  <1>3. CASE ~layerVisible /\ Appear(m)
    <2>1. /\ layerVisible' = TRUE /\ content' = "None" /\ collapsing' = FALSE
          /\ fade' = 0 /\ morph' = 0 /\ presenceTarget' = 1 /\ vanish' = Span
      BY <1>3 DEF Appear
    <2>2. frameTimer' = TRUE
      BY <1>1, <2>1, Zenon
    <2>3. Flags'
      BY <1>1, <2>1, <2>2 DEF IInv, Flags, Contents
    <2>4. Springs'
      BY <1>1, <2>1, SpanAssumption DEF Springs
    <2>5. Flow'
      BY <1>1, <2>1, <2>2 DEF Flow, ShownIsComing, TransitionsAreDriven, ContentIsTheModes,
                              LeavingIsAll, FramesAreSeen
    <2> QED BY <1>1, <2>1, <2>3, <2>4, <2>5 DEF IInv, HiddenIsBlank
  <1> QED BY <1>2, <1>3 DEF SetMode

LEMMA RefreshKeeps == ASSUME IInv, Refresh PROVE IInv'
  <1>1. /\ UNCHANGED <<mode, content, nextContent, swapPending, revealPending, collapsing,
                       layerVisible, alphaTarget, fade, morph, presenceTarget, vanish, layer>>
        /\ frameTimer' = (frameTimer \/ layerVisible)
    BY DEF Refresh, Frames
  <1>2. /\ frameTimer' \in BOOLEAN
        /\ frameTimer => frameTimer'
        /\ frameTimer' => layerVisible
    <2>1. CASE frameTimer
      BY <1>1, <2>1, Zenon DEF IInv, Flow, FramesAreSeen
    <2>2. CASE ~frameTimer
      BY <1>1, <2>2, Zenon
    <2> QED BY <2>1, <2>2
  <1> QED BY <1>1, <1>2 DEF IInv, Flags, Springs, Flow, ShownIsComing, TransitionsAreDriven,
                            ContentIsTheModes, LeavingIsAll, FramesAreSeen, HiddenIsBlank

\* Steps that only paint, or only hear from the compositor.
LEMMA SurfaceStepKeeps ==
    ASSUME IInv, Repaint \/ Dispatch
    PROVE  IInv'
  <1>1. UNCHANGED <<mode, content, nextContent, swapPending, revealPending, collapsing,
                    layerVisible, frameTimer, alphaTarget, fade, morph, presenceTarget, vanish>>
    BY DEF Repaint, Dispatch
  <1>2. layer' \in Surface /\ Unmapped(layer') /\ HiddenIsBlank'
    <2>1. CASE Repaint
      BY <1>1, <2>1, PaintKeeps DEF Repaint, IInv, HiddenIsBlank
    <2>2. CASE Dispatch
      BY <1>1, <2>2, DispatchKeeps DEF Dispatch, IInv, HiddenIsBlank, Blank
    <2> QED BY <2>1, <2>2
  <1> QED BY <1>1, <1>2 DEF IInv, Flags, Springs, Flow, ShownIsComing, TransitionsAreDriven,
                            ContentIsTheModes, LeavingIsAll, FramesAreSeen

\* The island has gone.
Gone == /\ frameTimer' = FALSE /\ layerVisible' = FALSE
        /\ collapsing' = FALSE /\ content' = "None"

\* What a frame does, whichever content it shows.
LEMMA AnimateKeeps ==
    ASSUME Springs, layer \in Surface, Unmapped(layer),
           NEW shown \in Contents, NEW shape \in 0 .. Span,
           NEW waiting \in BOOLEAN, NEW leaving \in BOOLEAN,
           Animate(shown, shape, waiting, leaving)
    PROVE  /\ Springs' /\ layer' \in Surface /\ Unmapped(layer')
           /\ revealPending' \in BOOLEAN /\ (revealPending' => waiting)
           /\ \/ leaving /\ Gone /\ Blank(layer')
              \/ /\ content' = shown /\ collapsing' = leaving
                 /\ ~leaving => presenceTarget' = presenceTarget
                 /\ layerVisible' = layerVisible
                 /\ frameTimer' \in BOOLEAN
                 /\ swapPending' \/ revealPending' \/ collapsing' => frameTimer'
  <1> DEFINE arrived  == shape <= 1
             reveal   == waiting /\ arrived
             dissolve == leaving /\ presenceTarget = 1 /\ arrived
             presence == IF dissolve THEN 0 ELSE presenceTarget
             left     == Step(IF dissolve THEN Span ELSE vanish)
  <1>1. /\ revealPending' = (waiting /\ ~reveal)
        /\ alphaTarget' = IF reveal THEN 1 ELSE alphaTarget
        /\ fade' = Step(IF reveal THEN Span ELSE fade)
        /\ morph' = Step(shape)
    BY DEF Animate
  <1>2. \/ leaving /\ FinishHide
        \/ /\ content' = shown /\ collapsing' = leaving
           /\ presenceTarget' = presence /\ vanish' = left
           /\ layerVisible' = layerVisible /\ Draw
    BY DEF Animate
  <1>3. presence \in {0, 1} /\ left \in 0 .. Span /\ (~leaving => presence = presenceTarget)
    BY SpanAssumption, StepTypes DEF Springs
  <1>4. alphaTarget' \in {0, 1} /\ fade' \in 0 .. Span /\ morph' \in 0 .. Span
    BY <1>1, SpanAssumption, StepTypes DEF Springs
  <1> HIDE DEF reveal, presence, left
  <1>5. revealPending' \in BOOLEAN /\ (revealPending' => waiting)
    BY <1>1, Zenon
  <1>6. CASE leaving /\ FinishHide
    <2>1. Gone /\ presenceTarget' = 0 /\ vanish' = 0 /\ layer' \in Hide(layer)
      BY <1>6 DEF FinishHide, Gone
    <2>2. Springs'
      BY <1>4, <2>1, SpanAssumption DEF Springs
    <2> QED BY <1>5, <1>6, <2>1, <2>2, HideKeeps
  <1>7. CASE /\ content' = shown /\ collapsing' = leaving
             /\ presenceTarget' = presence /\ vanish' = left
             /\ layerVisible' = layerVisible /\ Draw
    <2>1. Springs'
      BY <1>3, <1>4, <1>7 DEF Springs
    <2>2. layer' \in Surface /\ Unmapped(layer')
      BY <1>7, PaintKeeps DEF Draw
    <2>3. PICK other \in BOOLEAN : frameTimer' = Moving(other)
      BY <1>7 DEF Draw
    <2>4. /\ Moving(other) \in BOOLEAN
          /\ swapPending' \/ revealPending' \/ collapsing' => Moving(other)
      BY Zenon DEF Moving
    <2>5. /\ frameTimer' \in BOOLEAN
          /\ swapPending' \/ revealPending' \/ collapsing' => frameTimer'
      BY <2>3, <2>4
    <2> QED BY <1>3, <1>5, <1>7, <2>1, <2>2, <2>5
  <1> QED BY <1>2, <1>6, <1>7

LEMMA FrameKeeps == ASSUME IInv, OnFrame PROVE IInv'
  <1>1. /\ layerVisible /\ mode' = mode /\ nextContent' = nextContent
        /\ nextContent = ContentFor(mode) /\ nextContent \in Contents
        /\ (nextContent = "None" <=> mode = "Hidden")
    BY ContentForMode DEF OnFrame, IInv, Flags, Flow, FramesAreSeen
  <1>2. CASE Faded
    <2>1. PICK shape \in 0 .. Span :
              Animate(nextContent, shape, nextContent # "None", nextContent = "None")
      BY <1>2 DEF OnFrame
    <2>2. swapPending' = FALSE
      BY <1>2 DEF OnFrame
    <2> DEFINE waiting == nextContent # "None"
               leaving == nextContent = "None"
    <2>3. waiting \in BOOLEAN /\ leaving \in BOOLEAN /\ Animate(nextContent, shape, waiting, leaving)
      BY <2>1
    <2>4. (waiting => mode # "Hidden") /\ (leaving => mode = "Hidden" /\ ~waiting)
      BY <1>1
    <2> HIDE DEF waiting, leaving
    <2>5. /\ Springs' /\ layer' \in Surface /\ Unmapped(layer')
          /\ revealPending' \in BOOLEAN /\ (revealPending' => waiting)
          /\ \/ leaving /\ Gone /\ Blank(layer')
             \/ /\ content' = nextContent /\ collapsing' = leaving
                /\ ~leaving => presenceTarget' = presenceTarget
                /\ layerVisible' = layerVisible
                /\ frameTimer' \in BOOLEAN
                /\ swapPending' \/ revealPending' \/ collapsing' => frameTimer'
      BY <1>1, <2>3, AnimateKeeps DEF IInv
    <2>6. CASE leaving /\ Gone /\ Blank(layer')
      BY <1>1, <2>2, <2>4, <2>5, <2>6
         DEF IInv, Flags, Contents, Flow, Gone, ShownIsComing, TransitionsAreDriven,
             ContentIsTheModes, LeavingIsAll, FramesAreSeen, HiddenIsBlank, Blank
    <2>7. CASE /\ content' = nextContent /\ collapsing' = leaving
               /\ ~leaving => presenceTarget' = presenceTarget
               /\ layerVisible' = layerVisible
               /\ frameTimer' \in BOOLEAN
               /\ swapPending' \/ revealPending' \/ collapsing' => frameTimer'
      <3>1. nextContent = "None" <=> leaving
        BY DEF leaving
      <3>2. Flags'
        BY <1>1, <2>2, <2>3, <2>5, <2>7 DEF IInv, Flags
      <3>3. Flow'
        BY <1>1, <2>2, <2>3, <2>4, <2>5, <2>7, <3>1
           DEF IInv, Flow, ShownIsComing, TransitionsAreDriven, ContentIsTheModes,
               LeavingIsAll, FramesAreSeen
      <3> QED BY <1>1, <2>5, <2>7, <3>2, <3>3 DEF IInv, HiddenIsBlank
    <2> QED BY <2>5, <2>6, <2>7
  <1>3. CASE ~Faded
    <2>1. swapPending' = swapPending /\ Animate(content, morph, revealPending, collapsing)
      BY <1>3 DEF OnFrame
    <2>2. /\ Springs' /\ layer' \in Surface /\ Unmapped(layer')
          /\ revealPending' \in BOOLEAN /\ (revealPending' => revealPending)
          /\ \/ collapsing /\ Gone /\ Blank(layer')
             \/ /\ content' = content /\ collapsing' = collapsing
                /\ ~collapsing => presenceTarget' = presenceTarget
                /\ layerVisible' = layerVisible
                /\ frameTimer' \in BOOLEAN
                /\ swapPending' \/ revealPending' \/ collapsing' => frameTimer'
      BY <2>1, AnimateKeeps DEF IInv, Flags, Springs
    <2>3. CASE collapsing /\ Gone /\ Blank(layer')
      BY <1>1, <2>1, <2>2, <2>3
         DEF IInv, Flags, Contents, Flow, Gone, ShownIsComing, TransitionsAreDriven,
             ContentIsTheModes, LeavingIsAll, FramesAreSeen, HiddenIsBlank, Blank
    <2>4. CASE /\ content' = content /\ collapsing' = collapsing
               /\ ~collapsing => presenceTarget' = presenceTarget
               /\ layerVisible' = layerVisible
               /\ frameTimer' \in BOOLEAN
               /\ swapPending' \/ revealPending' \/ collapsing' => frameTimer'
      <3>1. Flags'
        BY <1>1, <2>1, <2>2, <2>4 DEF IInv, Flags
      <3>2. Flow'
        BY <1>1, <2>1, <2>2, <2>4
           DEF IInv, Flow, ShownIsComing, TransitionsAreDriven, ContentIsTheModes,
               LeavingIsAll, FramesAreSeen
      <3> QED BY <1>1, <2>2, <2>4, <3>1, <3>2 DEF IInv, HiddenIsBlank
    <2> QED BY <2>2, <2>3, <2>4
  <1> QED BY <1>2, <1>3

LEMMA IInvInductive == ASSUME IInv, [Next]_vars PROVE IInv'
  <1>1. Request => IInv'
    BY RequestKeeps DEF Request
  <1>2. CASE UNCHANGED vars
    BY <1>2 DEF vars, IInv, Flags, Springs, Flow, ShownIsComing, TransitionsAreDriven,
                ContentIsTheModes, LeavingIsAll, FramesAreSeen, HiddenIsBlank
  <1> QED BY <1>1, <1>2, RefreshKeeps, FrameKeeps, SurfaceStepKeeps DEF Next

LEMMA IInvAlways == Spec => []IInv
  BY IInvInitial, IInvInductive, PTL DEF Spec

-----------------------------------------------------------------------------
\* The island's flags and springs and the surface behind it keep their types.
THEOREM IslandTypes == Spec => []TypeOK
  <1>1. IInv => TypeOK
    <2> SUFFICES ASSUME IInv PROVE TypeOK
      OBVIOUS
    <2>1. nextContent \in Contents
      BY ContentForMode DEF IInv, Flags
    <2> QED BY <2>1 DEF TypeOK, IInv, Flags, Springs
  <1> QED BY <1>1, IInvAlways, PTL

\* A mode that is asked for halfway through a collapse brings the island back.
THEOREM Coming == Spec => []ShownIsComing
  BY IInvAlways, PTL DEF IInv, Flow

\* The frame timer runs for as long as a transition is under way.
THEOREM Driven == Spec => []TransitionsAreDriven
  BY IInvAlways, PTL DEF IInv, Flow

\* But for a pending swap, what is on screen is what the mode calls for.
THEOREM ContentFollows == Spec => []ContentIsTheModes
  BY IInvAlways, PTL DEF IInv, Flow

\* Nothing is left in the memory of a hidden popup, but of a closed surface; and it
\* polls only if its surface was closed or its pool could not be grown.
THEOREM HiddenBlank == Spec => []HiddenIsBlank
  BY IInvAlways, PTL DEF IInv

-----------------------------------------------------------------------------
\* No buffer reaches past the shared memory, if one row of any width fits into
\* the pool of any other: hide() attaches a row without growing the pool.
THEOREM BufferFits ==
    ASSUME Comparable
    PROVE  Spec => []BufferInPool
  <1> DEFINE Inside == Fits(layer)
  <1>1. Init => Inside
    BY InitialSurface DEF Init
  <1>2. ASSUME IInv, Inside, [Next]_vars PROVE Inside'
    <2>1. layer' = layer \/ Repaint \/ Dispatch \/ OnFrame
      BY <1>2 DEF Next, Request, SetMode, Refresh, vars
    <2>2. CASE OnFrame
      <3>1. layer' \in Hide(layer) \/ layer' \in UNION {CommitFrame(l) : l \in UpdateImage(layer)}
        BY <2>2 DEF OnFrame, Animate, FinishHide, Draw
      <3> QED BY <1>2, <3>1, HideKeeps, PaintKeeps DEF IInv
    <2>3. CASE Repaint
      BY <1>2, <2>3, PaintKeeps DEF Repaint, IInv
    <2>4. CASE Dispatch
      BY <1>2, <2>4, DispatchKeeps DEF Dispatch, IInv
    <2> QED BY <1>2, <2>1, <2>2, <2>3, <2>4
  <1>3. Inside => BufferInPool
    BY DEF Fits, BufferInPool
  <1> QED BY <1>1, <1>2, <1>3, IInvAlways, PTL DEF Spec
=============================================================================
