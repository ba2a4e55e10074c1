---------------------------- MODULE GubGraphics ----------------------------
(***************************************************************************)
(* The graphic backends of the plugin (gub_graphics.c). The build supports *)
(* some; Unity says which is used, and announces when its device comes and *)
(* goes. A graphic context is made for a pipeline in the first frame and   *)
(* used to copy frames into Unity's texture.                               *)
(***************************************************************************)
EXTENDS GstPlayback

CONSTANT Builds     \* the builds looked at, by the backends in them

Backends == {"d3d9", "d3d11", "opengl", "egl"}
Crops == {"no", "part", "all"}      \* what to cut off; "all" leaves nothing

\* SUPPORT_...: Windows, Android, and the others.
ASSUME BuildAssumption == Builds \subseteq {{"d3d9", "d3d11"}, {"egl"}, {"opengl"}}

ASSUME BackendAssumption == None \notin Backends

VARIABLES
    build,      \* the backends of this build
    backend,    \* gub_graphic_backend
    device,     \* gub_graphic_device: None, "live", or "freed"
    unity       \* whether Unity's device is "on" or "off"

graphicVars == <<build, backend, device, unity>>

GraphicTypeOK ==
    /\ build \in Builds
    /\ backend \in Backends \cup {None}
    /\ device \in {None, "live", "freed"}
    /\ unity \in {"off", "on"}

GraphicInit ==
    /\ build \in Builds
    /\ backend = None
    /\ device = None
    /\ unity = "off"

-----------------------------------------------------------------------------
(* UnitySetGraphicsDevice. Unity's events come in its main thread: a renderer *)
(* the build supports is announced before a pipeline is set up, or never (in *)
(* the Editor), and stays the same.                                          *)

\* Initialize and AfterReset: only Direct3D 11 makes a device of its own.
DeviceComes(b) ==
    /\ backend' = b
    /\ device' = IF b = "d3d11" THEN "live" ELSE device

\* Shutdown and BeforeReset: the device is destroyed, and the pointer to it kept.
DeviceGoes ==
    /\ device' = IF device # None /\ backend = "d3d11" THEN "freed" ELSE device
    /\ UNCHANGED backend

UnityStarts ==
    /\ unity = "off"
    /\ \E b \in build : backend \in {None, b} /\ DeviceComes(b)
    /\ unity' = "on"
    /\ UNCHANGED build

\* Before a shutdown, and before a reset.
UnityLosesDevice ==
    /\ unity = "on"
    /\ DeviceGoes
    /\ unity' = "off"
    /\ UNCHANGED build

GraphicNext == UnityStarts \/ UnityLosesDevice

-----------------------------------------------------------------------------
(* What the pipeline asks of a backend.                                      *)

\* gub_get_video_branch_description: without a backend the Direct3D 9 one, if
\* the build has it, is taken from then on.
Assumed == IF backend = None /\ "d3d9" \in build THEN "d3d9" ELSE backend

\* The description names a "videocrop" element. Without one, and without a
\* description, the copy is taken to crop.
CropsInCopy(b) == b # "d3d11"

\* gub_create_graphic_context, of each backend. OpenGL and EGL wrap Unity's context,
\* which has to be there; OpenGL does not keep the crop.
CreateD3D9(crop) == [crop |-> crop, pipe |-> None, setup |-> FALSE]

CreateD3D11(pipe, crop) == [crop |-> crop, pipe |-> pipe, setup |-> FALSE]

CreateOpenGL ==
    IF unity = "on" THEN [crop |-> "no", pipe |-> None, setup |-> FALSE] ELSE None

CreateEGL(crop) ==
    IF unity = "on" THEN [crop |-> crop, pipe |-> None, setup |-> FALSE] ELSE None

CreateContext(pipe, crop) ==
    CASE backend = "d3d9" -> CreateD3D9(crop)
      [] backend = "d3d11" -> CreateD3D11(pipe, crop)
      [] backend = "opengl" -> CreateOpenGL
      [] backend = "egl" -> CreateEGL(crop)
      [] OTHER -> None

\* gub_destroy_graphic_context, with n contexts there before.
DestroyContext(ctx, n) == IF ctx = None THEN n ELSE n - 1

\* gub_provide_graphic_context: only EGL has one to share, display and GL context.
ProvidedEGL(ctx) == ctx

Provided(ctx) == IF backend = "egl" THEN ProvidedEGL(ctx) ELSE None

\* gub_blit_image copies at all: EGL does not without a context.
Copies(ctx) == backend # None /\ (backend = "egl" => ctx # None)

\* What the copy of each backend cuts off a frame of media m: the crop of the context,
\* nothing, or what the element of the pipeline has cut off before.
CutD3D9(ctx) == ctx.crop

CutD3D11(m) == m.cropped

CutOpenGL == "no"

CutEGL(ctx) == ctx.crop

Cut(ctx, m) ==
    CASE backend = "d3d9" -> CutD3D9(ctx)
      [] backend = "d3d11" -> CutD3D11(m)
      [] backend = "opengl" -> CutOpenGL
      [] backend = "egl" -> CutEGL(ctx)

\* The first copy with Direct3D 11 sets the crop of the element in the pipeline the
\* context was made for, if that is the one at hand.
CropsElement(ctx, pipe, m) ==
    IF backend = "d3d11" /\ ~ctx.setup /\ ctx.pipe = pipe
    THEN [m EXCEPT !.cropped = ctx.crop] ELSE m

AfterCopy(ctx) == IF backend = "d3d11" THEN [ctx EXCEPT !.setup = TRUE] ELSE ctx
=============================================================================
