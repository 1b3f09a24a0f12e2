----------------------------- MODULE VaSurfaces -----------------------------
(***************************************************************************)
(* The surfaces of the hardware decoder on Linux (yohu-adbtools            *)
(* mirror_present, linux/vaapi.rs): a ring of surfaces, each with a flag   *)
(* `done`, into which pictures are decoded one after the other. A decoded  *)
(* surface is wanted by two parties that do not know of each other: the    *)
(* decoder, for which it is a reference of later pictures (dpb), and the   *)
(* canvas of the GTK thread (linux/widget.rs), which puts it on the screen *)
(* later (VaBlit). Only the second one holds its flag down.                *)
(***************************************************************************)
EXTENDS Integers, Sequences, SequencesExt

CONSTANTS
  SURFACES,
  Keep,      (* max_num_ref_frames of the stream                           *)
  MaxPlain   (* assumed of the encoder: at most so many pictures in a row  *)
             (* that no other refers to                                    *)

SurfacesAssumption == {SURFACES, Keep} \subseteq Nat \ {0} /\ MaxPlain \in Nat

(* Assumed of the stream: sixteen surfaces are room for all that can come  *)
(* between a reference and the last picture that needs it, and for what    *)
(* the canvas holds meanwhile. Nothing in the code asks for it.            *)
RingIsLongEnough == SURFACES >= Keep * (MaxPlain + 1) + 2

Slots == 0 .. SURFACES - 1
None == -1

Pictures == {"idr", "reference", "plain"}

VARIABLES
  opened,    (* context # INVALID                                          *)
  done, cursor, dpb,
  picture, target,         (* what is being decoded, and into which slot   *)
  job, last, painting,     (* the slots of the blits: one posted, one the  *)
                           (* canvas has taken, one it is painting         *)
  plain,     (* pictures since the last reference                          *)
  strayed    (* surfaces were destroyed that a blit still names            *)

decoderVars == <<opened, cursor, dpb, picture, target, plain>>
canvasVars == <<job, last, painting>>
vars == <<decoderVars, done, canvasVars, strayed>>

Init ==
  /\ opened = FALSE /\ done = [s \in Slots |-> TRUE] /\ cursor = 0 /\ dpb = <<>>
  /\ picture = "none" /\ target = None
  /\ job = None /\ last = None /\ painting = None
  /\ plain = 0 /\ strayed = FALSE

Held == {job, last, painting} \ {None}

(* Drop of a VaBlit.                                                       *)
Drop(flags, blit) == [s \in Slots |-> flags[s] \/ s = blit]

(* ensure_context, at the first picture and when its size is another one,  *)
(* makes all surfaces anew. destroy_context, also when the decoder itself  *)
(* is dropped, asks nobody.                                                *)
NewContext ==
  /\ picture = "none"
  /\ opened' = TRUE /\ done' = [s \in Slots |-> TRUE] /\ dpb' = <<>>
  /\ strayed' = (Held # {})
  /\ UNCHANGED <<cursor, picture, target, plain, canvasVars>>

(* The decoder goes when the session is unbound, or when a picture fails.  *)
DropDecoder ==
  /\ opened /\ opened' = FALSE
  /\ done' = [s \in Slots |-> TRUE] /\ cursor' = 0 /\ dpb' = <<>>
  /\ picture' = "none" /\ target' = None /\ plain' = 0
  /\ strayed' = (Held # {})
  /\ UNCHANGED canvasVars

(* alloc_surface: the first slot from the cursor on that is done. With     *)
(* none for 200 ms the picture fails (DropDecoder).                        *)
Free == {step \in Slots : done[(cursor + step) % SURFACES]}

(* Mutant: the search begins at the same slot every time.                  *)
AllocFirst(kind) ==
  /\ opened /\ picture = "none" /\ Free # {}
  /\ kind = "plain" => plain < MaxPlain
  /\ target' = CHOOSE s \in Slots : done[s] /\ \A r \in 0 .. s - 1 : ~done[r]
  /\ done' = [done EXCEPT ![target'] = FALSE]
  /\ picture' = kind
  /\ UNCHANGED <<opened, cursor, dpb, plain, canvasVars, strayed>>

Alloc(kind) ==
  /\ opened /\ picture = "none" /\ Free # {}
  /\ kind = "plain" => plain < MaxPlain
  /\ LET step == CHOOSE n \in Free : \A m \in Free : n <= m
         slot == (cursor + step) % SURFACES
     IN /\ target' = slot
        /\ done' = [done EXCEPT ![slot] = FALSE]
        /\ cursor' = (slot + 1) % SURFACES
  /\ picture' = kind
  /\ UNCHANGED <<opened, dpb, plain, canvasVars, strayed>>

(* The rest of feed, and the sync of the surface with what comes out: the  *)
(* references are updated, and the picture is posted with a blit, or, when *)
(* there is no window or no vaPutSurface, as a copy without one.           *)
Refs ==
  LET before == IF picture = "idr" THEN <<>> ELSE dpb
      after == IF picture = "plain" THEN before ELSE Append(before, target)
  IN IF Len(after) > Keep THEN Tail(after) ELSE after

Decode(put) ==
  /\ picture # "none"
  /\ dpb' = Refs
  /\ plain' = IF picture = "plain" THEN plain + 1 ELSE 0
  /\ job' = IF put THEN target ELSE None
  /\ done' = Drop(IF put THEN done ELSE [done EXCEPT ![target] = TRUE], job)
  /\ picture' = "none" /\ target' = None
  /\ UNCHANGED <<opened, cursor, last, painting, strayed>>

(* A layout posts the stage without a blit.                                *)
Layout ==
  /\ picture = "none"
  /\ job # None /\ job' = None
  /\ done' = Drop(done, job)
  /\ UNCHANGED <<decoderVars, last, painting, strayed>>

(* redraw: the canvas takes what is posted; paint: it puts the surface,    *)
(* or, while it is hidden, keeps the blit for later.                       *)
Take ==
  /\ painting = None /\ job # None
  /\ last' = job /\ job' = None
  /\ done' = Drop(done, last)
  /\ UNCHANGED <<decoderVars, painting, strayed>>

Paint ==
  /\ painting = None /\ last # None
  /\ painting' = last /\ last' = None
  /\ UNCHANGED <<decoderVars, done, job, strayed>>

Put ==
  /\ painting # None /\ painting' = None
  /\ done' = Drop(done, painting)
  /\ UNCHANGED <<decoderVars, job, last, strayed>>

Next ==
  \/ NewContext \/ DropDecoder
  \/ \E kind \in Pictures : Alloc(kind)
  \/ \E put \in BOOLEAN : Decode(put)
  \/ Layout \/ Take \/ Paint \/ Put
-----------------------------------------------------------------------------
(* Every variable has its type.                                            *)
TypeOK ==
  /\ opened \in BOOLEAN /\ strayed \in BOOLEAN
  /\ done \in [Slots -> BOOLEAN] /\ cursor \in Slots
  /\ dpb \in Seq(Slots) /\ Len(dpb) <= Keep
  /\ picture \in Pictures \cup {"none"} /\ plain \in 0 .. MaxPlain
  /\ {target, job, last, painting} \subseteq Slots \cup {None}

(* No picture is decoded over one the canvas has yet to put on the screen, *)
(* nor over one that it or a later picture refers to. The second is asked  *)
(* for nowhere in alloc_surface, no flag is down for a reference: it holds *)
(* as the ring is long enough. Not shown when a context has gone under a   *)
(* blit.                                                                   *)
TargetIsFree ==
  target # None /\ ~strayed =>
    /\ target \notin Held
    /\ picture # "idr" => target \notin ToSet(dpb)

(* A slot whose flag is down is being decoded into or comes back when the  *)
(* canvas is done with it: the decoder never runs out of surfaces.         *)
SurfacesComeBack ==
  ~strayed => {s \in Slots : ~done[s]} = (Held \cup {target}) \ {None}

SurfacesAreOwned == TargetIsFree /\ SurfacesComeBack
=============================================================================
