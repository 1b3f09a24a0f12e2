----------------------------- MODULE H264Headers -----------------------------
(***************************************************************************)
(* The headers the hardware decoder on Linux needs (yohu-adbtools          *)
(* mirror_present, linux/h264.rs): a stream is cut into NAL units, the     *)
(* emulation prevention bytes are taken out, and parameter sets and slice  *)
(* headers are read bit by bit, each element where the ones before it end. *)
(* The reference is a writer of the same syntax, from ITU-T H.264. Scaling *)
(* lists, slice groups, weighted prediction, offsets of a picture cycle    *)
(* and memory management commands are left out on both sides.              *)
(***************************************************************************)
EXTENDS Integers, Sequences, SequencesExt

CONSTANTS
  Numbers,   (* numbers that are written, each into all elements of a      *)
             (* header                                                     *)
  MaxBytes   (* bound: bytes of a NAL unit                                 *)

HeadersAssumption == Numbers \subseteq 0 .. 14 /\ MaxBytes \in Nat

VARIABLES
  input,     (* what is read: a header, or a stream of two NAL units       *)
  raw,       (* the bits of the header                                     *)
  read,      (* how many elements of its kind have been gone through       *)
  values,    (* what those of them that are there have said                *)
  at         (* where the next one begins                                  *)

vars == <<input, raw, read, values, at>>
-----------------------------------------------------------------------------
(* Bits: what is behind the end counts as 0. ue is the number of zeros     *)
(* before a 1, and as many bits.                                           *)
BitAt(bit) == IF bit \in DOMAIN raw THEN raw[bit] ELSE 0

u(bit, n) ==
  LET bits == [i \in 1 .. n |-> BitAt(bit + i - 1)]
  IN [value |-> FoldLeft(LAMBDA v, b : 2 * v + b, 0, bits), at |-> bit + n]

Zeros(bit) ==
  CHOOSE z \in 0 .. 31 :
    /\ \A i \in 0 .. z - 1 : BitAt(bit + i) = 0 /\ bit + i <= Len(raw)
    /\ z = 31 \/ BitAt(bit + z) = 1 \/ bit + z > Len(raw)

ue(bit) ==
  LET zeros == Zeros(bit)
      one == IF zeros < 31 /\ bit + zeros <= Len(raw) THEN 1 ELSE 0
      tail == u(bit + zeros + one, zeros)
  IN [value |-> 2 ^ zeros - 1 + tail.value, at |-> tail.at]

se(bit) ==
  LET v == ue(bit)
  IN [v EXCEPT !.value = IF @ % 2 = 0 THEN -(@ \div 2) ELSE @ \div 2 + 1]

(* The writer.                                                             *)
Binary(v, n) == [i \in 1 .. n |-> (v \div 2 ^ (n - i)) % 2]
UeCode(v) ==
  LET n == CHOOSE z \in 0 .. 31 : 2 ^ z <= v + 1 /\ v + 1 < 2 ^ (z + 1)
  IN [i \in 1 .. n |-> 0] \o Binary(v + 1, n + 1)
SeCode(v) == UeCode(IF v > 0 THEN 2 * v - 1 ELSE -2 * v)
-----------------------------------------------------------------------------
(* An element has a name and a code; a header is read, or written, element *)
(* by element, and which come depends on those before.                     *)
El(name, code, width) == [name |-> name, code |-> code, width |-> width]
Ue(name) == El(name, "ue", 0)
Se(name) == El(name, "se", 0)
Flag(name) == El(name, "u", 1)

Read(bit, el) ==
  CASE el.code = "ue" -> ue(bit)
    [] el.code = "se" -> se(bit)
    [] el.code = "u" -> u(bit, el.width)

Code(el, v) ==
  CASE el.code = "ue" -> UeCode(v)
    [] el.code = "se" -> SeCode(v)
    [] el.code = "u" -> Binary(v, el.width)

(* The first eight bits are the NAL header.                                *)
Write(said, elements) ==
  FlattenSeq(<<[i \in 1 .. 8 |-> 0]>> \o
    [i \in DOMAIN elements |->
       IF elements[i].name \in DOMAIN said THEN Code(elements[i], said[elements[i].name])
       ELSE <<>>])

(* rbsp_trailing_bits: a 1, and zeros up to the byte.                      *)
Trailed(bits) == bits \o <<1>> \o [i \in 1 .. 7 - (Len(bits) % 8) |-> 0]
-----------------------------------------------------------------------------
(* parse_sps.                                                              *)
SpsElements ==
  <<El("profile", "u", 8), El("constraints", "u", 8), El("level", "u", 8), Ue("sps_id"),
    Ue("chroma"), Flag("separate"), Ue("luma_depth"), Ue("chroma_depth"), Flag("bypass"),
    Flag("scaling"), Ue("log2_frame_num"), Ue("poc_type"), Ue("log2_poc_lsb"),
    Flag("delta_zero"), Se("offset_0"), Se("offset_1"), Ue("cycle"),
    Ue("ref_frames"), Flag("gaps"), Ue("width"), Ue("height"), Flag("frames_only"),
    Flag("mbaff"), Flag("direct_8x8"), Flag("crop"), Ue("left"), Ue("right"), Ue("top"),
    Ue("bottom")>>

high_profile(profile) ==
  profile \in {100, 110, 122, 244, 44, 83, 86, 118, 128, 138, 139, 134, 135}

SpsWants(name, v) ==
  CASE name \in {"chroma", "luma_depth", "chroma_depth", "bypass", "scaling"} ->
         high_profile(v.profile)
    [] name = "separate" -> high_profile(v.profile) /\ v.chroma = 3
    [] name = "log2_poc_lsb" -> v.poc_type = 0
    [] name \in {"delta_zero", "offset_0", "offset_1", "cycle"} -> v.poc_type = 1
    [] name = "mbaff" -> v.frames_only = 0
    [] name \in {"left", "right", "top", "bottom"} -> v.crop = 1
    [] OTHER -> TRUE

(* parse_pps. What is left behind redundant is taken for the extension of  *)
(* the High profiles, unless it is a single bit.                           *)
PpsElements ==
  <<Ue("pps_id"), Ue("sps_id"), Flag("cabac"), Flag("bottom"), Ue("groups"), Ue("l0"), Ue("l1"),
    Flag("weighted"), El("bipred", "u", 2), Se("qp"), Se("qs"), Se("chroma_qp"),
    Flag("deblocking"), Flag("constrained"), Flag("redundant"),
    Flag("transform_8x8"), Flag("scaling"), Se("second_qp")>>

PpsWants(name, v, bit) ==
  CASE name \in {"transform_8x8", "second_qp"} -> bit < Len(raw)
    [] name = "scaling" -> "transform_8x8" \in DOMAIN v
    [] OTHER -> TRUE

(* parse_slice. `nal` has what the NAL header, the SPS and the PPS say.    *)
slice_is_b(v) == v.slice_type % 5 = 1
slice_is_p(v) == v.slice_type % 5 = 0
slice_is_i(v) == v.slice_type % 5 \in {2, 4}

SliceElements ==
  <<Ue("first_mb"), Ue("slice_type"), Ue("pps_id"), El("frame_num", "u", 4), Flag("field"),
    Flag("bottom_field"), Ue("idr_pic_id"), El("poc_lsb", "u", 4), Se("delta_poc_bottom"),
    Se("delta_poc_0"), Se("delta_poc_1"), Ue("redundant_pic_cnt"), Flag("direct_spatial"),
    Flag("override"), Ue("l0"), Ue("l1"), Flag("no_output"), Flag("long_term"),
    Flag("adaptive"), Ue("cabac_init"), Se("qp_delta"), Ue("deblocking"), Se("alpha"),
    Se("beta")>>

SliceWants(nal, name, v) ==
  CASE name = "field" -> nal.interlaced
    [] name = "bottom_field" -> nal.interlaced /\ v.field = 1
    [] name = "idr_pic_id" -> nal.idr
    [] name = "poc_lsb" -> nal.poc_type = 0
    [] name = "delta_poc_bottom" ->
         nal.poc_type = 0 /\ nal.bottom /\ ~(nal.interlaced /\ v.field = 1)
    [] name = "delta_poc_0" -> nal.poc_type = 1 /\ ~nal.delta_zero
    [] name = "delta_poc_1" ->
         /\ nal.poc_type = 1 /\ ~nal.delta_zero
         /\ nal.bottom /\ ~(nal.interlaced /\ v.field = 1)
    [] name = "redundant_pic_cnt" -> nal.redundant
    [] name = "direct_spatial" -> slice_is_b(v)
    [] name = "override" -> slice_is_p(v) \/ slice_is_b(v)
    [] name = "l0" -> ~slice_is_i(v) /\ v.override = 1
    [] name = "l1" -> slice_is_b(v) /\ v.override = 1
    [] name \in {"no_output", "long_term"} -> nal.ref /\ nal.idr
    [] name = "adaptive" -> nal.ref /\ ~nal.idr
    [] name = "cabac_init" -> nal.cabac /\ ~slice_is_i(v)
    [] name = "deblocking" -> nal.deblocking
    [] name \in {"alpha", "beta"} -> nal.deblocking /\ v.deblocking # 1
    [] OTHER -> TRUE

(* Which element is there depends on those read before it, and on where it *)
(* would be.                                                               *)
Elements ==
  CASE input.kind = "sps" -> SpsElements
    [] input.kind = "pps" -> PpsElements
    [] input.kind = "slice" -> SliceElements
    [] OTHER -> <<>>

Wants(name, v, bit) ==
  CASE input.kind = "sps" -> SpsWants(name, v)
    [] input.kind = "pps" -> PpsWants(name, v, bit)
    [] input.kind = "slice" -> SliceWants(input.nal, name, v)

Set(said, name, v) == [n \in DOMAIN said \cup {name} |-> IF n = name THEN v ELSE said[n]]

(* parse_sps, parse_pps, parse_slice: the elements one after the other, a  *)
(* few in a step.                                                          *)
Few == 6

Parse ==
  /\ read < Len(Elements)
  /\ LET last == IF read + Few < Len(Elements) THEN read + Few ELSE Len(Elements)
         Step(before, el) ==
           IF ~Wants(el.name, before.values, before.at) THEN before
           ELSE LET r == Read(before.at, el)
                IN [values |-> Set(before.values, el.name, r.value), at |-> r.at]
         after == FoldLeft(Step, [values |-> values, at |-> at],
                           SubSeq(Elements, read + 1, last))
     IN read' = last /\ values' = after.values /\ at' = after.at
  /\ UNCHANGED <<input, raw>>
-----------------------------------------------------------------------------
(* rbsp: a 3 behind two zeros is taken out.                                *)
rbsp(nal) ==
  LET Step(state, b) ==
        IF state.zeros >= 2 /\ b = 3 THEN [state EXCEPT !.zeros = 0]
        ELSE [out |-> Append(state.out, b), zeros |-> IF b = 0 THEN state.zeros + 1 ELSE 0]
  IN FoldLeft(Step, [out |-> <<>>, zeros |-> 0], nal).out

(* annexb_nals: the start codes are found from left to right, the longer   *)
(* one first; a NAL unit ends where the next start code begins.            *)
ShortCode == <<0, 0, 1>>
LongCode == <<0, 0, 0, 1>>
At(data, code, i) == i + Len(code) - 1 <= Len(data) /\ SubSeq(data, i, i + Len(code) - 1) = code

Starts(data) ==
  LET Step(state, i) ==
        IF i < state.next THEN state
        ELSE IF At(data, LongCode, i)
        THEN [next |-> i + 4, starts |-> Append(state.starts, i + 4)]
        ELSE IF At(data, ShortCode, i)
        THEN [next |-> i + 3, starts |-> Append(state.starts, i + 3)]
        ELSE [state EXCEPT !.next = i + 1]
  IN FoldLeft(Step, [next |-> 1, starts |-> <<>>], [i \in 1 .. Len(data) - 2 |-> i]).starts

(* Mutant: only the shorter start code is taken off the end.               *)
EndBeforeShort(data, next) == next - 4

EndBefore(data, next) ==
  IF next > 4 /\ At(data, LongCode, next - 4) THEN next - 5 ELSE next - 4

annexb_nals(data) ==
  LET starts == Starts(data)
      Unit(i) == SubSeq(data, starts[i],
                        IF i = Len(starts) THEN Len(data) ELSE EndBefore(data, starts[i + 1]))
  IN SelectSeq([i \in DOMAIN starts |-> Unit(i)], LAMBDA nal : nal # <<>>)
-----------------------------------------------------------------------------
(* What is written: headers as ITU-T H.264 7.3 has them, all numbers and   *)
(* flags from one number n; which elements there are, the case says.       *)
Given(n, el) ==
  CASE el.code = "ue" -> n
    [] el.code = "se" -> n - 2
    [] el.code = "u" -> n % 2 ^ el.width

Values(elements, n, names, fixed) ==
  LET Place(name) == CHOOSE i \in DOMAIN elements : elements[i].name = name
  IN [name \in names |-> IF name \in DOMAIN fixed THEN fixed[name]
                         ELSE Given(n, elements[Place(name)])]

If(condition, names) == IF condition THEN names ELSE {}

SpsHeaders ==
  {[kind |-> "sps",
    values |->
      Values(SpsElements, n,
             {"profile", "constraints", "level", "sps_id", "log2_frame_num", "poc_type",
              "ref_frames", "gaps", "width", "height", "frames_only", "direct_8x8", "crop"}
             \cup If(c.high, {"chroma", "luma_depth", "chroma_depth", "bypass", "scaling"})
             \cup If(c.high /\ c.chroma = 3, {"separate"})
             \cup If(c.poc_type = 0, {"log2_poc_lsb"})
             \cup If(c.poc_type = 1, {"delta_zero", "offset_0", "offset_1", "cycle"})
             \cup If(c.frames_only = 0, {"mbaff"})
             \cup If(c.crop = 1, {"left", "right", "top", "bottom"}),
             [profile |-> IF c.high THEN 100 ELSE 66, chroma |-> c.chroma, scaling |-> 0,
              poc_type |-> c.poc_type, cycle |-> 0, frames_only |-> c.frames_only,
              crop |-> c.crop])] :
    n \in Numbers,
    c \in [high : BOOLEAN, chroma : 0 .. 3, poc_type : 0 .. 2, frames_only : 0 .. 1,
           crop : 0 .. 1]}

PpsHeaders ==
  {[kind |-> "pps", extended |-> extended,
    values |->
      Values(PpsElements, n,
             {"pps_id", "sps_id", "cabac", "bottom", "groups", "l0", "l1", "weighted", "bipred",
              "qp", "qs", "chroma_qp", "deblocking", "constrained", "redundant"}
             \cup If(extended, {"transform_8x8", "scaling", "second_qp"}),
             [groups |-> 0, scaling |-> 0, l0 |-> l0])] :
    n \in Numbers, l0 \in 0 .. 14, extended \in BOOLEAN}

(* A slice that is predicted says whether its lists of references are      *)
(* modified, behind the length of the lists; here they are not.            *)
SliceSyntax ==
  SubSeq(SliceElements, 1, 16) \o <<Flag("modify_l0"), Flag("modify_l1")>>
    \o SubSeq(SliceElements, 17, Len(SliceElements))

Cases ==
  [idr : BOOLEAN, ref : BOOLEAN, poc_type : 0 .. 2, bottom : BOOLEAN, delta_zero : BOOLEAN,
   redundant : BOOLEAN, interlaced : BOOLEAN, cabac : BOOLEAN, deblocking : BOOLEAN]

SliceHeaders ==
  {[kind |-> "slice", nal |-> c,
    values |->
      Values(SliceSyntax, n,
             {"first_mb", "slice_type", "pps_id", "frame_num", "qp_delta"}
             \cup If(c.interlaced, {"field"})
             \cup If(c.interlaced /\ n % 2 = 1, {"bottom_field"})
             \cup If(c.idr, {"idr_pic_id"})
             \cup If(c.poc_type = 0, {"poc_lsb"})
             \cup If(c.bottom /\ ~(c.interlaced /\ n % 2 = 1),
                     If(c.poc_type = 0, {"delta_poc_bottom"})
                     \cup If(c.poc_type = 1 /\ ~c.delta_zero, {"delta_poc_1"}))
             \cup If(c.poc_type = 1 /\ ~c.delta_zero, {"delta_poc_0"})
             \cup If(c.redundant, {"redundant_pic_cnt"})
             \cup If(type = 6, {"direct_spatial", "modify_l1"})
             \cup If(type \in {5, 6}, {"override", "modify_l0"})
             \cup If(type \in {5, 6} /\ n % 2 = 1, {"l0"})
             \cup If(type = 6 /\ n % 2 = 1, {"l1"})
             \cup If(c.ref, IF c.idr THEN {"no_output", "long_term"} ELSE {"adaptive"})
             \cup If(c.cabac /\ type # 7, {"cabac_init"})
             \cup If(c.deblocking, {"deblocking"})
             \cup If(c.deblocking /\ n # 1, {"alpha", "beta"}),
             [slice_type |-> type, adaptive |-> 0, modify_l0 |-> 0, modify_l1 |-> 0])] :
    n \in Numbers, type \in 5 .. 7, c \in {d \in Cases : d.idr => d.ref}}

(* The contents of two NAL units, neither of which ends in a zero.         *)
Bytes == {0, 1, 3, 9}
Contents(max) == UNION {{c \in [1 .. len -> Bytes] : c[len] # 0} : len \in 1 .. max}

Streams == [kind : {"stream"}, first : Contents(MaxBytes), second : Contents(1),
            codes : {ShortCode, LongCode} \X {ShortCode, LongCode}]

(* A 3 is put before a byte up to 3 behind two zeros.                      *)
Escaped(content) ==
  LET Step(out, b) ==
        IF Len(out) >= 2 /\ SubSeq(out, Len(out) - 1, Len(out)) = <<0, 0>> /\ b <= 3
        THEN out \o <<3, b>> ELSE Append(out, b)
  IN FoldLeft(Step, <<>>, content)

Written(header) ==
  CASE header.kind = "sps" -> Trailed(Write(header.values, SpsElements))
    [] header.kind = "pps" -> Trailed(Write(header.values, PpsElements))
    [] header.kind = "slice" -> Write(header.values, SliceSyntax)
    [] OTHER -> <<>>

Init ==
  /\ input \in SpsHeaders \cup PpsHeaders \cup SliceHeaders \cup Streams
  /\ raw = Written(input)
  /\ read = 0 /\ values = <<>> /\ at = 9

Next == Parse
-----------------------------------------------------------------------------
(* A SPS is read as it was written.                                        *)
AllRead(kind) == input.kind = kind /\ read = Len(Elements)

SpsIsRead == AllRead("sps") => values = input.values

(* So is a PPS with the extension of the High profiles; one without it is  *)
(* if its stop bit is the last of its byte. Otherwise that bit is taken    *)
(* for transform_8x8_mode_flag (h264.rs:321).                              *)
PpsIsRead ==
  AllRead("pps") /\ (input.extended \/ raw[Len(raw)] = 1) => values = input.values

(* A slice header is read as it was written up to the flags of the list    *)
(* modification, which parse_slice does not know of; one that has none, of *)
(* an I slice, to its end, and header_bits is where the data begins.       *)
SliceIsRead ==
  AllRead("slice") =>
    LET Known == {SliceElements[i].name : i \in 1 .. 16}
    IN /\ \A name \in Known :
            /\ name \in DOMAIN values <=> name \in DOMAIN input.values
            /\ name \in DOMAIN values => values[name] = input.values[name]
       /\ input.values.slice_type = 7 => values = input.values /\ at = Len(raw) + 1

(* NAL units are cut out and unescaped as they were put together.          *)
StreamIsCut ==
  input.kind = "stream" =>
    LET first == Escaped(input.first)
        second == Escaped(input.second)
    IN /\ annexb_nals(input.codes[1] \o first \o input.codes[2] \o second) = <<first, second>>
       /\ rbsp(first) = input.first

HeadersAreRead == SpsIsRead /\ PpsIsRead /\ SliceIsRead /\ StreamIsCut
=============================================================================
