# A verification project for oxideav-vaapi

`oxideav-vaapi` decodes video on VA-API hardware: it loads libva at run time,
opens a DRM render node, creates the driver's objects for a stream, translates
parsed headers into libva's parameter buffers, and keeps track of which surface
holds which picture.  The C library and the driver are foreign; what the crate
has to get right is the *order* of its calls, what it does when one of them
fails, and *who still needs a surface*.  That is what the modules here model.

Paths below are relative to the repository: `src/vp9.rs` is the file whose lines
`PROJECT.json` names as `src/src/vp9.rs`.

## 1. The system

| Component | State | Operations | Talks to |
|---|---|---|---|
| Library loader, `host.rs`, `sys.rs` | two `OnceLock`s: `HOST` and `VTABLE` | `install`, `vtable`, `native` | host's `resolve`/`enter`/`exit`, or `dlopen` |
| Display, `display.rs` | descriptor, `VADisplay` | `open_drm`, queries, drop | loader, driver |
| Device walk, `engine.rs` | none of its own, a `Display` per node | `engine_info`, `device_path_for_index` | display |
| Capability queries, `engine.rs`, `profiles.rs`, `session.rs::check_decode` | none | pure queries | display |
| Decode session, `session.rs` | display, config, surfaces, context, `in_use`, `derive_works` | `new`, `submit`, `sync`, `read`, `acquire`, `release`, `into_display`, drop | driver |
| VP9, `vp9.rs` | session or display, `users`, `refs`, `returned` | `prepare`, `decode`, `read` | session, parser |
| AV1, `av1.rs` | the same, and `shown` beside `refs`, `sequence`, header state | `prepare`, `decode`, `read` | session, parser |
| H.264, `h264.rs` | session or display, parser, DPB, `slots`, `pending`, `out`, `returned_only` | `prepare`, `decode`, `flush`, `read` | session, parser, DPB |
| HEVC, `hevc.rs` | the same, and `seen_picture`, `skip_rasl` | `prepare`, `decode`, `flush`, `read` | session, parser, DPB |
| Registry decoder, `decoder.rs`, `config.rs`, `context.rs` | leaked display, inner decoder, last SPS and PPS, one pending frame | `send_packet`, `receive_frame`, drop | device walk, driver |
| Registration, `lib.rs`; tables, `profiles.rs` | none | `register`, `host_supports_codec_decode` | registry of the framework, display |
| Parameter translation | none | `picture_parameters`, `slice_parameters`, ... | - |

Every decoder is used through `&mut self`, so the calls into one decoder never
overlap.  The concurrency is in the loader, whose two `OnceLock`s any thread may
reach, and between the process and its host, whose devices come and go;
everywhere else the difficulty is a long sequence of legal calls, any of which
may fail at any of its steps: the driver refuses a call, the stream stops in the
middle of a picture, the caller prepares another sequence, a frame of a
superframe is broken, a picture is shown twice or not at all.

### What makes each part correct, and where it is hard

* **Surface pool** (all four decoders).  A session has a fixed number of
  surfaces; `acquire` takes the lowest free one.  A surface must not be decoded
  into while a reference slot, a DPB entry, or a picture handed to the caller
  needs it, must go back when the last of them lets go, and the number a
  session is created with must be enough for every legal stream.  VP9 and AV1
  count users by hand (`retain`, `unuse`); H.264 and HEVC keep a map from DPB
  keys.  The bookkeeping has to survive every early return (`?`).
* **Session restarts.**  A new size or format destroys the session, and with it
  every surface number in the decoder's fields.  The `Display` moves through
  session and decoder and must never be lost.
* **Driver objects.**  Everything created is destroyed once, what stands on
  another object before that object, on every path; a begun picture is ended
  before its buffers go.
* **Pictures in progress** (H.264, HEVC).  A picture is decoded when the *next*
  unit arrives, by which time the parser may have new parameter sets, a
  `prepare()` may have come between, or the caller may have flushed.
* **Returned pictures.**  Valid until the next call, in the words of the docs.
* **Read-back.**  Rows are copied at pitches and offsets the driver chose; the
  checks look at the last row only, and must cover every row.
* **Devices.**  An index means a place in a list that one walk made and another
  walk looks up, each opening and closing every node; every descriptor must be
  closed and every initialised display terminated on all their paths.
* **Capabilities.**  Four functions ask the driver the same questions in
  different ways, and must not contradict each other.
* **Loader.**  Loaded once; a host that was told its loader is in force must
  never find libva loaded from elsewhere; every native call bracketed.

`PROJECT.json` lists the hazards with their lines.

## 2. Modules

`SurfacePool` is the abstract specification: holders hold surfaces; a picture is
only ever written into surfaces nobody holds; a holder takes a surface only from
another holder or from the picture just written.  It has no session, no counts
and no failures.  The four decoders implement it, each with a refinement mapping
of its own (`hold` and `writing` at the end of the module): for VP9 the holders
are the reference slots, the picture about to be returned and the one returned;
for AV1 each slot holds two surfaces; for H.264 and HEVC the holders are the
DPB's entries and the lists of pictures completed and returned.

| Module | Models | A step is |
|---|---|---|
| `Vp9Decoder` | `src/vp9.rs` | a stretch of `decode_frame` between two decisions, or one round of the refresh loop |
| `Av1Decoder` | `src/av1.rs` | an OBU, a stretch of `decode_frame`, one round of a loop over the reference slots |
| `H264Decoder` | `src/h264.rs` | a NAL unit's effect: end of the picture in progress, begin of the next, parameter set |
| `HevcDecoder` | `src/hevc.rs` | the same |
| `DecodeSession` | `src/session.rs` | one call into the driver |
| `RegistryDecoder` | `src/decoder.rs`, with `Config` and `Context` | one call into the driver |
| `Devices` | `src/display.rs` (`open_drm`, drop), `src/engine.rs` (both walks), `src/lib.rs` (`register`), `new_with_device_index` of `src/decoder.rs` | one call into the C library or the driver, or a change of the host |
| `Capabilities` | `entrypoint_matrix` of `src/display.rs`, `collect_codecs` and `max_dims_across` of `src/engine.rs`, `host_supports_codec_decode` of `src/profiles.rs`, `check_decode` of `src/session.rs` | one row of the matrix, or a whole query |
| `ReadBack` | the copies of `src/session.rs` and `src/decoder.rs` | - (operators only) |
| `Loader` | `src/host.rs`, `src/sys.rs` | one access to a `OnceLock`, per thread |

`M_proofs` holds the theorems about `M` (`DecodeSession_proofs` also those about
`ReadBack`, `Devices_proofs` those about `Capabilities`), `MCm` the instance of it for TLC.

Actions are named for the functions, variables for the fields.  `pc` says where
the running call is, `"idle"` that none is; `result` is what the last call came
to.  An action whose name ends in what a bug would do (`SubmitFailsLeaks`) is
preceded by *Mutant of* and is not part of any next-state relation: it is a
variant that the property it is listed with must, and does, tell from the code.

How the code is abstracted:

* *The driver* answers every call with success or failure, nondeterministically.
  In `Capabilities` its answers are fixed at the start, chosen from all there
  are: the code relies on a driver that does not change its mind.
* *The host* in `Devices` has, for each node, how far opening it gets (no such
  path, no permission, no display, no driver, a driver that cannot be queried,
  one without H.264, one with); any node may change between any two calls.
* *The stream* is nondeterministic: what a header says (shown or not, which
  slots it refreshes, how many tiles, which sequence) is chosen when it is
  parsed.  A header that does not parse, or asks what the bridge does not do, is
  `RejectFrame`, `RejectObu`, `RejectUnit`, `RejectPicture`.
* *The DPB* of H.264 and HEVC belongs to `oxideav-bitstream`.  It is the set of
  its entries; what marking or a reference picture set drops is any set that
  leaves room according to the sequence parameter set.  These operators are
  marked external in the map.  The HEVC DPB is taken to be as it was when its
  `begin_picture()` is an error (`DpbRefuses`).
* *Requirements* (profile, format, size) are model values: all the code does
  with them is compare.  In `Capabilities`, where sizes matter, one dimension
  stands for width and height, which the code treats alike.
* `acquire` takes the lowest free slot, as the session's does.
* Samples and the fields of parameter buffers are left out;
  `tests/va_buffers.rs` compares those with recorded buffers byte by byte.

## 3. Runs

Bounds are named in the modules (`MaxFrames`, `MaxObus`, `MaxTiles`, `MaxUnits`,
`MaxBuffers`, `MaxPackets`, `MaxNals`, `MaxChanges`, `MaxDecoders`, `MaxSize`)
and, but for `MaxPackets` and `MaxChanges`, limit one call or one object, not
the number of calls: the state spaces are those of an unbounded sequence of
calls.

| Run | Instance | Shows |
|---|---|---|
| `vp9` | 5 surfaces, 3 reference slots, 2 formats, 2 frames a sample | counts exact at every step, pool exact, no starvation, refinement |
| `session` | 3 buffers a picture | nothing leaks, teardown nested, pictures ended before their buffers go, calls return |
| `av1` | 2 reference slots, with and without grain, 3 OBUs, 2 tiles | counts, pool exact, tiles once and in order, no starvation, refinement |
| `h264` | sequences with 2 and 3 references, 2 units a call | pool and slot map exact, no starvation, returned pictures keep their surfaces, refinement |
| `h264_prepare` | 2 parameter sets | **violated**: refused `prepare()` inside a picture |
| `hevc` | DPBs of 1 and 2 pictures, 2 requirements, 2 units a call | as `h264`, and pictures decoded under the set they were parsed with |
| `hevc_flush` | a DPB of one | **violated**: `flush()` forgets a returned surface |
| `registry` | 2 sizes, 3 packets of 3 NAL units | driver objects owned at every step, buffers destroyed but for those a failed creation forgets |
| `loader` | 3 threads | loaded once, brackets match, `install()`'s answer holds, no thread waits for ever |
| `devices` | 2 nodes of 7 levels, 2 decoders, 1 change of the host | descriptors and displays owned, an index names what was listed under it, device 0 is the one registration asked |
| `devices_mute` | 2 nodes, no change | **violated**: a node that cannot be queried shifts the indices |
| `capabilities` | a codec of 2 profiles, 2 entrypoints, sizes up to 2, every driver | what `check_decode()` accepts is reported, but for devices left out because another profile cannot be asked; pre-flight agrees with the report; maxima exact |

Each violated run checks one sentence of the repository's own docs or code; the
quote and the line are under `findings`.

Why the bounds are enough.  A slot is let go, kept or replaced independently of
the others, so two or three reference slots show every relation of old and new
holder (the same surface in several slots, in one, in none), and the number of
surfaces keeps the code's surplus over them (eight slots and ten surfaces become
three and five).  Two frames to a sample are a shown one and one before or
after it.  A film-grain instance of AV1 has two surfaces to a slot, the other
none.  Three OBUs are a header and two tile groups, or a sequence change around
a frame.  Two units to a call are a picture and the unit that ends it; the DPB
sizes are the smallest that tell a full DPB from an empty one, and one of one
picture, where the code is different (`finished.stored`).  Two sizes and two
parameter sets are what a change needs.  Three threads are an installer, a
loading thread and a waiting one.  Two nodes give an index that is not a node's
number as soon as the first one fails; one change of the host puts the change
between a listing and the look-up, a look-up and the second open, or two steps
of a walk; two decoders are one that lives while another is made or dropped.
Two profiles are a headline and one that stands behind it; sizes up to 2 are
none, zero, and two that differ.

**Assumptions of the passing runs.**  `Conforming` (VP9, AV1): the shown frame
comes last in its sample; for AV1 further that a unit does not fail after a
shown frame and has its sequence header first.  `Paced` (H.264): a call that
has completed a picture finishes no other and does not fail; it may still begin
a picture of another session.  `Paced` (HEVC): the same, and a `flush()` does not
finish a picture while the last one returned is one the DPB does not hold.
`Exclusive` (loader): no `install()` overlaps a first use.  `IndexNamesListed`
assumes of the host, for what was listed, that no driver initialises and then
cannot be queried.  These are the assumptions under which the docs' sentences
are true; the next section says what happens without them.  A hazard that such
an assumption keeps out of a run has no property in `PROJECT.json`, or the one
of the run that refutes it.

### Where the code and its docs part

Three sentences have a run that refutes them (above):

* `h264_prepare`: `prepare()` drops the session while a picture is in progress,
  and when the driver refuses the new one, the next call reaches
  `expect("session ensured")` (`src/h264.rs:412`) without a session.
* `hevc_flush`: `returned_only` (`src/hevc.rs:88`) remembers one slot; a `flush()`
  after a `decode()` that returned a picture the DPB does not hold overwrites it
  (`src/hevc.rs:569`), and the surface stays taken.
* `devices_mute`: `device_path_for_index()` counts every node that `open_drm()`
  initialises (`src/engine.rs:122`), `engine_info()` only those it can query
  (`src/engine.rs:173`), against "mirrors exactly" at `src/engine.rs:92`.

Modelling met some more; each can be seen by changing a constant of a passing
run, or in the lines named:

* `src/vp9.rs:157`, `Conforming = FALSE` in `MCVp9.cfg`: `decode()` leaves its
  loop through `?` with a frame shown, whose user is never given back; TLC
  refutes `UsersExact`, and after a few such samples `NeverStarved`.
* `src/vp9.rs:160`, the same constant: after a restart inside a sample the shown
  surface of the old session is unused in the new session's table; TLC refutes
  `RefsHeld`.
* `src/av1.rs:346` and `:353`, `Conforming = FALSE` in `MCAv1.cfg`: the same as
  the first, against the comment at `src/av1.rs:108`.
* `src/h264.rs:224`, `Paced = FALSE` in `MCH264.cfg`: pictures of a call that
  failed stay in `out` and are returned by a later one, which releases surfaces
  first; TLC refutes `PoolSpec`, against `src/h264.rs:66`.
* `src/h264.rs:257`, also with `Paced`: `decode()` of a first slice of an IDR
  picture of another size finishes the picture before it and then replaces the
  session; the picture it returns has no surface any more, against
  `src/h264.rs:66`.  `ReturnedKept` says exactly this: a returned picture keeps
  its surface, or the picture in progress is the IDR that replaced everything.
  (HEVC makes its session when the new picture is finished, which `Paced` puts
  into a later call.)
* `src/hevc.rs:416`, `Paced = FALSE` and `MaxUnits = 4` in `MCHevc.cfg`: of two
  pictures one call completes, the first may have left the DPB and lie on the
  surface of the second; TLC refutes `PoolSpec`, against `src/hevc.rs:41`.
* `src/host.rs:82`, `Exclusive = FALSE` in `MCLoader.cfg`: `install()` does not
  see a load in progress, answers true, and libva comes from the system; TLC
  refutes `InstallTruthful`.
* `src/hevc.rs:232`: `decode()` clears `out` first, so what a failed call had
  completed is lost, against `src/hevc.rs:225`.
* `src/h264.rs:200`, `src/hevc.rs:213`: `prepare()` takes the parameter set with
  the highest id, against "seen last" at `src/h264.rs:197`, `src/hevc.rs:209`.
* `src/session.rs:574`: a read-back answers `Unsupported`, whose doc says that
  nothing was submitted (`src/session.rs:32`).
* `src/session.rs:657` and `src/engine.rs:254`: a maximum of 0 refuses every size
  in the one and is no maximum in the other.
* `src/display.rs:372`: one profile whose entrypoints cannot be asked makes the
  whole matrix an error; `engine_info()` then leaves the device out
  (`src/engine.rs:171`) and the pre-flight says no (`src/profiles.rs:211`), while
  `check_decode()`, which asks for one profile (`src/session.rs:637`), accepts
  the others.  `AcceptedIsReported` says that this is the one way they differ.
* `src/session.rs:598`: a `vaMapBuffer` that succeeds without an address is an
  error that leaves the buffer mapped; the mapping ends with the image, which is
  destroyed next.  `NothingLeaks` says that no other mapping is left to it.
* `src/decoder.rs:232`: the `?` of a second or later buffer forgets those before
  it, against `src/decoder.rs:218`; `RegistryDecoder` counts them (`forgotten`),
  and `ObjectsOwned` says that they are the only objects without an owner.
* `src/decoder.rs:1038`: the inner decoder is built once, so a later SPS of
  another size is decoded into the surface of the first (`src/decoder.rs:76`).
* `src/decoder.rs:1072`: one frame waits to be received; a second picture of the
  same packet takes its place.

**Deadlock** is checked in every run but those of `DecodeSession` and
`RegistryDecoder`, where the object is gone after its drop (and where the
registry's packets are bounded).

**Fairness.**  `DecodeSession`: `WF_vars(Proceed)`, a call whose driver calls
return goes on; a caller need not make another.  `Loader`: weak fairness of each
thread inside a call, which the operating system's scheduler gives.  The others
state safety only: their calls are loops over the units, nodes or profiles they
were given, each of which takes one off.

## 4. Proofs

Checked by TLAPS for all values of the constants that satisfy the modules'
assumptions: any number of surfaces, slots, frames, units, buffers, packets,
nodes, threads.  The assumptions on constants are the `ASSUME`s of the modules;
`Conforming`, `Paced` and `Exclusive` are named in the theorems that need them.

`Vp9Decoder_proofs`.  The inductive invariant is built in three layers:

* `Typed`: `TypeOK`, what the locals `shown`, `target` and `hdr` are at each
  `pc`, and `DisplayHeldOnce`.  It is inductive without any assumption.
* `Counted`: adds that the shown frame is the last of its sample, that a
  freshly acquired target has no user, `UsersExact` and `PoolExact`.  Inductive
  under `Conforming`.  Its heart is a lemma on cardinalities: replacing the
  surface of one reference slot adds one use to the new surface and takes one
  from the old, also when they are the same.
* `Fed`: adds `NeverStarved`, if there is at least one surface more than
  reference slots: at an acquisition nothing but the slots holds a surface, so
  by counting one is free.

Theorems: `TypeCorrect`, `DisplayKept` (that the display is with the decoder or
with its session, also after a refused one; no assumption), `CountsExact`,
`NothingLeaks`, `RefsStayHeld` (under `Conforming`), `EnoughSurfaces` (and the
surplus), and `ImplementsPool`: the refinement of `SurfacePool`, step by step,
from `Counted`.  TLC shows that `Conforming` cannot be dropped (section 3).

`H264Decoder_proofs`.  `IInv` is `TypeOK`, what the locals are at each `pc`
(`Locals`), `Room` (the DPB leaves a key for the next picture), and `Taken`: the
slot map's domain is the DPB, no two of its entries share a surface, and the
pool is the disjoint union of the stores, the surfaces returned only, and the
target.  It is inductive without assumption: failures, `prepare()` in the middle
of a picture and several pictures to a call included.  From it `TypeCorrect` and
`NothingTwice` (`PoolExact`).  Under `Paced`, `Fed` adds who may be waiting at
each `pc` (`Waiting`) and that the DPB stays within what the session was made
for (`Bounded`); counting then leaves a surface at every acquisition:
`EnoughSurfaces`.  `ImplementsPool` maps each step to a step of `SurfacePool`
from `Fed`, and from `Quiet`: while a call runs the caller has nothing.  A
picture whose session is gone keeps its place in `out` or `given` as `None`, and
holds nothing.  What may become so is in `ReturnedStay` (`ReturnedKept`), by
`AllKept`: a picture waiting to be returned has its surface, or the picture in
progress replaced the session (`Replaced`).

`HevcDecoder_proofs`.  `Typed` is `TypeOK`, `Locals`, `Room` and `AsParsed`: the
parameter set of the picture in progress is still the one under its id, because
whatever could replace it ends the picture first.  Inductive without assumption;
from it `TypeCorrect` and `ParsedKept` (`DecodedAsParsed`).  `Counted` adds
`Taken` as above, that at most one picture is out of the DPB and waiting or
returned (`Alone`), and that the session is large enough for the sequence in
force (`Large`, a session may be larger); it needs `Paced`, and gives
`NothingTwice`, `EnoughSurfaces`, `ReturnedStay` and `ImplementsPool`.
`hevc_flush` is what happens to them without.

`Av1Decoder_proofs`.  Two layers:

* `Typed`: `TypeOK`, `Locals`, that a slot has both its surfaces or neither
  (`Whole`), that a frame collects its tiles from the first on (`Tiled`: joining
  what is there and the next group gives the run from the first tile to the
  group's last), and that the session is the one the last sequence asked for
  (`Agreed`).  Inductive for every stream; from it `TypeCorrect` and
  `TilesInOrder`, which need no assumption.
* `Counted`: adds `UsersExact`, `PoolExact`, `NeverStarved`, and what they rest
  on: a frame that is to be returned is not followed by an incomplete one
  (`Complete`), grain is applied in sessions made for it (`GrainServed`), without
  it the slots' two surfaces are one (`Plain`), nothing uses a frame's surfaces
  before it is stored (`FreshTarget`).  Inductive under `Conforming`.  Counts,
  pool and sufficiency are one induction: a call that ran out of surfaces would
  fail, drop the frame it was to show, and leave that frame's count too high.
  The step that needs counting is the acquisition: the slots hold at most two
  surfaces each with grain and one without, the frame to show at most one more,
  so a session of `2 * REFS + 3` or `REFS + 2` has the two, or the one, wanted.

Theorems under `Conforming`: `CountsExact`, `NothingLeaks`, `EnoughSurfaces`, and
`ImplementsPool`, with both surfaces of the frame in progress being written.

`DecodeSession_proofs`.  `IInv` says for every step of every call which objects
the driver has (`Making`, `Working`), that the fields name the lasting ones
(`Recorded`), and that the buffers are those `submit()` still counts
(`Counted`).  Theorems `TypeCorrect`, `NeverLeaks`, `InsideOut`, `EndsFirst`, for
submissions of any number of buffers, whichever calls fail.

`RegistryDecoder_proofs`.  The same kind of invariant for `send_packet()`, the
construction of the inner decoder and the drop.  Theorems `TypeCorrect` and
`NothingElseLeft`: `ObjectsOwned`, which gives every object at every step to the
inner decoder, to its construction or teardown, or to the step of a picture.

`Devices_proofs`.  `IInv` adds to `TypeOK` and `DisplaysOwned` which step has a
descriptor in hand.  Theorems `TypeCorrect` and `DisplaysNeverLeak`, for any
number of nodes and a host that changes at every step.  `Indexed` is about what
an index names: while the host is as it was when the call began, `working` is
the *rank* of the node the walk is at (the working nodes below it), each node
listed stands in the place of its rank, and what a construction came to is the
node whose rank is its index; so the two walks agree although neither sees the
other.  A change of the host makes all of it vacuous.  Theorem `IndexMeansOne`
(`IndexNamesListed`), from `ListedMatches` and, for device 0 and the node
registration asked, `DefaultMatches`, under `Spare`: the process may have more
descriptors than it has decoders.

`Devices_proofs` about `Capabilities`, whose definitions and variables have names
other than those of `Devices` so that one module can extend both.
`CapsInv` says that the rows of a matrix are the driver's answers, and puts what
each call said in terms of those answers alone, so that calls at different times
can be compared. The one computation is the maximum, a fold over a set in an
order the code does not promise. `FoldIsGreatest`: the greatest size satisfies
the fold's recursion, so there is such a function; and any function that does is
the greatest on every finite set, for the smallest set on which it were not
would have one without an element, on which it is. Theorems `CapsTypeCorrect`,
`QueriesAgree` (`AcceptedIsReported`: for every driver, those whose matrix cannot
be asked included), `MaximumIsGreatest` (`MaximaExact`).

`DecodeSession_proofs` about `ReadBack`.  Arithmetic about `read()` and
`copy_image()`, for every layout a driver may report and every rectangle:

* `RowsInsideImage`, `RowsInsidePlane`: a check of the pitch and of the last
  row's end covers every row of the copy, in the image and in the caller's
  planes, and the rows written do not overlap.
* `WholeSurfaceFits`: an image that holds the surface is never refused.
* `NoOverflow`: with 32-bit fields none of `copy_image()`'s sums leaves a 64-bit
  word (the largest is exactly 2^64 - 1).  `read()`'s own sums are over the
  caller's strides, which are of the word's width; they are not covered.
* `WholeImageCopies`, `CropInside`: what the unchecked copies of `decoder.rs`
  need of the image and of the plane to stay inside.

`Loader_proofs`.  `IInv` adds to the type invariant that at most one thread is
loading and exactly when the table says so, that no thread is about to set
`HOST` while one loads, and that what was chosen agrees with `HOST` until the
table is settled.  Theorems `TypeCorrect`, `FilledOnce` (no assumption), `BracketsRight`,
`InstallKept` (under `Exclusive`).

Only model-checked: the liveness properties `CallsReturn` and `VtableReturns`,
which are beyond this prover; and what the runs that expect a violation show.

## 5. Not modelled

* The tables of `profiles.rs` and the look-ups over them: constants.
* The parameter structures (`sys/*.rs`) and their translation: data, with tests.
* The attribute lists of `config.rs`; `decode_idr()`, a one-shot use of the code
  `RegistryDecoder` models.
* `vendor_string()`, `api_version()`, names and messages: wording.
* `oxideav-bitstream`, libva, the drivers: external.
* The `frame_num` sequence check of H.264 is part of `RejectPicture`; the HEVC
  DPB's own idea of the first picture is left out.
* A host loader without `enter`/`exit` (calls are then not bracketed at all), and
  one whose `resolve` calls back into the crate.
* A driver whose answers to queries change while the process runs.

## 6. Plan

Done, in this order: `SurfacePool`, `Vp9Decoder` and its proofs, `DecodeSession`,
`Av1Decoder`, `H264Decoder`, `HevcDecoder`, `RegistryDecoder`, `Loader` and its
proofs; `Devices`, `Capabilities`, `ReadBack`; the proofs about `ReadBack`,
`DecodeSession`, `Devices`, `RegistryDecoder`, `H264Decoder`, `HevcDecoder`,
`Av1Decoder` and `Capabilities`.

Next:

1. A composition of a decoder with `DecodeSession`, so that the submissions of
   the decoders are the session's and its failures theirs.
2. A relaxed instance of AV1: a sequence change after a shown frame of the same
   unit.
