--------------------------- MODULE Capabilities ---------------------------
(***************************************************************************)
(* What the crate asks a driver before it decodes: the matrix of profiles  *)
(* and entrypoints of src/src/display.rs, the report engine_info() makes   *)
(* of it in src/src/engine.rs, the look before registration of             *)
(* src/src/profiles.rs, and check_decode() of src/src/session.rs, which    *)
(* asks the driver itself.  A driver's answers do not change while the     *)
(* process runs; each may be an error.  Width and height are asked for     *)
(* alike: one of them stands for both.  Devices models the walks over the  *)
(* nodes around these queries; the names below are other than its, so that *)
(* one module can extend both.                                             *)
(***************************************************************************)
EXTENDS Integers, FiniteSetsExt, Functions

CONSTANTS
  Family,        (* KNOWN_CODECS: the codecs of the profiles 1, 2, ...    *)
  Encoders,      (* the entrypoints that encode: EncSlice, EncSliceLP     *)
  MaxSize,       (* bound: picture sizes                                  *)
  NotSupported,  (* VA_ATTRIB_NOT_SUPPORTED                               *)
  Failed,        (* the driver's status is an error                       *)
  LeftOut,       (* probe_node()'s None: engine_info() reports no device  *)
  Unknown        (* no size; not asked yet                                *)

ASSUME CapabilitiesAssumption ==
  /\ MaxSize \in Nat
  /\ IsFiniteSet(DOMAIN Family) /\ IsFiniteSet(Encoders)
  /\ {NotSupported, Failed, Unknown} \cap Nat = {}
  /\ LeftOut # Unknown
  /\ {"idle", "info"} \cap Range(Family) = {}

VARIABLES
  answers,    (* the driver's                                             *)
  query,      (* which call builds a matrix, or "idle"                    *)
  rows,       (* EntrypointMatrix: the profiles asked so far              *)
  report,     (* the last engine_info(): HwCodecCaps by codec, or LeftOut *)
  supported,  (* the codecs host_supports_codec_decode() said yes to      *)
  refused,    (* and those it said no to                                  *)
  checked     (* the last check_decode(): profile, size and answer        *)

capsVars == <<answers, query, rows, report, supported, refused, checked>>

Profiles == DOMAIN Family
Codecs == Range(Family)
Entrypoints == {"VLD"} \cup Encoders
Values == 0..MaxSize \cup {NotSupported, Failed}

(* A driver lists profiles, answers the entrypoints of each, and for a pair *)
(* it has a maximum size.  Of a profile that is not listed it says that it  *)
(* is not supported, which the code takes as no entrypoints.                *)
Drivers ==
  {d \in [listed : (SUBSET Profiles) \cup {Failed},
          entrypoints : [Profiles -> (SUBSET Entrypoints) \cup {Failed}],
          formats : SUBSET Profiles,
          size : [Profiles -> [Entrypoints -> Values]]] :
     /\ \A p \in Profiles :
          d.listed # Failed /\ p \notin d.listed => d.entrypoints[p] = {}
     /\ \A p \in Profiles, e \in Entrypoints :
          d.entrypoints[p] = Failed \/ e \notin d.entrypoints[p]
            => d.size[p][e] = NotSupported}

Caps == [decode : BOOLEAN, encode : BOOLEAN,
         profiles : SUBSET Profiles, max : 1..MaxSize \cup {Unknown}]

ASSUME LeftOutAssumption == \A C \in SUBSET Codecs : LeftOut \notin [C -> Caps]

CapsTypeOK ==
  /\ query \in {"idle", "info"} \cup Codecs
  /\ DOMAIN rows \subseteq Profiles
  /\ \A p \in DOMAIN rows : rows[p] \subseteq Entrypoints
  /\ report \notin {Unknown, LeftOut} =>
       DOMAIN report \subseteq Codecs /\ Range(report) \subseteq Caps
  /\ supported \subseteq Codecs /\ refused \subseteq Codecs
  /\ checked \in [profile : Profiles, size : 1..MaxSize, ok : BOOLEAN] \cup {Unknown}

(***************************************************************************)
(* The driver's answers as the crate reads them.                           *)
(***************************************************************************)
(* Display::is_supported(): an error is a no. *)
DisplaySupports(p, e) == answers.entrypoints[p] # Failed /\ e \in answers.entrypoints[p]

(* config::get_attribute(): a value, or None for NOT_SUPPORTED; an error    *)
(* counts as neither wherever it is asked.                                  *)
Reported(p, e) == answers.size[p][e] \notin {NotSupported, Failed}

(* EntrypointMatrix::entrypoints_for(), is_supported(), any_supports(). *)
EntrypointsFor(p) == IF p \in DOMAIN rows THEN rows[p] ELSE {}
IsSupported(p, e) == e \in EntrypointsFor(p)

(* Mutant of AnySupports: the family's last profile speaks for all. *)
AnySupportsHeadline(c, e) ==
  \E p \in Profiles : /\ Family[p] = c /\ IsSupported(p, e)
                     /\ \A q \in Profiles : Family[q] = c => q <= p

AnySupports(c, e) == \E p \in Profiles : Family[p] = c /\ IsSupported(p, e)

(* collect_codecs(): the family's profiles with an entrypoint. *)
Present(c) == {p \in Profiles : Family[p] = c /\ EntrypointsFor(p) # {}}

(* max_dims_across(): a positive size raises the maximum. *)
(* Mutant of Raise: zero is a size. *)
RaiseZero(pair, max) ==
  LET v == answers.size[pair[1]][pair[2]] IN
  IF Reported(pair[1], pair[2]) /\ (max = Unknown \/ v > max) THEN v ELSE max

(* Mutant of Raise: the last pair asked wins. *)
RaiseLast(pair, max) ==
  LET v == answers.size[pair[1]][pair[2]] IN
  IF Reported(pair[1], pair[2]) /\ v # 0 THEN v ELSE max

Raise(pair, max) ==
  LET v == answers.size[pair[1]][pair[2]] IN
  IF Reported(pair[1], pair[2]) /\ v # 0 /\ (max = Unknown \/ v > max) THEN v ELSE max

Pairs(profiles) ==
  {pair \in profiles \X Entrypoints : IsSupported(pair[1], pair[2])}

MaxAcross(profiles) == FoldSet(Raise, Unknown, Pairs(profiles))

Encodes(c) == \E e \in Encoders : AnySupports(c, e)

CapsOf(c) ==
  [decode |-> AnySupports(c, "VLD"), encode |-> Encodes(c),
   profiles |-> Present(c), max |-> MaxAcross(Present(c))]

(***************************************************************************)
(* The calls.                                                              *)
(***************************************************************************)
CapsInit ==
  /\ answers \in Drivers
  /\ query = "idle" /\ rows = <<>>
  /\ report = Unknown /\ supported = {} /\ refused = {} /\ checked = Unknown

(* probe_node() and host_supports_codec_decode() open the node and build    *)
(* the matrix; without one the first leaves the device out, the second says *)
(* no.                                                                      *)
Give(call) ==
  /\ report' = IF call = "info" THEN LeftOut ELSE report
  /\ refused' = IF call = "info" THEN refused ELSE refused \cup {call}
  /\ UNCHANGED supported

Build(call) ==
  /\ query = "idle" /\ rows' = <<>>
  /\ \/ /\ answers.listed = Failed /\ Give(call)
        /\ UNCHANGED query
     \/ /\ answers.listed # Failed /\ query' = call
        /\ UNCHANGED <<report, supported, refused>>
  /\ UNCHANGED <<answers, checked>>

(* entrypoint_matrix(): one profile after the other, up to the first error. *)
Row(p) ==
  /\ query # "idle" /\ p \in answers.listed \ DOMAIN rows
  /\ \A q \in answers.listed \ DOMAIN rows : q >= p
  /\ \/ /\ answers.entrypoints[p] = Failed
        /\ Give(query) /\ query' = "idle" /\ rows' = <<>>
     \/ /\ answers.entrypoints[p] # Failed
        /\ rows' = [q \in DOMAIN rows \cup {p} |->
                      IF q = p THEN answers.entrypoints[p] ELSE rows[q]]
        /\ UNCHANGED <<query, report, supported, refused>>
  /\ UNCHANGED <<answers, checked>>

(* collect_codecs() on the finished matrix. *)
Collect ==
  /\ query = "info" /\ answers.listed \subseteq DOMAIN rows
  /\ report' = [c \in {k \in Codecs : Present(k) # {}} |-> CapsOf(c)]
  /\ query' = "idle" /\ rows' = <<>>
  /\ UNCHANGED <<answers, supported, refused, checked>>

(* host_supports_codec_decode() on the finished matrix. *)
Preflight ==
  /\ query \in Codecs /\ answers.listed \subseteq DOMAIN rows
  /\ IF AnySupports(query, "VLD")
     THEN supported' = supported \cup {query} /\ UNCHANGED refused
     ELSE refused' = refused \cup {query} /\ UNCHANGED supported
  /\ query' = "idle" /\ rows' = <<>>
  /\ UNCHANGED <<answers, report, checked>>

(* check_decode(): the entrypoint, the render target format, and a maximum  *)
(* where the driver reports one.                                            *)
Fits(p, size) ==
  /\ DisplaySupports(p, "VLD")
  /\ p \in answers.formats
  /\ Reported(p, "VLD") => size <= answers.size[p]["VLD"]

CheckDecode(p, size) ==
  /\ query = "idle"
  /\ checked' = [profile |-> p, size |-> size, ok |-> Fits(p, size)]
  /\ UNCHANGED <<answers, query, rows, report, supported, refused>>

CapsNext ==
  \/ \E call \in {"info"} \cup Codecs : Build(call)
  \/ \E p \in Profiles : Row(p)
  \/ Collect \/ Preflight
  \/ \E p \in Profiles, size \in 1..MaxSize : CheckDecode(p, size)

CapsSpec == CapsInit /\ [][CapsNext]_capsVars

(***************************************************************************)
(* Properties.                                                             *)
(***************************************************************************)
(* engine_info() has given its report of the device. *)
IsReported == report \notin {Unknown, LeftOut}

(* A listed profile other than p, or the list itself, is an error.         *)
AnotherFails(p) ==
  \/ answers.listed = Failed
  \/ \E q \in answers.listed \ {p} : answers.entrypoints[q] = Failed

(* Four paths to the same driver, and how far they agree.  What             *)
(* check_decode(), which asks for one profile alone, accepts, a report of   *)
(* engine_info() has: the codec is decoded, with that profile, and where    *)
(* the driver has a maximum for the profile, up to that size at least.      *)
(* engine_info() leaves the device out, or the pre-flight says no, to what  *)
(* check_decode() accepts only where another profile, or the list, cannot   *)
(* be asked.  And the report and the pre-flight, which share the matrix,    *)
(* always agree: one says yes to no codec the other says no to, and a       *)
(* device left out has no codec the pre-flight says yes to.                 *)
AcceptedIsReported ==
  /\ checked # Unknown /\ checked.ok =>
       LET p == checked.profile
           c == Family[p]
       IN  /\ IsReported =>
                /\ c \in DOMAIN report /\ report[c].decode
                /\ p \in report[c].profiles
                /\ Reported(p, "VLD") => report[c].max >= checked.size
           /\ report = LeftOut \/ c \in refused => AnotherFails(p)
  /\ IsReported =>
       /\ \A c \in DOMAIN report : c \in refused => ~report[c].decode
       /\ \A c \in supported : c \in DOMAIN report /\ report[c].decode
  /\ report = LeftOut => supported = {}

(* The positive sizes the driver gives for the codec's profiles. *)
SizesGiven(c) ==
  {answers.size[p][e] : p \in {q \in Profiles : Family[q] = c}, e \in Entrypoints}
    \cap 1..MaxSize

(* The maximum reported for a codec is the greatest positive size the       *)
(* driver gives for any profile and entrypoint of the family, whichever of  *)
(* them are errors, zero or not supported.                                  *)
MaximaExact ==
  IsReported => \A c \in DOMAIN report :
    report[c].max = IF SizesGiven(c) = {} THEN Unknown ELSE Max(SizesGiven(c))
=============================================================================
