----------------------------- MODULE ImageBuilds -----------------------------
(***************************************************************************)
(* Builds of one Spark image (backend/image_builder.py): a job takes the   *)
(* version the language model recommended, or the first one that is        *)
(* published, writes it into the Dockerfile and into the manifest of the   *)
(* stack, and builds and pushes the image.  Every job of the image works   *)
(* on the same two files.                                                  *)
(*                                                                         *)
(* A version is the version of the addon; the version of Spark is the one  *)
(* in the Dockerfile and never changes, so a version stands for its tag.   *)
(***************************************************************************)
EXTENDS Naturals

CONSTANTS
  MaxBuilds,   \* bound: builds
  Versions,    \* addon versions the version list offers
  Suffixed     \* those of them that are not digits and dots only

ASSUME ImageBuildsAssumption ==
  MaxBuilds \in Nat /\ 0 \notin Versions /\ Suffixed \subseteq Versions

Builds == 1..MaxBuilds
None == 0

VARIABLES
  status,      \* [Builds -> status of the job; "lost" with the server]
  asked,       \* [Builds -> the recommended version]
  version,     \* [Builds -> the version it builds]
  tag,         \* [Builds -> the tag it builds and pushes]
  dockerfile,  \* the version in the Dockerfile
  manifest,    \* the version in the manifest of the stack
  context,     \* [Builds -> what docker read in the Dockerfile]
  local,       \* [Versions -> content of the local image of that tag, or None]
  registry,    \* [Versions -> content of the pushed image, or None]
  met          \* history: builds during which another one was under way

imageVars == <<status, asked, version, tag, dockerfile, manifest, context, local, registry, met>>

Init ==
  /\ status = [b \in Builds |-> "unused"]
  /\ asked = [b \in Builds |-> None] /\ version = [b \in Builds |-> None]
  /\ tag = [b \in Builds |-> None]
  /\ \E v \in Versions \ Suffixed :
       /\ dockerfile = v /\ manifest = v
       /\ local = [w \in Versions |-> None]
       /\ registry = [w \in Versions |-> IF w = v THEN v ELSE None]
  /\ context = [b \in Builds |-> None]
  /\ met = {}

Under == {b \in Builds : status[b] \in {"validating", "building", "read", "pushing"}}

Becomes(b, s) == status' = [status EXCEPT ![b] = s]

-----------------------------------------------------------------------------
(* image_build_start: nothing asks whether the image is being built.       *)
Start(b, v) ==
  /\ status[b] = "unused" /\ \A c \in Builds : c < b => status[c] # "unused"
  /\ Becomes(b, "validating")
  /\ asked' = [asked EXCEPT ![b] = v]
  /\ met' = IF Under = {} THEN met ELSE met \cup Under \cup {b}
  /\ UNCHANGED <<version, tag, dockerfile, manifest, context, local, registry>>

(* Mutant: the tag stays the recommended one when the version falls back.  *)
Tag_Asked(b, v) == asked[b]

Tag(b, v) == v

(* ver_re knows a version by its digits and dots: one with a suffix can be *)
(* written over the last one, and is never found again.                    *)
Rewritten(v) == IF dockerfile \in Suffixed THEN dockerfile ELSE v

(* validate_maven finds the recommended version or one of the others, and  *)
(* the job patches both files before docker is started.                    *)
Patch(b, v) ==
  /\ status[b] = "validating"
  /\ Becomes(b, "building")
  /\ version' = [version EXCEPT ![b] = v]
  /\ tag' = [tag EXCEPT ![b] = Tag(b, v)]
  /\ dockerfile' = Rewritten(v) /\ manifest' = v
  /\ UNCHANGED <<asked, context, local, registry, met>>

(* The Dockerfile is written, and the manifest cannot be.                  *)
PatchFails(b, v) ==
  /\ status[b] = "validating"
  /\ Becomes(b, "error")
  /\ version' = [version EXCEPT ![b] = v]
  /\ dockerfile' = Rewritten(v)
  /\ UNCHANGED <<asked, tag, manifest, context, local, registry, met>>

(* docker build reads the Dockerfile some time after it was started. *)
Read(b) ==
  /\ status[b] = "building"
  /\ Becomes(b, "read")
  /\ context' = [context EXCEPT ![b] = dockerfile]
  /\ UNCHANGED <<asked, version, tag, dockerfile, manifest, local, registry, met>>

Built(b) ==
  /\ status[b] = "read"
  /\ Becomes(b, "pushing")
  /\ local' = [local EXCEPT ![tag[b]] = context[b]]
  /\ UNCHANGED <<asked, version, tag, dockerfile, manifest, context, registry, met>>

Pushed(b) ==
  /\ status[b] = "pushing"
  /\ Becomes(b, "done")
  /\ registry' = [registry EXCEPT ![tag[b]] = local[tag[b]]]
  /\ UNCHANGED <<asked, version, tag, dockerfile, manifest, context, local, met>>

(* No version is published, or docker exits with an error: the files stay  *)
(* as the job has left them.                                               *)
Fails(b) ==
  /\ b \in Under
  /\ Becomes(b, "error")
  /\ UNCHANGED <<asked, version, tag, dockerfile, manifest, context, local, registry, met>>

(* Jobs are in memory only; what docker had under way ends with them.      *)
Restart ==
  /\ Under # {}
  /\ status' = [b \in Builds |-> IF b \in Under THEN "lost" ELSE status[b]]
  /\ UNCHANGED <<asked, version, tag, dockerfile, manifest, context, local, registry, met>>

Next ==
  \/ \E b \in Builds, v \in Versions : Start(b, v) \/ Patch(b, v) \/ PatchFails(b, v)
  \/ \E b \in Builds : Read(b) \/ Built(b) \/ Pushed(b) \/ Fails(b)
  \/ Restart

Spec == Init /\ [][Next]_imageVars

-----------------------------------------------------------------------------
(* Properties *)

ImageBuildsTypeOK ==
  /\ status \in [Builds -> {"unused", "validating", "building", "read", "pushing", "done",
                            "error", "lost"}]
  /\ asked \in [Builds -> Versions \cup {None}] /\ version \in [Builds -> Versions \cup {None}]
  /\ tag \in [Builds -> Versions \cup {None}]
  /\ dockerfile \in Versions /\ manifest \in Versions
  /\ context \in [Builds -> Versions \cup {None}]
  /\ local \in [Versions -> Versions \cup {None}]
  /\ registry \in [Versions -> Versions \cup {None}]
  /\ met \subseteq Builds

(* While no two builds were ever under way together, and no version with a *)
(* suffix has got into the Dockerfile, which it would not leave again,     *)
(* every image that was pushed holds the version its tag names, whatever   *)
(* builds fell back to another version, failed half way or were lost       *)
(* before.                                                                 *)
PushedIsItsTag ==
  met = {} /\ dockerfile \notin Suffixed => \A v \in Versions : registry[v] \in {None, v}
=============================================================================
