------------------------------- MODULE Artifact -------------------------------
(***************************************************************************)
(* The manifest of an artifact (src/artifact): what makes it valid, and    *)
(* the hash that stands for it.                                            *)
(*                                                                         *)
(* Paths and URIs are numbers, which have an order; 0 is one that is       *)
(* missing or blank.  The value of a property is the text it is printed    *)
(* as.  A digest is the payload it is made of, marked as a digest: two     *)
(* payloads never share one.                                               *)
(***************************************************************************)
EXTENDS Naturals, Sequences, FiniteSets, Functions
LOCAL INSTANCE TLC

-----------------------------------------------------------------------------
(* Manifests.                                                              *)

Protocol == "agent-artifact/v1"
Blank == 0
NoSchema == <<"", "">>     \* name and version
NoHash == {}               \* manifest_hash is None

Property(kind, value) == [kind |-> kind, value |-> value]

(* ArtifactFile; its properties are a function of their names.             *)
File(path, uri, content, profile, type, schema, size, properties) ==
  [path |-> path, uri |-> uri, content |-> content, profile |-> profile,
   type |-> type, schema |-> schema, size |-> size, properties |-> properties]

(* ArtifactManifest, unsealed.  Its issue is the artifact_id and the       *)
(* created_at that the agent gave it, what it delivers a kind and files.   *)
(* The names of properties are taken to have no '=' and no line break.     *)
Manifest(issue, task, assignment, producer, delivered) ==
  [protocol |-> Protocol, artifact |-> issue.artifact, task |-> task,
   assignment |-> assignment, producer |-> producer,
   createdAt |-> issue.createdAt, kind |-> delivered.kind,
   files |-> delivered.files, hash |-> NoHash]

(* What the types of a file and of a manifest allow, valid or not.         *)
IsFile(file) ==
  /\ file = File(file.path, file.uri, file.content, file.profile, file.type,
                 file.schema, file.size, file.properties)
  /\ file.path \in Nat

IsManifest(m) ==
  /\ m.kind \in {"Single", "Bundle"}
  /\ m.files \in Seq({m.files[i] : i \in DOMAIN m.files})
  /\ \A i \in DOMAIN m.files : IsFile(m.files[i])

-----------------------------------------------------------------------------
(* The profiles a file may follow.                                         *)

Free == "any text"

ImageProperties ==
  [width |-> Property("Integer", Free), height |-> Property("Integer", Free),
   color_space |-> Property("Text", "srgb"),
   bit_depth |-> Property("Integer", Free), alpha |-> Property("Bool", Free)]

VideoProperties ==
  [container |-> Property("Text", "mp4"),
   video_codec |-> Property("Text", "h264"),
   width |-> Property("Integer", Free), height |-> Property("Integer", Free),
   duration_ms |-> Property("Integer", Free), fps |-> Property("Integer", Free)]

AudioProperties ==
  [duration_ms |-> Property("Integer", Free), codec |-> Property("Text", "mp3")]

Profile(type, requiresSchema, required) ==
  [type |-> type, requiresSchema |-> requiresSchema, required |-> required]

NoProperties == [name \in {} |-> Free]

(* BASELINE_MEDIA_PROFILES.                                                *)
MediaProfiles ==
  "text.plain.utf8.v1" :> Profile("text/plain", FALSE, NoProperties)
    @@ "text.markdown.utf8.v1" :> Profile("text/markdown", FALSE, NoProperties)
    @@ "application.json.v1" :> Profile("application/json", TRUE, NoProperties)
    @@ "application.vnd.agent.review-verdict-json.v1" :>
         Profile("application/vnd.agent.review-verdict+json", TRUE, NoProperties)
    @@ "image.png.srgb.v1" :> Profile("image/png", FALSE, ImageProperties)
    @@ "image.jpeg.srgb.v1" :> Profile("image/jpeg", FALSE, ImageProperties)
    @@ "video.mp4.h264-aac.v1" :> Profile("video/mp4", FALSE, VideoProperties)
    @@ "audio.mpeg.mp3.v1" :> Profile("audio/mpeg", FALSE, AudioProperties)

-----------------------------------------------------------------------------
(* Validation.                                                             *)

(* property_type, validate_property_value.                                 *)
ValidProperty(property, required) ==
  /\ property.kind = required.kind
  /\ property.kind = "Integer" => property.value # "0"
  /\ property.kind = "Text" => required.value \in {Free, property.value}

(* validate_file_against_profile.                                          *)
FitsProfile(file, profile) ==
  /\ file.type = profile.type
  /\ profile.requiresSchema => file.schema[1] # "" /\ file.schema[2] # ""
  /\ \A name \in DOMAIN profile.required :
       /\ name \in DOMAIN file.properties
       /\ ValidProperty(file.properties[name], profile.required[name])

(* fault: a path is compared with that of the file before it.              *)
PathDiffersFromLast(m, i) ==
  m.files[i].path # Blank /\ (i > 1 => m.files[i - 1].path # m.files[i].path)

PathIsNew(m, i) ==
  /\ m.files[i].path # Blank
  /\ \A j \in 1 .. i - 1 : m.files[j].path # m.files[i].path

ValidFile(m, i) ==
  LET file == m.files[i]
  IN  /\ file.uri # Blank
      /\ file.size # 0
      /\ m.kind = "Bundle" => PathIsNew(m, i)
      /\ file.profile \in DOMAIN MediaProfiles
      /\ FitsProfile(file, MediaProfiles[file.profile])

(* validate_manifest_shape.                                                *)
ValidShape(m) ==
  /\ m.protocol = Protocol
  /\ m.files # << >>
  /\ m.kind = "Single" => Len(m.files) = 1
  /\ \A i \in DOMAIN m.files : ValidFile(m, i)

-----------------------------------------------------------------------------
(* The hash.                                                               *)

(* sha256_digest.                                                          *)
Digest(payload) == [sha256 |-> payload]

(* push_file: of a property the payload has the value and not the kind.    *)
Described(file) ==
  [file EXCEPT !.properties = [name \in DOMAIN file.properties |->
                                 file.properties[name].value]]

(* fault: the files come in the order in which they were listed.           *)
PayloadAsListed(m) ==
  [protocol |-> m.protocol, artifact |-> m.artifact, task |-> m.task,
   assignment |-> m.assignment, producer |-> m.producer, kind |-> m.kind,
   createdAt |-> m.createdAt,
   files |-> [i \in DOMAIN m.files |-> Described(m.files[i])]]

(* Only a path that repeats, which no valid bundle has, would leave the    *)
(* order to the URIs and profiles.                                         *)
Sorts(order, files) ==
  \A i, j \in DOMAIN files :
    i < j => files[order[i]].path <= files[order[j]].path

ByPath(files) ==
  LET order == CHOOSE order \in Bijection(DOMAIN files, DOMAIN files) :
                 Sorts(order, files)
  IN  [i \in DOMAIN files |-> files[order[i]]]

(* canonical_manifest_payload.                                             *)
Payload(m) ==
  LET files == ByPath(m.files)
  IN  [protocol |-> m.protocol, artifact |-> m.artifact, task |-> m.task,
       assignment |-> m.assignment, producer |-> m.producer, kind |-> m.kind,
       createdAt |-> m.createdAt,
       files |-> [i \in DOMAIN files |-> Described(files[i])]]

(* compute_manifest_hash, of a manifest with a valid shape.                *)
ManifestHash(m) == Digest(Payload(m))

(* seal_manifest.                                                          *)
Sealed(m) == [m EXCEPT !.hash = {ManifestHash(m)}]

(* validate_manifest.                                                      *)
ValidManifest(m) == ValidShape(m) /\ m.hash = {ManifestHash(m)}

(* validate_manifest_submission.                                           *)
ValidSubmission(m, task, assignment, producer) ==
  /\ m.task = task
  /\ m.assignment = assignment
  /\ m.producer = producer
  /\ ValidManifest(m)

===============================================================================
