----------------------------- MODULE BuildCache -----------------------------
(***************************************************************************)
(* The build cache of one output: compiler invocations that take the       *)
(* output lock, look for an earlier build before and after loading the     *)
(* sources, compile, link and record what they built, while the sources    *)
(* are edited, artifacts are removed and invocations are killed.  A source *)
(* tree is one value, a hash stands for what it was computed from, and a   *)
(* compiled file for the request (options, entry, environment) and the     *)
(* text it was compiled from.                                              *)
(***************************************************************************)
EXTENDS Integers

CONSTANTS Builders,  \* invocations that may run at the same time
          Requests,  \* what request_key tells apart
          Stamped,   \* requests that build_stamp accepts
          Early,     \* requests that early_build_lookup accepts
          Texts,     \* contents of the source tree
          None,
          Partial    \* a file whose writer was killed

ASSUME CacheAssumption ==
    /\ Early \subseteq Stamped /\ Stamped \subseteq Requests
    /\ None # Partial /\ None \notin Builders

(* The artifacts of a native build.                                        *)
Files == {"abi", "bin"}

Compiled(r, t) == [request |-> r, text |-> t]
Outputs == [request : Requests, text : Texts]
Stamps == [request : Stamped, key : Texts, inputs : Texts, early : BOOLEAN]

VARIABLES
    text,      \* the sources on disk
    ll,        \* the intermediate LLVM file
    artifact,  \* the artifacts
    manifest,  \* the stored build in <out>.dream-cache
    holder,    \* who holds the output lock
    pc,        \* where an invocation is
    request,   \* its request
    loaded,    \* the text it loaded, or verified without loading
    stamp      \* its BuildStamp

files == <<ll, artifact, manifest>>
vars == <<text, files, holder, pc, request, loaded, stamp>>

Init ==
    /\ text \in Texts
    /\ ll = None /\ artifact = [f \in Files |-> None] /\ manifest = None
    /\ holder = None
    /\ pc = [b \in Builders |-> "idle"]
    /\ request = [b \in Builders |-> None]
    /\ loaded = [b \in Builders |-> None]
    /\ stamp = [b \in Builders |-> None]

Goto(b, l) == pc' = [pc EXCEPT ![b] = l]

-----------------------------------------------------------------------------
\* Mutant of acquire_lock: a lock per request.
lock_per_request(b, r) ==
    /\ pc[b] = "idle"
    /\ \A c \in Builders : request[c] # r
    /\ holder' = b
    /\ request' = [request EXCEPT ![b] = r]
    /\ Goto(b, "early")
    /\ UNCHANGED <<text, files, loaded, stamp>>

(* One invocation at a time works on an output.                            *)
acquire_lock(b, r) ==
    /\ pc[b] = "idle"
    /\ holder = None /\ holder' = b
    /\ request' = [request EXCEPT ![b] = r]
    /\ Goto(b, "early")
    /\ UNCHANGED <<text, files, loaded, stamp>>

(* A hash stands for what it is computed from: the source tree, with       *)
(* missing files and directory listings, and all of the options, the       *)
(* environment, the entry, the output and the project manifest.            *)
input_hash == text
request_key(b) == request[b]

(* Every recorded artifact still has its recorded hash.                    *)
reuse == \A f \in Files : artifact[f] = manifest.artifacts[f]
(* The inputs are those on disk; the key, which is that of the sources as  *)
(* they were loaded, is not known yet.                                     *)
EarlyHit(b) ==
    /\ request[b] \in Early
    /\ manifest # None
    /\ manifest.early /\ manifest.request = request_key(b)
    /\ manifest.inputs = input_hash
    /\ reuse

early_build_lookup(b) ==
    /\ pc[b] = "early"
    /\ IF EarlyHit(b)
       THEN loaded' = [loaded EXCEPT ![b] = text] /\ Goto(b, "cached")
       ELSE UNCHANGED loaded /\ Goto(b, "load")
    /\ UNCHANGED <<text, files, holder, request, stamp>>

(* Parses the sources and runs the generators; errors end the build.       *)
load_program(b) ==
    /\ pc[b] = "load"
    /\ \/ loaded' = [loaded EXCEPT ![b] = text] /\ Goto(b, "stamp")
       \/ UNCHANGED loaded /\ Goto(b, "failed")
    /\ UNCHANGED <<text, files, holder, request, stamp>>

\* Mutant of build_stamp: the key is computed from the inputs read again.
stamp_from_disk(b) ==
    /\ pc[b] = "stamp"
    /\ stamp' = [stamp EXCEPT ![b] =
                   IF request[b] \in Stamped
                   THEN [request |-> request_key(b), key |-> input_hash, inputs |-> input_hash,
                         early |-> request[b] \in Early]
                   ELSE None]
    /\ Goto(b, "lookup")
    /\ UNCHANGED <<text, files, holder, request, loaded>>

(* The key is computed from the loaded sources, the inputs are read again. *)
build_stamp(b) ==
    /\ pc[b] = "stamp"
    /\ stamp' = [stamp EXCEPT ![b] =
                   IF request[b] \in Stamped
                   THEN [request |-> request_key(b), key |-> loaded[b], inputs |-> input_hash,
                         early |-> request[b] \in Early]
                   ELSE None]
    /\ Goto(b, "lookup")
    /\ UNCHANGED <<text, files, holder, request, loaded>>

Hit(b) ==
    /\ stamp[b] # None /\ manifest # None
    /\ manifest.request = stamp[b].request /\ manifest.key = stamp[b].key
    /\ manifest.inputs = input_hash
    /\ reuse

lookup(b) ==
    /\ pc[b] = "lookup"
    /\ Goto(b, IF Hit(b) THEN "cached" ELSE "compile")
    /\ UNCHANGED <<text, files, holder, request, loaded, stamp>>

(* Analysis, lowering and optimization, in memory; errors end the build.   *)
compile(b) ==
    /\ pc[b] = "compile"
    /\ Goto(b, "emit") \/ Goto(b, "failed")
    /\ UNCHANGED <<text, files, holder, request, loaded, stamp>>

(* A write that an error or a kill interrupts leaves the file incomplete,  *)
(* and those after it as they were.                                        *)
Output(b) == Compiled(request[b], loaded[b])
Interrupted(b) ==
    \/ UNCHANGED <<ll, artifact>>
    \/ pc[b] = "emit" /\ artifact' = [artifact EXCEPT !["abi"] = Partial] /\ UNCHANGED ll
    \/ pc[b] = "emit" /\ artifact' = [artifact EXCEPT !["abi"] = Output(b)]
                      /\ ll' \in {ll, Partial}
    \/ pc[b] = "link" /\ artifact' = [artifact EXCEPT !["bin"] = Partial] /\ UNCHANGED ll

(* The ABI and the LLVM file are written.                                  *)
emit_artifacts(b) ==
    /\ pc[b] = "emit"
    /\ \/ Goto(b, "failed") /\ Interrupted(b)
       \/ /\ Goto(b, "link")
          /\ artifact' = [artifact EXCEPT !["abi"] = Output(b)]
          /\ ll' = Output(b)
    /\ UNCHANGED <<text, manifest, holder, request, loaded, stamp>>

(* The linker compiles the intermediate file, which is then dropped.       *)
link(b) ==
    /\ pc[b] = "link"
    /\ \/ Goto(b, "failed") /\ Interrupted(b)
       \/ /\ ll \notin {None, Partial}
          /\ artifact' = [artifact EXCEPT !["bin"] = ll]
          /\ ll' = None
          /\ Goto(b, IF stamp[b] = None THEN "built" ELSE "store")
    /\ UNCHANGED <<text, manifest, holder, request, loaded, stamp>>

(* store looks at the inputs once more, and forgets the earlier build when *)
(* they have changed.                                                      *)
store(b) ==
    /\ pc[b] = "store"
    /\ IF stamp[b].inputs = input_hash
       THEN Goto(b, "record") /\ UNCHANGED manifest
       ELSE Goto(b, "built") /\ manifest' = None
    /\ UNCHANGED <<text, ll, artifact, holder, request, loaded, stamp>>

StoredBuild(b) == [request |-> stamp[b].request, key |-> stamp[b].key,
                   inputs |-> stamp[b].inputs, early |-> stamp[b].early,
                   artifacts |-> artifact]

\* Mutant of Record: an artifact that cannot be read is recorded all the same.
record_unreadable(b) ==
    /\ pc[b] = "record"
    /\ manifest' = StoredBuild(b)
    /\ Goto(b, "built")
    /\ UNCHANGED <<text, ll, artifact, holder, request, loaded, stamp>>

(* It hashes the artifacts and renames a complete file into place; when    *)
(* anything fails there is no stored build.                                *)
Record(b) ==
    /\ pc[b] = "record"
    /\ \/ manifest' = None
       \/ manifest' = StoredBuild(b) /\ \A f \in Files : artifact[f] # None
    /\ Goto(b, "built")
    /\ UNCHANGED <<text, ll, artifact, holder, request, loaded, stamp>>

Forget(b) ==
    /\ holder' = None
    /\ Goto(b, "idle")
    /\ request' = [request EXCEPT ![b] = None]
    /\ loaded' = [loaded EXCEPT ![b] = None]
    /\ stamp' = [stamp EXCEPT ![b] = None]

Release(b) ==
    /\ pc[b] \in {"cached", "built", "failed"}
    /\ Forget(b)
    /\ UNCHANGED <<text, files>>

-----------------------------------------------------------------------------
(* An invocation is killed, and the operating system frees its lock.       *)
Crash(b) ==
    /\ pc[b] # "idle"
    /\ Forget(b)
    /\ Interrupted(b)
    /\ UNCHANGED <<text, manifest>>

Edit ==
    /\ text' \in Texts \ {text}
    /\ UNCHANGED <<files, holder, pc, request, loaded, stamp>>

RemoveArtifact(f) ==
    /\ artifact[f] # None
    /\ artifact' = [artifact EXCEPT ![f] = None]
    /\ UNCHANGED <<text, ll, manifest, holder, pc, request, loaded, stamp>>

Next ==
    \/ \E b \in Builders :
         \/ \E r \in Requests : acquire_lock(b, r)
         \/ early_build_lookup(b) \/ load_program(b) \/ build_stamp(b) \/ lookup(b)
         \/ compile(b) \/ emit_artifacts(b) \/ link(b) \/ store(b) \/ Record(b) \/ Release(b)
         \/ Crash(b)
    \/ Edit
    \/ \E f \in Files : RemoveArtifact(f)

Spec == Init /\ [][Next]_vars

-----------------------------------------------------------------------------
Contents == Outputs \cup {None, Partial}

TypeOK ==
    /\ text \in Texts
    /\ ll \in Contents /\ artifact \in [Files -> Contents]
    /\ holder \in Builders \cup {None}
    /\ pc \in [Builders -> {"idle", "early", "load", "stamp", "lookup", "compile", "emit",
                            "link", "store", "record", "cached", "built", "failed"}]
    /\ request \in [Builders -> Requests \cup {None}]
    /\ loaded \in [Builders -> Texts \cup {None}]
    /\ stamp \in [Builders -> Stamps \cup {None}]
    /\ manifest # None =>
         manifest \in [request : Stamped, key : Texts, inputs : Texts, early : BOOLEAN,
                       artifacts : [Files -> Outputs \cup {Partial}]]

(* A stored build is one build: all of its artifacts were compiled, to the *)
(* end, for its request and from the sources its key stands for, although  *)
(* requests share the intermediate file, builds fail or are killed and     *)
(* artifacts of an earlier one are left ("Protects intermediate files and  *)
(* the completed artifact stamp as one output transaction", output.rs).    *)
ManifestIsOneBuild ==
    manifest # None =>
        \A f \in Files : manifest.artifacts[f] = Compiled(manifest.request, manifest.key)

(* The sources were edited after they were loaded and before they were     *)
(* hashed for the stamp.                                                   *)
Torn == manifest # None /\ manifest.key # manifest.inputs

(* What a build reports as its result, "a verified earlier build" or a     *)
(* fresh one, was compiled for its request and from the sources it has     *)
(* seen; artifacts may only be missing.  The exception is an early reuse   *)
(* of a torn stored build: its key would tell, but is not compared.        *)
ResultIsCurrent ==
    \A b \in Builders : pc[b] \in {"cached", "built"} =>
        \/ \A f \in Files : artifact[f] \in {None, Compiled(request[b], loaded[b])}
        \/ pc[b] = "cached" /\ stamp[b] = None /\ Torn
=============================================================================
