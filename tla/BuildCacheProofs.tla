-------------------------- MODULE BuildCacheProofs --------------------------
(***************************************************************************)
(* Proofs about BuildCache, for any number of invocations, requests and    *)
(* source texts.                                                           *)
(***************************************************************************)
EXTENDS BuildCache, TLAPS

(* The output lock admits one invocation. *)
Locked == \A b \in Builders : pc[b] # "idle" => holder = b

Loaded == {"stamp", "lookup", "compile", "emit", "link", "store", "record", "built", "cached"}

(* What an invocation knows about its request, its sources and its stamp. *)
Known ==
    \A b \in Builders :
        /\ pc[b] # "idle" => request[b] \in Requests
        /\ pc[b] \in {"idle", "early", "load", "stamp"} => stamp[b] = None
        /\ pc[b] \in Loaded => loaded[b] \in Texts
        /\ pc[b] \in Loaded /\ stamp[b] # None =>
             stamp[b].request = request[b] /\ stamp[b].key = loaded[b]
        /\ pc[b] \in {"store", "record"} => stamp[b] # None

(* What it finds on disk while it has the lock: its own files, or those of *)
(* the stored build it verified.                                           *)
Mine(b, f) == artifact[f] \in {None, Output(b)}
Verified(b) ==
    /\ manifest # None
    /\ manifest.request = request[b] /\ manifest.inputs = loaded[b]
    /\ \A f \in Files : artifact[f] \in {None, manifest.artifacts[f]}

OnDisk ==
    \A b \in Builders :
        /\ pc[b] = "link" => ll = Output(b) /\ Mine(b, "abi")
        /\ pc[b] \in {"store", "record", "built"} => \A f \in Files : Mine(b, f)
        /\ pc[b] = "cached" => IF stamp[b] = None THEN Verified(b)
                                                  ELSE \A f \in Files : Mine(b, f)

IInv == TypeOK /\ Locked /\ Known /\ OnDisk /\ ManifestIsOneBuild

-----------------------------------------------------------------------------
(* While one invocation works all others are idle. *)
LEMMA Alone ==
  ASSUME IInv, NEW b \in Builders, pc[b] # "idle", NEW c \in Builders, c # b
  PROVE  pc[c] = "idle"
BY DEF IInv, Locked

LEMMA Typed ==
  ASSUME IInv
  PROVE  /\ text \in Texts /\ artifact \in [Files -> Contents]
         /\ pc \in [Builders -> {"idle", "early", "load", "stamp", "lookup", "compile", "emit",
                                 "link", "store", "record", "cached", "built", "failed"}]
         /\ request \in [Builders -> Requests \cup {None}]
         /\ loaded \in [Builders -> Texts \cup {None}]
         /\ stamp \in [Builders -> Stamps \cup {None}]
BY DEF IInv, TypeOK

LEMMA OutputTyped ==
  ASSUME IInv, NEW b \in Builders, pc[b] \in Loaded
  PROVE  Output(b) \in Outputs
BY DEF IInv, Known, Loaded, Output, Compiled, Outputs

(* The lock is taken while everybody is idle. *)
LEMMA Inv_acquire_lock ==
  ASSUME IInv, NEW b \in Builders, NEW r \in Requests, acquire_lock(b, r)
  PROVE  IInv'
<1>1. TypeOK'
  BY Typed DEF IInv, TypeOK, acquire_lock, Goto, files
<1>0. \A c \in Builders : pc[c] = "idle"
  BY CacheAssumption DEF IInv, Locked, acquire_lock
<1>2. Locked'
  BY <1>0, Typed DEF acquire_lock, Goto, Locked
<1>3. Known'
  <2>1. \A c \in Builders \ {b} : pc'[c] = "idle"
    BY <1>0, Typed DEF acquire_lock, Goto
  <2>2. pc'[b] = "early" /\ request'[b] = r /\ stamp' = stamp
    BY Typed DEF acquire_lock, Goto
  <2>3. \A c \in Builders : stamp[c] = None
    BY <1>0 DEF IInv, Known
  <2> QED
    BY <2>1, <2>2, <2>3 DEF Known, Loaded
<1>4. OnDisk'
  BY Typed, Alone DEF IInv, OnDisk, Mine, Verified, Output, acquire_lock,
     Goto, files
<1>5. ManifestIsOneBuild'
  BY DEF IInv, ManifestIsOneBuild, acquire_lock, files
<1> QED
  BY <1>1, <1>2, <1>3, <1>4, <1>5 DEF IInv

(* A hit verifies the stored build before anything is loaded. *)
LEMMA Inv_early_build_lookup ==
  ASSUME IInv, NEW b \in Builders, early_build_lookup(b)
  PROVE  IInv'
<1>1. TypeOK'
  BY Typed DEF IInv, TypeOK, early_build_lookup, Goto, files
<1>2. Locked'
  BY Typed DEF IInv, Locked, early_build_lookup, Goto
<1>3. Known'
  BY Typed, Alone DEF IInv, Known, Loaded, early_build_lookup, Goto
<1>4. OnDisk'
  BY Typed, Alone DEF IInv, OnDisk, Mine, Verified, Output,
     early_build_lookup, Goto, files, EarlyHit, input_hash, request_key,
     reuse, Known
<1>5. ManifestIsOneBuild'
  BY DEF IInv, ManifestIsOneBuild, early_build_lookup, files
<1> QED
  BY <1>1, <1>2, <1>3, <1>4, <1>5 DEF IInv

(* Loading changes only what the invocation knows. *)
LEMMA Inv_load_program ==
  ASSUME IInv, NEW b \in Builders, load_program(b)
  PROVE  IInv'
<1>1. TypeOK'
  BY Typed DEF IInv, TypeOK, load_program, Goto, files
<1>2. Locked'
  BY Typed DEF IInv, Locked, load_program, Goto
<1>3. Known'
  BY Typed, Alone DEF IInv, Known, Loaded, load_program, Goto
<1>4. OnDisk'
  BY Typed, Alone DEF IInv, OnDisk, Mine, Verified, Output, load_program,
     Goto, files
<1>5. ManifestIsOneBuild'
  BY DEF IInv, ManifestIsOneBuild, load_program, files
<1> QED
  BY <1>1, <1>2, <1>3, <1>4, <1>5 DEF IInv

(* The stamp is of the request and of the text that was loaded. *)
LEMMA Inv_build_stamp ==
  ASSUME IInv, NEW b \in Builders, build_stamp(b)
  PROVE  IInv'
<1>1. TypeOK'
  <2>1. request[b] \in Requests /\ loaded[b] \in Texts /\ text \in Texts
    BY Typed DEF IInv, Known, Loaded, build_stamp
  <2>2. request[b] \in Stamped =>
          [request |-> request[b], key |-> loaded[b], inputs |-> text,
           early |-> request[b] \in Early] \in Stamps
    BY <2>1 DEF Stamps
  <2>3. stamp' \in [Builders -> Stamps \cup {None}]
    BY <2>2, Typed DEF build_stamp, input_hash, request_key
  <2> QED
    BY <2>3, Typed DEF IInv, TypeOK, build_stamp, Goto, files
<1>2. Locked'
  BY Typed DEF IInv, Locked, build_stamp, Goto
<1>3. Known'
  BY Typed, Alone DEF IInv, Known, Loaded, build_stamp, Goto, input_hash,
     request_key
<1>4. OnDisk'
  BY Typed, Alone DEF IInv, OnDisk, Mine, Verified, Output, build_stamp, Goto,
     files
<1>5. ManifestIsOneBuild'
  BY DEF IInv, ManifestIsOneBuild, build_stamp, files
<1> QED
  BY <1>1, <1>2, <1>3, <1>4, <1>5 DEF IInv

(* A hit has the key of the loaded text, so the artifacts are of it. *)
LEMMA Inv_lookup ==
  ASSUME IInv, NEW b \in Builders, lookup(b)
  PROVE  IInv'
<1>1. TypeOK'
  BY Typed DEF IInv, TypeOK, lookup, Goto, files
<1>2. Locked'
  BY Typed DEF IInv, Locked, lookup, Goto
<1>3. Known'
  BY Typed, Alone DEF IInv, Known, Loaded, lookup, Goto
<1>4. OnDisk'
  BY Typed, Alone DEF IInv, OnDisk, Mine, Verified, Output, lookup, Goto,
     files, Hit, reuse, Compiled, ManifestIsOneBuild, Known, Loaded
<1>5. ManifestIsOneBuild'
  BY DEF IInv, ManifestIsOneBuild, lookup, files
<1> QED
  BY <1>1, <1>2, <1>3, <1>4, <1>5 DEF IInv

(* Compilation stays in memory. *)
LEMMA Inv_compile ==
  ASSUME IInv, NEW b \in Builders, compile(b)
  PROVE  IInv'
<1>1. TypeOK'
  BY Typed DEF IInv, TypeOK, compile, Goto, files
<1>2. Locked'
  BY Typed DEF IInv, Locked, compile, Goto
<1>3. Known'
  BY Typed, Alone DEF IInv, Known, Loaded, compile, Goto
<1>4. OnDisk'
  BY Typed, Alone DEF IInv, OnDisk, Mine, Verified, Output, compile, Goto,
     files
<1>5. ManifestIsOneBuild'
  BY DEF IInv, ManifestIsOneBuild, compile, files
<1> QED
  BY <1>1, <1>2, <1>3, <1>4, <1>5 DEF IInv

(* The ABI and the intermediate file become this build's own. *)
LEMMA Inv_emit_artifacts ==
  ASSUME IInv, NEW b \in Builders, emit_artifacts(b)
  PROVE  IInv'
<1>1. TypeOK'
  <2>1. Output(b) \in Contents /\ Partial \in Contents
    BY OutputTyped DEF Contents, Loaded, emit_artifacts
  <2>2. ll' \in Contents /\ artifact' \in [Files -> Contents]
    BY <2>1, Typed DEF IInv, TypeOK, emit_artifacts, Interrupted
  <2> QED
    BY <2>2, Typed DEF IInv, TypeOK, emit_artifacts, Goto
<1>2. Locked'
  BY Typed DEF IInv, Locked, emit_artifacts, Goto
<1>3. Known'
  BY Typed, Alone DEF IInv, Known, Loaded, emit_artifacts, Goto
<1>4. OnDisk'
  BY Typed, Alone DEF IInv, OnDisk, Mine, Verified, Output, emit_artifacts,
     Goto, files, Interrupted, Files
<1>5. ManifestIsOneBuild'
  BY DEF IInv, ManifestIsOneBuild, emit_artifacts, files
<1> QED
  BY <1>1, <1>2, <1>3, <1>4, <1>5 DEF IInv

(* The binary is linked from this build's own intermediate file. *)
LEMMA Inv_link ==
  ASSUME IInv, NEW b \in Builders, link(b)
  PROVE  IInv'
<1>1. TypeOK'
  BY Typed DEF IInv, TypeOK, link, Goto, files, Interrupted, Contents
<1>2. Locked'
  BY Typed DEF IInv, Locked, link, Goto
<1>3. Known'
  BY Typed, Alone DEF IInv, Known, Loaded, link, Goto
<1>4. OnDisk'
  BY Typed, Alone DEF IInv, OnDisk, Mine, Verified, Output, link, Goto, files,
     Interrupted, Files
<1>5. ManifestIsOneBuild'
  BY DEF IInv, ManifestIsOneBuild, link, files
<1> QED
  BY <1>1, <1>2, <1>3, <1>4, <1>5 DEF IInv

(* A changed input forgets the stored build. *)
LEMMA Inv_store ==
  ASSUME IInv, NEW b \in Builders, store(b)
  PROVE  IInv'
<1>1. TypeOK'
  BY Typed DEF IInv, TypeOK, store, Goto, files
<1>2. Locked'
  BY Typed DEF IInv, Locked, store, Goto
<1>3. Known'
  BY Typed, Alone DEF IInv, Known, Loaded, store, Goto
<1>4. OnDisk'
  BY Typed, Alone DEF IInv, OnDisk, Mine, Verified, Output, store, Goto, files
<1>5. ManifestIsOneBuild'
  BY DEF IInv, ManifestIsOneBuild, store, files
<1> QED
  BY <1>1, <1>2, <1>3, <1>4, <1>5 DEF IInv

(* The artifacts that are recorded are this build's own. *)
LEMMA Inv_Record ==
  ASSUME IInv, NEW b \in Builders, Record(b)
  PROVE  IInv'
<1>0. manifest' # None =>
        /\ manifest' = StoredBuild(b) /\ stamp[b] \in Stamps
        /\ stamp[b].request = request[b] /\ stamp[b].key = loaded[b]
        /\ \A f \in Files : artifact[f] = Output(b)
        /\ Output(b) \in Outputs
  BY Typed, OutputTyped DEF IInv, Record, Known, OnDisk, Mine, Loaded
<1>1. TypeOK'
  <2>1. manifest' # None =>
          /\ artifact \in [Files -> Outputs \cup {Partial}]
          /\ stamp[b].request \in Stamped /\ stamp[b].key \in Texts
          /\ stamp[b].inputs \in Texts /\ stamp[b].early \in BOOLEAN
    BY <1>0, Typed DEF Stamps
  <2>2. manifest' # None =>
          manifest' \in [request : Stamped, key : Texts, inputs : Texts, early : BOOLEAN,
                        artifacts : [Files -> Outputs \cup {Partial}]]
    BY <1>0, <2>1 DEF StoredBuild
  <2> QED
    BY <2>2, Typed DEF IInv, TypeOK, Record, Goto
<1>2. Locked'
  BY Typed DEF IInv, Locked, Record, Goto
<1>3. Known'
  BY Typed, Alone DEF IInv, Known, Loaded, Record, Goto
<1>4. OnDisk'
  BY Typed, Alone DEF IInv, OnDisk, Mine, Verified, Output, Record, Goto,
     files
<1>5. ManifestIsOneBuild'
  BY <1>0 DEF ManifestIsOneBuild, StoredBuild, Output
<1> QED
  BY <1>1, <1>2, <1>3, <1>4, <1>5 DEF IInv

(* The lock is given back. *)
LEMMA Inv_Release ==
  ASSUME IInv, NEW b \in Builders, Release(b)
  PROVE  IInv'
<1>1. TypeOK'
  BY Typed DEF IInv, TypeOK, Release, Forget, Goto, files
<1>2. Locked'
  BY Typed DEF IInv, Locked, Release, Forget, Goto
<1>3. Known'
  BY Typed, Alone DEF IInv, Known, Loaded, Release, Forget, Goto
<1>4. OnDisk'
  BY Typed, Alone DEF IInv, OnDisk, Mine, Verified, Output, Release, Forget,
     Goto, files
<1>5. ManifestIsOneBuild'
  BY DEF IInv, ManifestIsOneBuild, Release, files
<1> QED
  BY <1>1, <1>2, <1>3, <1>4, <1>5 DEF IInv

(* A killed invocation leaves files behind but no claim about them. *)
LEMMA Inv_Crash ==
  ASSUME IInv, NEW b \in Builders, Crash(b)
  PROVE  IInv'
<1>1. TypeOK'
  <2>1. Partial \in Contents /\ (pc[b] = "emit" => Output(b) \in Contents)
    BY OutputTyped DEF Contents, Loaded
  <2>2. ll' \in Contents /\ artifact' \in [Files -> Contents]
    BY <2>1, Typed DEF IInv, TypeOK, Crash, Interrupted
  <2> QED
    BY <2>2, Typed DEF IInv, TypeOK, Crash, Forget, Goto
<1>2. Locked'
  BY Typed DEF IInv, Locked, Crash, Forget, Goto
<1>3. Known'
  BY Typed, Alone DEF IInv, Known, Loaded, Crash, Forget, Goto
<1>4. OnDisk'
  BY Typed, Alone DEF IInv, OnDisk, Mine, Verified, Output, Crash, Forget,
     Goto, files
<1>5. ManifestIsOneBuild'
  BY DEF IInv, ManifestIsOneBuild, Crash, files
<1> QED
  BY <1>1, <1>2, <1>3, <1>4, <1>5 DEF IInv

(* Nothing an invocation relies on is the text on disk. *)
LEMMA Inv_Edit ==
  ASSUME IInv, Edit
  PROVE  IInv'
<1>1. TypeOK'
  BY Typed DEF IInv, TypeOK, Edit, files
<1>2. Locked'
  BY Typed DEF IInv, Locked, Edit
<1>3. Known'
  BY Typed, Alone DEF IInv, Known, Loaded, Edit
<1>4. OnDisk'
  BY Typed, Alone DEF IInv, OnDisk, Mine, Verified, Output, Edit, files
<1>5. ManifestIsOneBuild'
  BY DEF IInv, ManifestIsOneBuild, Edit, files
<1> QED
  BY <1>1, <1>2, <1>3, <1>4, <1>5 DEF IInv

(* An artifact may be missing at any time. *)
LEMMA Inv_RemoveArtifact ==
  ASSUME IInv, NEW f \in Files, RemoveArtifact(f)
  PROVE  IInv'
<1>1. TypeOK'
  BY Typed DEF IInv, TypeOK, RemoveArtifact, files, Contents
<1>2. Locked'
  BY Typed DEF IInv, Locked, RemoveArtifact
<1>3. Known'
  BY Typed, Alone DEF IInv, Known, Loaded, RemoveArtifact
<1>4. OnDisk'
  BY Typed, Alone DEF IInv, OnDisk, Mine, Verified, Output, RemoveArtifact,
     files
<1>5. ManifestIsOneBuild'
  BY DEF IInv, ManifestIsOneBuild, RemoveArtifact, files
<1> QED
  BY <1>1, <1>2, <1>3, <1>4, <1>5 DEF IInv

-----------------------------------------------------------------------------
LEMMA InitInv ==
  ASSUME Init
  PROVE  IInv
<1>1. TypeOK
  BY DEF Init, TypeOK, Contents
<1> QED
  BY <1>1 DEF Init, IInv, Locked, Known, Loaded, OnDisk, ManifestIsOneBuild

LEMMA NextInv ==
  ASSUME IInv, [Next]_vars
  PROVE  IInv'
<1>1. ASSUME NEW b \in Builders,
             \/ \E r \in Requests : acquire_lock(b, r)
             \/ early_build_lookup(b) \/ load_program(b) \/ build_stamp(b) \/ lookup(b)
             \/ compile(b) \/ emit_artifacts(b) \/ link(b) \/ store(b) \/ Record(b) \/ Release(b)
             \/ Crash(b)
      PROVE  IInv'
  BY <1>1, Inv_acquire_lock, Inv_early_build_lookup, Inv_load_program, Inv_build_stamp,
     Inv_lookup, Inv_compile, Inv_emit_artifacts, Inv_link, Inv_store, Inv_Record,
     Inv_Release, Inv_Crash
<1>2. CASE Edit
  BY <1>2, Inv_Edit
<1>3. CASE \E f \in Files : RemoveArtifact(f)
  BY <1>3, Inv_RemoveArtifact
<1>4. CASE UNCHANGED vars
  BY <1>4 DEF vars, files, IInv, TypeOK, Locked, Known, OnDisk, Mine, Verified, Output,
     ManifestIsOneBuild
<1> QED
  BY <1>1, <1>2, <1>3, <1>4 DEF Next

(* The lock makes what an invocation knows and what it finds on disk agree.  *)
THEOREM Inductive == Spec => []IInv
<1>1. Init => IInv
  BY InitInv
<1>2. IInv /\ [Next]_vars => IInv'
  BY NextInv
<1> QED
  BY <1>1, <1>2, PTL DEF Spec

(* Files, stamps and the stored build of BuildStamp::store keep their types.  *)
THEOREM TypeCorrect == Spec => []TypeOK
<1>1. IInv => TypeOK
  BY DEF IInv
<1> QED
  BY <1>1, Inductive, PTL

(* What BuildStamp::store recorded is one whole build, whatever failed or was *)
(* killed before.                                                             *)
THEOREM StoredBuildWhole == Spec => []ManifestIsOneBuild
<1>1. IInv => ManifestIsOneBuild
  BY DEF IInv
<1> QED
  BY <1>1, Inductive, PTL

(* What an invocation reports, from either lookup or after linking, was      *)
(* compiled for its request from the sources it saw, unless an early lookup  *)
(* reused a stored build that is torn.                                       *)
THEOREM ReportsCurrent == Spec => []ResultIsCurrent
<1>1. IInv => ResultIsCurrent
  <2> SUFFICES ASSUME IInv, NEW b \in Builders, pc[b] \in {"cached", "built"}
               PROVE  \/ \A f \in Files : artifact[f] \in {None, Compiled(request[b], loaded[b])}
                      \/ pc[b] = "cached" /\ stamp[b] = None /\ Torn
    BY DEF ResultIsCurrent
  <2>1. CASE pc[b] = "built" \/ stamp[b] # None
    BY <2>1 DEF IInv, OnDisk, Mine, Output
  <2>2. CASE pc[b] = "cached" /\ stamp[b] = None
    <3>1. Verified(b)
      BY <2>2 DEF IInv, OnDisk
    <3>2. CASE manifest.key # manifest.inputs
      BY <2>2, <3>1, <3>2 DEF Verified, Torn
    <3>3. CASE manifest.key = manifest.inputs
      <4>1. \A f \in Files : manifest.artifacts[f] = Compiled(request[b], loaded[b])
        BY <3>1, <3>3 DEF IInv, ManifestIsOneBuild, Verified
      <4> QED
        BY <3>1, <4>1 DEF Verified
    <3> QED
      BY <3>2, <3>3
  <2> QED
    BY <2>1, <2>2
<1> QED
  BY <1>1, Inductive, PTL
=============================================================================
