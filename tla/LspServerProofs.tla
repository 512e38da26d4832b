-------------------------- MODULE LspServerProofs ---------------------------
(***************************************************************************)
(* Proofs about LspServer, for any number of versions, texts, file changes *)
(* and overlapping passes.                                                 *)
(***************************************************************************)
EXTENDS LspServer, TLAPS

Active(p) == step[p] \in {"sleep", "build", "check", "publish"}

(* The newest version on record is the open document's, and the pass       *)
(* scheduled last is for it.                                               *)
PendingIsOpen ==
    /\ document = None => pending = None
    /\ document # None => /\ pending = document.version
                          /\ passes \in Passes /\ job[passes] = document

(* Passes are numbered as they are scheduled.                              *)
Numbered ==
    \A p \in Passes : /\ p > passes => step[p] = "none"
                      /\ p <= passes => step[p] # "none" /\ job[p] # None

(* Texts are new: an older document or analysis has an older version, or   *)
(* the same version and text.                                              *)
NoNewer(m) ==
    /\ m.version <= document.version
    /\ m.version = document.version => m.text = document.text

(* A pass analyzes the version it was scheduled with.                      *)
BuildsOwn == \A p \in Passes : step[p] = "build" => built[p].version = job[p].version

(* Nothing has seen files that do not exist yet.                           *)
SeenDisk ==
    /\ cache # None => cache.disk <= disk
    /\ request # None => request.disk <= disk
    /\ shown # None => shown.disk <= disk
    /\ \A p \in Passes : built[p] # None => built[p].disk <= disk

(* The analyses that may still be stored or are cached are of the open     *)
(* document, and those of its current version are not older than the last  *)
(* change of files that was handled.                                       *)
Fresh(m) ==
    /\ document # None /\ NoNewer(m)
    /\ m.version = document.version => m.disk >= told
CacheFresh == cache # None => Fresh(cache)
RequestFresh ==
    request # None => Fresh(request) /\ request.version = document.version
JobsFresh == \A p \in Passes : Active(p) => document # None /\ NoNewer(job[p])
BuildsFresh == \A p \in Passes : step[p] = "build" => Fresh(built[p])

(* A pass that has its analysis either ends before the newest pass wakes,  *)
(* or its analysis is fresh, and that of the current version if it is      *)
(* going to be published.                                                  *)
Overtaken(p) == p \in before[passes] /\ step[passes] = "sleep"
EndsFresh ==
    \A p \in Passes :
        step[p] \in {"check", "publish"} =>
            \/ Overtaken(p)
            \/ /\ Fresh(built[p]) /\ built[p].version >= job[p].version
               /\ step[p] = "publish" => job[p].version = document.version

(* What the newest pass leaves behind.                                     *)
NewestDone ==
    document # None =>
        /\ step[passes] \in {"check", "publish", "done"} =>
              cache # None /\ cache.version = document.version
        /\ step[passes] = "done" =>
              shown # None /\ Fresh(shown) /\ shown.version = document.version

Calm == /\ CacheFresh /\ RequestFresh /\ JobsFresh /\ BuildsFresh
        /\ EndsFresh /\ NewestDone

IInv == TypeOK /\ PendingIsOpen /\ Numbered /\ SeenDisk /\ BuildsOwn /\ (~raced => Calm)

-----------------------------------------------------------------------------
(* What the type invariant says of each variable. *)
LEMMA Typed ==
  ASSUME IInv
  PROVE  /\ document \in {None} \cup Documents
         /\ disk \in Nat /\ told \in Nat /\ told <= disk
         /\ cache \in {None} \cup Models
         /\ pending \in {None} \cup Versions
         /\ texts \in Nat /\ passes \in Nat
         /\ job \in [Passes -> {None} \cup Documents]
         /\ before \in [Passes -> SUBSET Passes]
         /\ step \in [Passes -> {"none", "sleep", "build", "check", "publish", "done"}]
         /\ built \in [Passes -> {None} \cup Models]
         /\ \A p \in Passes : step[p] \in {"build", "check", "publish"} => built[p] # None
         /\ request \in {None} \cup Models
         /\ shown \in {None} \cup Models
         /\ raced \in BOOLEAN
BY LspAssumption DEF IInv, TypeOK

(* Records hold numbers and are not None. *)
LEMMA Records ==
  /\ \A d \in Documents : d # None /\ d.version \in Versions /\ d.text \in 1..MaxTexts
  /\ \A m \in Models : /\ m # None /\ m.version \in Versions
                       /\ m.text \in 1..MaxTexts /\ m.disk \in 0..MaxDisk
  /\ \A v \in Versions : v \in Nat /\ v # None
  /\ \A p \in Passes : p \in Nat
BY LspAssumption DEF Documents, Models, Versions, Passes

LEMMA InitIInv == Init => IInv
<1> SUFFICES ASSUME Init PROVE IInv
  OBVIOUS
<1>1. TypeOK
  <2>1. MaxTexts \in Nat /\ MaxDisk \in Nat /\ MaxPasses \in Nat
    BY LspAssumption
  <2>2. disk \in 0..MaxDisk /\ told \in 0..disk /\ texts \in 0..MaxTexts /\ passes \in 0..MaxPasses
    BY <2>1 DEF Init
  <2> QED
    BY <2>2 DEF Init, TypeOK
<1>2. PendingIsOpen /\ Numbered /\ SeenDisk /\ BuildsOwn
  BY LspAssumption DEF Init, PendingIsOpen, Numbered, SeenDisk, BuildsOwn, Passes
<1>3. Calm
  BY Records DEF Init, Calm, CacheFresh, RequestFresh, JobsFresh, BuildsFresh,
     EndsFresh, NewestDone, Active
<1> QED
  BY <1>1, <1>2, <1>3 DEF IInv

(* What schedule_diagnostics does: a new pass sleeps, and those that have  *)
(* their analysis are overtaken.                                           *)
LEMMA Scheduled ==
  ASSUME IInv, NEW d \in Documents, schedule_diagnostics(d)
  PROVE  /\ passes' = passes + 1 /\ passes' \in Passes
         /\ step[passes'] = "none"
         /\ pending' = d.version /\ built' = built
         /\ job'[passes'] = d /\ step'[passes'] = "sleep"
         /\ before'[passes'] = {q \in Passes : step[q] \in {"check", "publish"}}
         /\ \A q \in Passes : q # passes' =>
               job'[q] = job[q] /\ step'[q] = step[q] /\ before'[q] = before[q]
         /\ job' \in [Passes -> {None} \cup Documents]
         /\ before' \in [Passes -> SUBSET Passes]
         /\ step' \in [Passes -> {"none", "sleep", "build", "check", "publish", "done"}]
<1>1. passes + 1 \in Passes
  BY Typed, LspAssumption DEF schedule_diagnostics, Passes
<1>2. step[passes + 1] = "none"
  BY <1>1, Typed DEF IInv, Numbered
<1> QED
  BY <1>1, <1>2, Typed DEF schedule_diagnostics

(* A new text, and the pass scheduled for it. *)
LEMMA Opened ==
  ASSUME IInv, NEW v \in Versions, NewDocument(v)
  PROVE  /\ document' \in Documents /\ document'.version = v
         /\ texts' \in 0..MaxTexts
         /\ schedule_diagnostics(document')
<1>1. texts + 1 \in 1..MaxTexts
  BY Typed, LspAssumption DEF NewDocument
<1> QED
  BY <1>1 DEF NewDocument, Documents

(* When no document is open and none of the races happened, nothing is     *)
(* under way.                                                              *)
LEMMA Closed ==
  ASSUME IInv, ~raced, document = None
  PROVE  cache = None /\ request = None /\ \A p \in Passes : ~Active(p)
BY DEF IInv, Calm, CacheFresh, Fresh, RequestFresh, JobsFresh

(* A document is opened while no pass is under way, or raced tells of it. *)
LEMMA Inv_did_open ==
  ASSUME IInv, NEW v \in Versions, did_open(v)
  PROVE  IInv'
<1>0. /\ document' \in Documents /\ document'.version = v /\ texts' \in 0..MaxTexts
      /\ schedule_diagnostics(document')
      /\ UNCHANGED <<disk, told, raced, cache, request, shown>>
  BY Opened DEF did_open
<1>1. TypeOK'
  <2>1. passes' \in 0..MaxPasses /\ pending' \in Versions
    BY <1>0, Scheduled, Records DEF Passes
  <2>2. \A q \in Passes : step'[q] \in {"build", "check", "publish"} => built'[q] # None
    BY <1>0, Scheduled, Typed
  <2> QED
    BY <1>0, <2>1, <2>2, Scheduled DEF IInv, TypeOK
<1>2. PendingIsOpen'
  BY <1>0, Scheduled, Records DEF PendingIsOpen
<1>3. Numbered'
  BY <1>0, Scheduled, Typed, Records DEF IInv, Numbered
<1>4. SeenDisk'
  BY <1>0, Scheduled DEF IInv, SeenDisk
<1>5. BuildsOwn'
  BY <1>0, Scheduled DEF IInv, BuildsOwn
<1>6. ~raced' => Calm'
  <2> SUFFICES ASSUME ~raced' PROVE Calm'
    OBVIOUS
  <2>0. /\ cache = None /\ request = None
        /\ \A q \in Passes : ~Active(q)
    BY <1>0, Closed DEF did_open
  <2>a. \A q \in Passes : q # passes' => step'[q] \in {"none", "done"}
    BY <1>0, <2>0, Scheduled, Typed DEF Active
  <2>1. CacheFresh'
    BY <1>0, <2>0 DEF CacheFresh
  <2>2. RequestFresh'
    BY <1>0, <2>0 DEF RequestFresh
  <2>3. JobsFresh'
    BY <1>0, <2>a, Scheduled, Records DEF JobsFresh, Active, NoNewer
  <2>4. BuildsFresh'
    BY <1>0, <2>a, Scheduled DEF BuildsFresh
  <2>5. EndsFresh'
    BY <1>0, <2>a, Scheduled DEF EndsFresh
  <2>6. NewestDone'
    BY <1>0, Scheduled DEF NewestDone
  <2> QED
    BY <2>1, <2>2, <2>3, <2>4, <2>5, <2>6 DEF Calm
<1> QED
  BY <1>1, <1>2, <1>3, <1>4, <1>5, <1>6 DEF IInv

(* A new version overtakes every pass that has its analysis. *)
LEMMA Inv_did_change ==
  ASSUME IInv, NEW v \in Versions, did_change(v)
  PROVE  IInv'
<1>0. /\ document' \in Documents /\ document'.version = v /\ texts' \in 0..MaxTexts
      /\ schedule_diagnostics(document')
      /\ UNCHANGED <<disk, told, cache, request, shown>>
      /\ raced' = (raced /\ ~Outdated(v)) /\ raced \in BOOLEAN
  BY Opened, Typed DEF did_change
<1>1. TypeOK'
  <2>1. passes' \in 0..MaxPasses /\ pending' \in Versions
    BY <1>0, Scheduled, Records DEF Passes
  <2>2. \A q \in Passes : step'[q] \in {"build", "check", "publish"} => built'[q] # None
    BY <1>0, Scheduled, Typed
  <2> QED
    BY <1>0, <2>1, <2>2, Scheduled DEF IInv, TypeOK
<1>2. PendingIsOpen'
  BY <1>0, Scheduled, Records DEF PendingIsOpen
<1>3. Numbered'
  BY <1>0, Scheduled, Typed, Records DEF IInv, Numbered
<1>4. SeenDisk'
  BY <1>0, Scheduled DEF IInv, SeenDisk
<1>5. BuildsOwn'
  BY <1>0, Scheduled DEF IInv, BuildsOwn
<1>6. ~raced' => Calm'
  <2> SUFFICES ASSUME ~raced' PROVE Calm'
    OBVIOUS
  <2>0. /\ request = None /\ document \in Documents /\ document'.version = v
        /\ document.version < v /\ v \in Nat /\ document.version \in Nat
        /\ (~raced \/ Outdated(v))
    BY <1>0, Typed, Records DEF did_change
  <2>a. (cache # None => cache.version < v)
        /\ \A q \in Passes : Active(q) => job[q].version < v
    <3>1. CASE Outdated(v)
      BY <3>1 DEF Outdated, UnderWay, Active
    <3>2. CASE ~raced
      <4>1. Calm
        BY <3>2 DEF IInv
      <4>2. \A q \in Passes : Active(q) => job[q] \in Documents
        BY Typed, Records DEF IInv, Numbered, Active
      <4>3. cache # None => cache.version <= document.version /\ cache.version \in Nat
        BY <4>1, Typed, Records DEF Calm, CacheFresh, Fresh, NoNewer
      <4>4. \A q \in Passes : Active(q) => /\ job[q].version <= document.version
                                          /\ job[q].version \in Nat
        BY <4>1, <4>2, Records DEF Calm, JobsFresh, NoNewer
      <4> QED
        BY <2>0, <4>3, <4>4, Records
    <3> QED
      BY <2>0, <3>1, <3>2
  <2>b. /\ document' # None
        /\ \A n \in Nat : n < v => n <= document'.version /\ n # document'.version
    BY <1>0, <2>0, Records
  <2>1. CacheFresh'
    <3> SUFFICES ASSUME cache' # None PROVE Fresh(cache)'
      BY DEF CacheFresh
    <3>1. cache' = cache /\ cache.version \in Nat /\ cache.version < v
      BY <1>0, <2>a, Typed, Records
    <3> QED
      BY <2>b, <3>1 DEF Fresh, NoNewer
  <2>2. RequestFresh'
    BY <1>0, <2>0 DEF RequestFresh
  <2>3. JobsFresh'
    <3>1. NoNewer(job[passes])'
      BY <1>0, Scheduled, Records DEF NoNewer
    <3>2. \A q \in Passes : q # passes' /\ Active(q)' => NoNewer(job[q])'
      <4> SUFFICES ASSUME NEW q \in Passes, q # passes', Active(q)' PROVE NoNewer(job[q])'
        OBVIOUS
      <4>1. job'[q] = job[q] /\ Active(q) /\ q <= passes
        BY <1>0, Scheduled, Typed, Records DEF Active, IInv, Numbered
      <4>2. job[q] \in Documents /\ job[q].version < v
        BY <2>a, <4>1, Typed DEF IInv, Numbered
      <4>3. job[q].version \in Nat
        BY <4>2, Records
      <4> QED
        BY <2>b, <4>1, <4>2, <4>3 DEF NoNewer
    <3> QED
      BY <1>0, <3>1, <3>2, Records DEF JobsFresh
  <2>4. BuildsFresh'
    <3> SUFFICES ASSUME NEW q \in Passes, step'[q] = "build"
                 PROVE  Fresh(built[q])'
      BY DEF BuildsFresh
    <3>1. step[q] = "build" /\ built' = built
      BY <1>0, Scheduled
    <3>2. built[q] \in Models /\ built[q].version < v
      BY <2>a, <3>1, Typed DEF IInv, BuildsOwn, Active
    <3>3. built[q].version \in Nat
      BY <3>2, Records
    <3> QED
      BY <2>b, <3>1, <3>2, <3>3 DEF Fresh, NoNewer
  <2>5. EndsFresh'
    BY <1>0, Scheduled DEF EndsFresh, Overtaken
  <2>6. NewestDone'
    BY <1>0, Scheduled DEF NewestDone
  <2> QED
    BY <2>1, <2>2, <2>3, <2>4, <2>5, <2>6 DEF Calm
<1> QED
  BY <1>1, <1>2, <1>3, <1>4, <1>5, <1>6 DEF IInv

(* Closing forgets the document and its cache entry. *)
LEMMA Inv_did_close ==
  ASSUME IInv, did_close
  PROVE  IInv'
<1>1. TypeOK'
  BY Typed, Records, LspAssumption DEF IInv, TypeOK, Numbered, did_close,
     docVars, passVars, Documents, Models, Versions, Passes
<1>2. PendingIsOpen'
  BY Typed, Records DEF IInv, PendingIsOpen, did_close, docVars, passVars
<1>3. Numbered'
  BY Typed, Records, LspAssumption DEF IInv, Numbered, PendingIsOpen, Passes,
     did_close, docVars, passVars
<1>4. SeenDisk'
  BY Typed, Records DEF IInv, SeenDisk, Models, did_close, docVars, passVars
<1>5. BuildsOwn'
  BY DEF IInv, BuildsOwn, did_close, passVars
<1>6. ~raced' => Calm'
  <2> SUFFICES ASSUME ~raced' PROVE Calm'
    OBVIOUS
  <2>0. /\ document' = None /\ cache' = None /\ request' = None
        /\ \A q \in Passes : step'[q] \in {"none", "done"}
    BY Typed DEF did_close, UnderWay, passVars
  <2> QED
    BY <2>0 DEF Calm, CacheFresh, RequestFresh, JobsFresh, BuildsFresh, EndsFresh,
       NewestDone, Active
<1> QED
  BY <1>1, <1>2, <1>3, <1>4, <1>5, <1>6 DEF IInv

(* A file changes before the server hears of it. *)
LEMMA Inv_DiskChange ==
  ASSUME IInv, DiskChange
  PROVE  IInv'
<1>1. TypeOK'
  <2>1. disk' \in 0..MaxDisk /\ told' \in 0..disk'
    BY Typed, LspAssumption DEF IInv, TypeOK, DiskChange
  <2> QED
    BY <2>1 DEF IInv, TypeOK, DiskChange, passVars
<1>2. PendingIsOpen'
  BY Typed, Records DEF IInv, PendingIsOpen, DiskChange, docVars, passVars
<1>3. Numbered'
  BY Typed, Records, LspAssumption DEF IInv, Numbered, PendingIsOpen, Passes,
     DiskChange, docVars, passVars
<1>4. SeenDisk'
  BY Typed, Records DEF IInv, SeenDisk, Models, DiskChange, docVars, passVars
<1>5. BuildsOwn'
  BY DEF IInv, BuildsOwn, DiskChange, passVars
<1>6. ~raced' => Calm'
  <2> SUFFICES ASSUME ~raced' PROVE Calm'
    OBVIOUS
  <2>0. ~raced /\ Calm /\ PendingIsOpen /\ Numbered
    BY DEF IInv, DiskChange, docVars, passVars
  <2>1. CacheFresh'
    BY <2>0, Typed, Records DEF Calm, CacheFresh, Fresh, NoNewer,
       PendingIsOpen, Numbered, DiskChange, docVars, passVars
  <2>2. RequestFresh'
    BY <2>0, Typed, Records DEF Calm, RequestFresh, Fresh, NoNewer,
       PendingIsOpen, Numbered, DiskChange, docVars, passVars
  <2>3. JobsFresh'
    BY <2>0, Typed, Records DEF Calm, JobsFresh, Active, NoNewer,
       PendingIsOpen, Numbered, DiskChange, docVars, passVars
  <2>4. BuildsFresh'
    BY <2>0, Typed, Records DEF Calm, BuildsFresh, Fresh, NoNewer, JobsFresh,
       Active, PendingIsOpen, Numbered, DiskChange, docVars, passVars
  <2>5. EndsFresh'
    BY <2>0, Typed, Records DEF Calm, EndsFresh, Fresh, NoNewer, Overtaken,
       PendingIsOpen, Numbered, DiskChange, docVars, passVars
  <2>6. NewestDone'
    BY <2>0, Typed, Records DEF Calm, NewestDone, Fresh, NoNewer,
       PendingIsOpen, Numbered, DiskChange, docVars, passVars
  <2> QED
    BY <2>1, <2>2, <2>3, <2>4, <2>5, <2>6 DEF Calm
<1> QED
  BY <1>1, <1>2, <1>3, <1>4, <1>5, <1>6 DEF IInv

(* The cache is emptied and a pass scheduled for the same version. *)
LEMMA Inv_did_change_watched_files ==
  ASSUME IInv, did_change_watched_files
  PROVE  IInv'
<1>0. document # None => document \in Documents /\ schedule_diagnostics(document)
  BY Typed DEF did_change_watched_files
<1>1. TypeOK'
  <2>1. told' \in 0..disk'
    BY Typed DEF did_change_watched_files
  <2>2. CASE document = None
    BY <2>1, <2>2, Typed DEF IInv, TypeOK, did_change_watched_files, passVars
  <2>3. CASE document # None
    <3>1. passes' \in 0..MaxPasses /\ pending' \in Versions
      BY <1>0, <2>3, Scheduled, Records DEF Passes
    <3>2. \A q \in Passes : step'[q] \in {"build", "check", "publish"} => built'[q] # None
      BY <1>0, <2>3, Scheduled, Typed
    <3> QED
      BY <1>0, <2>1, <2>3, <3>1, <3>2, Scheduled, Typed DEF IInv, TypeOK,
         did_change_watched_files
  <2> QED
    BY <2>2, <2>3
<1>2. PendingIsOpen'
  BY <1>0, Scheduled DEF IInv, PendingIsOpen, did_change_watched_files, passVars
<1>3. Numbered'
  BY <1>0, Scheduled, Typed, Records DEF IInv, Numbered, did_change_watched_files, passVars
<1>4. SeenDisk'
  BY Typed, Records DEF IInv, SeenDisk, Models, did_change_watched_files,
     schedule_diagnostics, docVars, passVars
<1>5. BuildsOwn'
  BY <1>0, Scheduled DEF IInv, BuildsOwn, did_change_watched_files, passVars
<1>6. ~raced' => Calm'
  <2> SUFFICES ASSUME ~raced' PROVE Calm'
    OBVIOUS
  <2>0. ~raced /\ Calm /\ cache' = None /\ request' = None /\ document' = document
    BY DEF IInv, did_change_watched_files
  <2>a. CASE document = None
    <3>1. \A q \in Passes : ~Active(q)'
      BY <2>0, <2>a, Closed DEF Active, did_change_watched_files, passVars
    <3> QED
      BY <2>0, <2>a, <3>1 DEF Calm, CacheFresh, RequestFresh, JobsFresh, BuildsFresh,
         EndsFresh, NewestDone, Active
  <2>b. CASE document # None
    <3>0. document \in Documents /\ schedule_diagnostics(document)
      BY <1>0, <2>b
    <3>1. CacheFresh' /\ RequestFresh'
      BY <2>0 DEF CacheFresh, RequestFresh
    <3>2. JobsFresh'
      <4> SUFFICES ASSUME NEW q \in Passes, Active(q)' PROVE NoNewer(job[q])'
        BY <2>0, <2>b DEF JobsFresh
      <4>1. CASE q = passes'
        BY <2>0, <3>0, <4>1, Scheduled, Records DEF NoNewer
      <4>2. CASE q # passes'
        <5>1. job'[q] = job[q] /\ Active(q)
          BY <3>0, <4>2, Scheduled DEF Active
        <5> QED
          BY <2>0, <5>1 DEF Calm, JobsFresh, NoNewer
      <4> QED
        BY <4>1, <4>2
    <3>3. BuildsFresh'
      <4> SUFFICES ASSUME NEW q \in Passes, step'[q] = "build"
                   PROVE  Fresh(built[q])'
        BY DEF BuildsFresh
      <4>1. step[q] = "build" /\ built' = built
        BY <3>0, Scheduled
      <4>2. built[q] \in Models /\ Fresh(built[q]) /\ built[q].version = job[q].version
        BY <2>0, <4>1, Typed DEF Calm, BuildsFresh, IInv, BuildsOwn
      <4>3. built[q].version = document.version => built[q].disk >= told'
        <5>1. /\ ~(/\ step[q] = "build" /\ built[q].disk < disk
                   /\ job[q].version = pending)
              /\ told' = disk
          BY Zenon DEF did_change_watched_files
        <5>2. pending = document.version
          BY <2>b DEF IInv, PendingIsOpen
        <5> QED
          BY <4>1, <4>2, <5>1, <5>2, Typed, Records
      <4> QED
        BY <2>0, <4>1, <4>2, <4>3 DEF Fresh, NoNewer
    <3>4. EndsFresh'
      BY <3>0, Scheduled DEF EndsFresh, Overtaken
    <3>5. NewestDone'
      BY <3>0, Scheduled DEF NewestDone
    <3> QED
      BY <3>1, <3>2, <3>3, <3>4, <3>5 DEF Calm
  <2> QED
    BY <2>a, <2>b
<1> QED
  BY <1>1, <1>2, <1>3, <1>4, <1>5, <1>6 DEF IInv

(* A pass takes the cached analysis, analyzes or gives up. *)
LEMMA Inv_Wake ==
  ASSUME IInv, NEW p \in Passes, Wake(p)
  PROVE  IInv'
<1>0. /\ job[p] \in Documents
      /\ [version |-> job[p].version, text |-> job[p].text, disk |-> disk] \in Models
  BY Typed, Records DEF IInv, TypeOK, Wake, Numbered, Documents, Models
<1>1. TypeOK'
  <2>1. built' \in [Passes -> {None} \cup Models]
    BY <1>0, Typed DEF Wake
  <2>2. step' \in [Passes -> {"none", "sleep", "build", "check", "publish", "done"}]
    BY Typed DEF Wake
  <2>3. \A q \in Passes : step'[q] \in {"build", "check", "publish"} => built'[q] # None
    <3> SUFFICES ASSUME NEW q \in Passes, step'[q] \in {"build", "check", "publish"}
                 PROVE  built'[q] # None
      OBVIOUS
    <3>1. CASE q # p
      BY <3>1, Typed DEF Wake
    <3>2. CASE q = p
      BY <3>2, <1>0, Typed, Records DEF Wake, Hit
    <3> QED
      BY <3>1, <3>2
  <2> QED
    BY <2>1, <2>2, <2>3 DEF IInv, TypeOK, Wake, docVars
<1>2. PendingIsOpen'
  BY Typed, Records DEF IInv, PendingIsOpen, Wake, Hit, docVars, passVars
<1>3. Numbered'
  BY Typed, Records, LspAssumption DEF IInv, Numbered, PendingIsOpen, Passes,
     Wake, Hit, docVars, passVars
<1>4. SeenDisk'
  BY Typed, Records DEF IInv, SeenDisk, Models, Wake, Hit, docVars, passVars
<1>5. BuildsOwn'
  BY <1>0, Typed, Records DEF IInv, BuildsOwn, Wake
<1>6. ~raced' => Calm'
  <2> SUFFICES ASSUME ~raced' PROVE Calm'
    OBVIOUS
  <2>0. ~raced /\ Calm /\ PendingIsOpen /\ Numbered
    BY DEF IInv, Wake, Hit, docVars, passVars
  <2>1. CacheFresh'
    BY <2>0, Typed, Records DEF Calm, CacheFresh, Fresh, NoNewer,
       PendingIsOpen, Numbered, Wake, Hit, docVars, passVars
  <2>2. RequestFresh'
    BY <2>0, Typed, Records DEF Calm, RequestFresh, Fresh, NoNewer,
       PendingIsOpen, Numbered, Wake, Hit, docVars, passVars
  <2>3. JobsFresh'
    BY <2>0, Typed, Records DEF Calm, JobsFresh, Active, NoNewer,
       PendingIsOpen, Numbered, Wake, Hit, docVars, passVars
  <2>4. BuildsFresh'
    BY <2>0, Typed, Records DEF Calm, BuildsFresh, Fresh, NoNewer, JobsFresh,
       Active, PendingIsOpen, Numbered, Wake, Hit, docVars, passVars
  <2>5. EndsFresh'
    <3> SUFFICES ASSUME NEW q \in Passes, step'[q] \in {"check", "publish"}
                 PROVE  \/ Overtaken(q)'
                        \/ /\ Fresh(built[q])' /\ built'[q].version >= job'[q].version
                           /\ step'[q] = "publish" => job'[q].version = document'.version
      BY DEF EndsFresh
    <3>1. CASE q = p
      <4>1. /\ cache # None /\ cache.version = job[p].version /\ built'[q] = cache
            /\ step'[q] = "check" /\ UNCHANGED <<document, told, job>>
        BY <3>1, Typed DEF Wake, Hit, docVars
      <4>2. Fresh(cache) /\ cache.version \in Nat
        BY <2>0, <4>1, Typed, Records DEF Calm, CacheFresh
      <4> QED
        BY <3>1, <4>1, <4>2 DEF Fresh, NoNewer
    <3>2. CASE q # p
      <4>1. step[q] = step'[q] /\ built'[q] = built[q] /\ before' = before /\ passes' = passes
            /\ UNCHANGED <<document, told, job>>
        BY <3>2, Typed DEF Wake, docVars
      <4>2. CASE Overtaken(q)
        <5>1. passes # p /\ passes \in Passes
          BY <2>0, <3>2, <4>1, <4>2, Typed DEF Overtaken, Wake, Calm, JobsFresh, Active,
             PendingIsOpen
        <5> QED
          BY <4>1, <4>2, <5>1, Typed DEF Overtaken, Wake
      <4> QED
        BY <2>0, <4>1, <4>2 DEF Calm, EndsFresh, Fresh, NoNewer
    <3> QED
      BY <3>1, <3>2
  <2>6. NewestDone'
    BY <2>0, Typed, Records DEF Calm, NewestDone, Fresh, NoNewer,
       PendingIsOpen, Numbered, Wake, Hit, docVars, passVars
  <2> QED
    BY <2>1, <2>2, <2>3, <2>4, <2>5, <2>6 DEF Calm
<1> QED
  BY <1>1, <1>2, <1>3, <1>4, <1>5, <1>6 DEF IInv

(* An analysis is stored unless a newer one is there. *)
LEMMA Inv_Store ==
  ASSUME IInv, NEW p \in Passes, Store(p)
  PROVE  IInv'
<1>1. TypeOK'
  BY Typed, Records, LspAssumption DEF IInv, TypeOK, Numbered, Store, Stored,
     docVars, passVars, Documents, Models, Versions, Passes
<1>2. PendingIsOpen'
  BY Typed, Records DEF IInv, PendingIsOpen, Store, Stored, docVars, passVars
<1>3. Numbered'
  BY Typed, Records, LspAssumption DEF IInv, Numbered, PendingIsOpen, Passes,
     Store, Stored, docVars, passVars
<1>4. SeenDisk'
  BY Typed, Records DEF IInv, SeenDisk, Models, Store, Stored, docVars,
     passVars
<1>5. BuildsOwn'
  BY Typed DEF IInv, BuildsOwn, Store
<1>6. ~raced' => Calm'
  <2> SUFFICES ASSUME ~raced' PROVE Calm'
    OBVIOUS
  <2>0. ~raced /\ Calm /\ PendingIsOpen /\ Numbered
    BY DEF IInv, Store, Stored, docVars, passVars
  <2>a. /\ built[p] \in Models /\ Fresh(built[p]) /\ built[p].version = job[p].version
        /\ cache' = Stored(built[p]) /\ UNCHANGED <<document, told, job, passes, before>>
    BY <2>0, Typed DEF Store, docVars, Calm, BuildsFresh, IInv, BuildsOwn
  <2>b. /\ cache' \in Models /\ Fresh(cache') /\ cache'.version >= built[p].version
        /\ cache # None => cache'.version >= cache.version
    BY <2>0, <2>a, Typed, Records DEF Stored, Calm, CacheFresh
  <2>1. CacheFresh'
    BY <2>a, <2>b DEF CacheFresh, Fresh, NoNewer
  <2>2. RequestFresh'
    BY <2>0, Typed, Records DEF Calm, RequestFresh, Fresh, NoNewer,
       PendingIsOpen, Numbered, Store, Stored, docVars, passVars
  <2>3. JobsFresh'
    BY <2>0, Typed, Records DEF Calm, JobsFresh, Active, NoNewer,
       PendingIsOpen, Numbered, Store, Stored, docVars, passVars
  <2>4. BuildsFresh'
    BY <2>0, Typed, Records DEF Calm, BuildsFresh, Fresh, NoNewer, JobsFresh,
       Active, PendingIsOpen, Numbered, Store, Stored, docVars, passVars
  <2>5. EndsFresh'
    <3> SUFFICES ASSUME NEW q \in Passes, step'[q] \in {"check", "publish"}
                 PROVE  \/ Overtaken(q)'
                        \/ /\ Fresh(built[q])' /\ built'[q].version >= job'[q].version
                           /\ step'[q] = "publish" => job'[q].version = document'.version
      BY DEF EndsFresh
    <3>1. CASE q = p
      <4>1. built'[q] = cache' /\ step'[q] = "check"
        BY <3>1, Typed DEF Store
      <4> QED
        BY <2>a, <2>b, <3>1, <4>1 DEF Fresh, NoNewer
    <3>2. CASE q # p
      <4>1. step[q] = step'[q] /\ built'[q] = built[q]
        BY <3>2, Typed DEF Store
      <4>2. CASE Overtaken(q)
        <5>1. passes # p
          BY <4>2 DEF Overtaken, Store
        <5> QED
          BY <2>a, <4>2, <5>1, Typed DEF Overtaken, Store
      <4> QED
        BY <2>0, <2>a, <4>1, <4>2 DEF Calm, EndsFresh, Fresh, NoNewer
    <3> QED
      BY <3>1, <3>2
  <2>6. NewestDone'
    <3> SUFFICES ASSUME document # None
                 PROVE  /\ step'[passes] \in {"check", "publish", "done"} =>
                             cache' # None /\ cache'.version = document.version
                        /\ step'[passes] = "done" =>
                             /\ shown' # None /\ Fresh(shown)'
                             /\ shown'.version = document.version
      BY <2>a DEF NewestDone
    <3>1. passes \in Passes /\ job[passes] = document /\ document \in Documents
      BY <2>0, Typed DEF PendingIsOpen
    <3>2. step'[passes] \in {"check", "publish", "done"} => cache'.version >= document.version
      <4>1. CASE passes = p
        BY <2>a, <2>b, <3>1, <4>1, Records
      <4>2. CASE passes # p
        <5>1. step'[passes] = step[passes]
          BY <3>1, <4>2, Typed DEF Store
        <5> QED
          BY <2>0, <2>b, <3>1, <5>1, Typed, Records DEF Calm, NewestDone
      <4> QED
        BY <4>1, <4>2
    <3>3. cache' # None /\ cache'.version <= document.version
      BY <2>b, Records DEF Fresh, NoNewer
    <3>4. step'[passes] = "done" => step[passes] = "done"
      BY <3>1, Typed DEF Store
    <3>5. shown' = shown
      BY DEF Store
    <3> QED
      BY <2>0, <2>a, <2>b, <3>1, <3>2, <3>3, <3>4, <3>5, Records
         DEF Calm, NewestDone, Fresh, NoNewer
  <2> QED
    BY <2>1, <2>2, <2>3, <2>4, <2>5, <2>6 DEF Calm
<1> QED
  BY <1>1, <1>2, <1>3, <1>4, <1>5, <1>6 DEF IInv

(* A pass that was overtaken by a newer version ends here. *)
LEMMA Inv_Check ==
  ASSUME IInv, NEW p \in Passes, Check(p)
  PROVE  IInv'
<1>1. TypeOK'
  BY Typed, Records, LspAssumption DEF IInv, TypeOK, Numbered, Check, docVars,
     passVars, Documents, Models, Versions, Passes
<1>2. PendingIsOpen'
  BY Typed, Records DEF IInv, PendingIsOpen, Check, docVars, passVars
<1>3. Numbered'
  BY Typed, Records, LspAssumption DEF IInv, Numbered, PendingIsOpen, Passes,
     Check, docVars, passVars
<1>4. SeenDisk'
  BY Typed, Records DEF IInv, SeenDisk, Models, Check, docVars, passVars
<1>5. BuildsOwn'
  BY Typed DEF IInv, BuildsOwn, Check
<1>6. ~raced' => Calm'
  <2> SUFFICES ASSUME ~raced' PROVE Calm'
    OBVIOUS
  <2>0. ~raced /\ Calm /\ PendingIsOpen /\ Numbered
    BY DEF IInv, Check, docVars, passVars
  <2>1. CacheFresh'
    BY <2>0, Typed, Records DEF Calm, CacheFresh, Fresh, NoNewer,
       PendingIsOpen, Numbered, Check, docVars, passVars
  <2>2. RequestFresh'
    BY <2>0, Typed, Records DEF Calm, RequestFresh, Fresh, NoNewer,
       PendingIsOpen, Numbered, Check, docVars, passVars
  <2>3. JobsFresh'
    BY <2>0, Typed, Records DEF Calm, JobsFresh, Active, NoNewer,
       PendingIsOpen, Numbered, Check, docVars, passVars
  <2>4. BuildsFresh'
    BY <2>0, Typed, Records DEF Calm, BuildsFresh, Fresh, NoNewer, JobsFresh,
       Active, PendingIsOpen, Numbered, Check, docVars, passVars
  <2>5. EndsFresh'
    BY <2>0, Typed, Records DEF Calm, EndsFresh, Fresh, NoNewer, Overtaken,
       PendingIsOpen, Numbered, Check, docVars, passVars
  <2>6. NewestDone'
    BY <2>0, Typed, Records DEF Calm, NewestDone, Fresh, NoNewer,
       PendingIsOpen, Numbered, Check, docVars, passVars
  <2> QED
    BY <2>1, <2>2, <2>3, <2>4, <2>5, <2>6 DEF Calm
<1> QED
  BY <1>1, <1>2, <1>3, <1>4, <1>5, <1>6 DEF IInv

(* The diagnostics are published under the version of the pass. *)
LEMMA Inv_Publish ==
  ASSUME IInv, NEW p \in Passes, Publish(p)
  PROVE  IInv'
<1>0. /\ built[p] \in Models /\ job[p] \in Documents
      /\ shown' = [version |-> job[p].version, text |-> built[p].text, disk |-> built[p].disk]
      /\ shown' \in Models
  <2>1. built[p] \in Models /\ job[p] \in Documents
    BY Typed, Records DEF Publish, IInv, Numbered
  <2> QED
    BY <2>1, Records DEF Publish, Models
<1>1. TypeOK'
  <2>1. /\ step' \in [Passes -> {"none", "sleep", "build", "check", "publish", "done"}]
        /\ \A q \in Passes : step'[q] # "done" => step'[q] = step[q]
    BY Typed DEF Publish
  <2> QED
    BY <1>0, <2>1 DEF IInv, TypeOK, Publish, docVars
<1>2. PendingIsOpen'
  BY Typed, Records DEF IInv, PendingIsOpen, Publish, docVars, passVars
<1>3. Numbered'
  BY Typed, Records, LspAssumption DEF IInv, Numbered, PendingIsOpen, Passes,
     Publish, docVars, passVars
<1>4. SeenDisk'
  BY <1>0, Records DEF IInv, SeenDisk, Publish, docVars
<1>5. BuildsOwn'
  BY Typed DEF IInv, BuildsOwn, Publish
<1>6. ~raced' => Calm'
  <2> SUFFICES ASSUME ~raced' PROVE Calm'
    OBVIOUS
  <2>0. ~raced /\ Calm /\ PendingIsOpen /\ Numbered
    BY DEF IInv, Publish, docVars, passVars
  <2>1. CacheFresh'
    BY <2>0, Typed, Records DEF Calm, CacheFresh, Fresh, NoNewer,
       PendingIsOpen, Numbered, Publish, docVars, passVars
  <2>2. RequestFresh'
    BY <2>0, Typed, Records DEF Calm, RequestFresh, Fresh, NoNewer,
       PendingIsOpen, Numbered, Publish, docVars, passVars
  <2>3. JobsFresh'
    BY <2>0, Typed, Records DEF Calm, JobsFresh, Active, NoNewer,
       PendingIsOpen, Numbered, Publish, docVars, passVars
  <2>4. BuildsFresh'
    BY <2>0, Typed, Records DEF Calm, BuildsFresh, Fresh, NoNewer, JobsFresh,
       Active, PendingIsOpen, Numbered, Publish, docVars, passVars
  <2>5. EndsFresh'
    BY <2>0, Typed, Records DEF Calm, EndsFresh, Fresh, NoNewer, Overtaken,
       PendingIsOpen, Numbered, Publish, docVars, passVars
  <2>6. NewestDone'
    <3> SUFFICES ASSUME document # None
                 PROVE  /\ step'[passes] \in {"check", "publish", "done"} =>
                             cache' # None /\ cache'.version = document.version
                        /\ step'[passes] = "done" =>
                             /\ shown' # None /\ Fresh(shown)'
                             /\ shown'.version = document.version
      BY DEF NewestDone, Publish, docVars
    <3>1. passes \in Passes /\ job[passes] = document /\ document \in Documents
      BY <2>0, Typed DEF PendingIsOpen
    <3>2. step'[passes] \in {"check", "publish", "done"} =>
            step[passes] \in {"check", "publish", "done"} /\ step[passes] # "sleep"
      BY <3>1, Typed DEF Publish
    <3>3. ASSUME step'[passes] = "done"
          PROVE  Fresh(shown') /\ shown'.version = document.version
      <4>1. Fresh(built[p]) /\ built[p].version >= job[p].version
            /\ job[p].version = document.version
        BY <2>0, <3>2, <3>3 DEF Publish, Calm, EndsFresh, Overtaken
      <4>2. built[p].version = document.version
        BY <1>0, <3>1, <4>1, Records DEF Fresh, NoNewer
      <4> QED
        BY <1>0, <4>1, <4>2 DEF Fresh, NoNewer
    <3>4. UNCHANGED <<document, told, cache>>
      BY DEF Publish, docVars
    <3> QED
      BY <1>0, <2>0, <3>2, <3>3, <3>4, Records DEF Calm, NewestDone, Fresh, NoNewer
  <2> QED
    BY <2>1, <2>2, <2>3, <2>4, <2>5, <2>6 DEF Calm
<1> QED
  BY <1>1, <1>2, <1>3, <1>4, <1>5, <1>6 DEF IInv

(* A request starts to analyze. *)
LEMMA Inv_models_for ==
  ASSUME IInv, models_for
  PROVE  IInv'
<1>1. TypeOK'
  BY Typed, Records, LspAssumption DEF IInv, TypeOK, Numbered, models_for,
     Hit, Current, docVars, passVars, Documents, Models, Versions, Passes
<1>2. PendingIsOpen'
  BY Typed, Records DEF IInv, PendingIsOpen, models_for, Hit, Current,
     docVars, passVars
<1>3. Numbered'
  BY Typed, Records, LspAssumption DEF IInv, Numbered, PendingIsOpen, Passes,
     models_for, Hit, Current, docVars, passVars
<1>4. SeenDisk'
  BY Typed, Records DEF IInv, SeenDisk, Models, models_for, Hit, Current,
     docVars, passVars
<1>5. BuildsOwn'
  BY DEF IInv, BuildsOwn, models_for, passVars
<1>6. ~raced' => Calm'
  <2> SUFFICES ASSUME ~raced' PROVE Calm'
    OBVIOUS
  <2>0. ~raced /\ Calm /\ PendingIsOpen /\ Numbered
    BY DEF IInv, models_for, Hit, Current, docVars, passVars
  <2>1. CacheFresh'
    BY <2>0, Typed, Records DEF Calm, CacheFresh, Fresh, NoNewer,
       PendingIsOpen, Numbered, models_for, Hit, Current, docVars, passVars
  <2>2. RequestFresh'
    BY <2>0, Typed, Records DEF Calm, RequestFresh, Fresh, NoNewer,
       PendingIsOpen, Numbered, models_for, Hit, Current, docVars, passVars
  <2>3. JobsFresh'
    BY <2>0, Typed, Records DEF Calm, JobsFresh, Active, NoNewer,
       PendingIsOpen, Numbered, models_for, Hit, Current, docVars, passVars
  <2>4. BuildsFresh'
    BY <2>0, Typed, Records DEF Calm, BuildsFresh, Fresh, NoNewer, JobsFresh,
       Active, PendingIsOpen, Numbered, models_for, Hit, Current, docVars,
       passVars
  <2>5. EndsFresh'
    BY <2>0, Typed, Records DEF Calm, EndsFresh, Fresh, NoNewer, Overtaken,
       PendingIsOpen, Numbered, models_for, Hit, Current, docVars, passVars
  <2>6. NewestDone'
    BY <2>0, Typed, Records DEF Calm, NewestDone, Fresh, NoNewer,
       PendingIsOpen, Numbered, models_for, Hit, Current, docVars, passVars
  <2> QED
    BY <2>1, <2>2, <2>3, <2>4, <2>5, <2>6 DEF Calm
<1> QED
  BY <1>1, <1>2, <1>3, <1>4, <1>5, <1>6 DEF IInv

(* Its analysis is stored unless a newer one is there. *)
LEMMA Inv_Answer ==
  ASSUME IInv, Answer
  PROVE  IInv'
<1>1. TypeOK'
  BY Typed, Records, LspAssumption DEF IInv, TypeOK, Numbered, Answer, Stored,
     docVars, passVars, Documents, Models, Versions, Passes
<1>2. PendingIsOpen'
  BY Typed, Records DEF IInv, PendingIsOpen, Answer, Stored, docVars, passVars
<1>3. Numbered'
  BY Typed, Records, LspAssumption DEF IInv, Numbered, PendingIsOpen, Passes,
     Answer, Stored, docVars, passVars
<1>4. SeenDisk'
  BY Typed, Records DEF IInv, SeenDisk, Models, Answer, Stored, docVars,
     passVars
<1>5. BuildsOwn'
  BY DEF IInv, BuildsOwn, Answer, passVars
<1>6. ~raced' => Calm'
  <2> SUFFICES ASSUME ~raced' PROVE Calm'
    OBVIOUS
  <2>0. ~raced /\ Calm /\ PendingIsOpen /\ Numbered
    BY DEF IInv, Answer, Stored, docVars, passVars
  <2>a. /\ request \in Models /\ Fresh(request) /\ request.version = document.version
        /\ cache' = Stored(request)
        /\ UNCHANGED <<document, told, job, passes, before, step, built, shown>>
    BY <2>0, Typed DEF Answer, docVars, passVars, Calm, RequestFresh
  <2>b. cache' \in Models /\ Fresh(cache') /\ cache'.version >= document.version
    BY <2>0, <2>a, Typed, Records DEF Stored, Calm, CacheFresh
  <2>1. CacheFresh'
    BY <2>a, <2>b DEF CacheFresh, Fresh, NoNewer
  <2>2. RequestFresh'
    BY <2>0, Typed, Records DEF Calm, RequestFresh, Fresh, NoNewer,
       PendingIsOpen, Numbered, Answer, Stored, docVars, passVars
  <2>3. JobsFresh'
    BY <2>0, Typed, Records DEF Calm, JobsFresh, Active, NoNewer,
       PendingIsOpen, Numbered, Answer, Stored, docVars, passVars
  <2>4. BuildsFresh'
    BY <2>0, Typed, Records DEF Calm, BuildsFresh, Fresh, NoNewer, JobsFresh,
       Active, PendingIsOpen, Numbered, Answer, Stored, docVars, passVars
  <2>5. EndsFresh'
    BY <2>0, Typed, Records DEF Calm, EndsFresh, Fresh, NoNewer, Overtaken,
       PendingIsOpen, Numbered, Answer, Stored, docVars, passVars
  <2>6. NewestDone'
    <3>1. cache' # None /\ (document # None => cache'.version = document.version)
      BY <2>a, <2>b, Typed, Records DEF Fresh, NoNewer
    <3> QED
      BY <2>0, <2>a, <3>1 DEF Calm, NewestDone, Fresh, NoNewer
  <2> QED
    BY <2>1, <2>2, <2>3, <2>4, <2>5, <2>6 DEF Calm
<1> QED
  BY <1>1, <1>2, <1>3, <1>4, <1>5, <1>6 DEF IInv

(* The inductive invariant: every notification, request and step of a pass *)
(* keeps it.                                                               *)
THEOREM Inductive == Spec => []IInv
<1>1. IInv /\ [Next]_vars => IInv'
  <2> SUFFICES ASSUME IInv, [Next]_vars PROVE IInv'
    OBVIOUS
  <2>1. CASE \E v \in Versions : did_open(v) \/ did_change(v)
    BY <2>1, Inv_did_open, Inv_did_change
  <2>2. CASE did_close \/ DiskChange \/ did_change_watched_files
    BY <2>2, Inv_did_close, Inv_DiskChange, Inv_did_change_watched_files
  <2>3. CASE models_for \/ Answer
    BY <2>3, Inv_models_for, Inv_Answer
  <2>4. CASE \E p \in Passes : PassStep(p)
    BY <2>4, Inv_Wake, Inv_Store, Inv_Check, Inv_Publish DEF PassStep
  <2>5. CASE UNCHANGED vars
    BY <2>5 DEF vars, docVars, passVars, IInv, TypeOK, PendingIsOpen, Numbered,
       SeenDisk, BuildsOwn, Calm, CacheFresh, RequestFresh, JobsFresh, BuildsFresh,
       EndsFresh, NewestDone, Fresh, NoNewer, Active, Overtaken
  <2> QED
    BY <2>1, <2>2, <2>3, <2>4, <2>5 DEF Next
<1> QED
  BY InitIInv, <1>1, PTL DEF Spec

(* The state of the server keeps its types: in particular a pass that is   *)
(* going to store or publish has an analysis (Backend's maps and the tasks *)
(* of schedule_diagnostics).                                               *)
THEOREM TypeCorrect == Spec => []TypeOK
<1>1. IInv => TypeOK
  BY DEF IInv
<1> QED
  BY <1>1, Inductive, PTL

(* Unless one of the two named races happened and has not healed since, a  *)
(* quiet server has published the diagnostics of the current text and      *)
(* files, and caches nothing else, however passes, requests and edits      *)
(* overlapped (schedule_diagnostics and shared_models).                    *)
THEOREM DiagnosticsCurrent == Spec => []QuietIsCurrent
<1>1. IInv => QuietIsCurrent
  <2> SUFFICES ASSUME IInv, Quiet, ~raced, document # None
               PROVE  shown = Current /\ cache \in {None, Current}
    BY DEF QuietIsCurrent
  <2>1. step[passes] = "done" /\ Calm
    BY Records DEF IInv, Quiet, UnderWay, PendingIsOpen, Numbered
  <2>2. shown \in Models /\ document \in Documents /\ shown.disk = disk
    BY <2>1, Typed, Records DEF IInv, SeenDisk, Calm, NewestDone, Fresh, Quiet
  <2>3. shown = Current
    BY <2>1, <2>2 DEF Calm, NewestDone, Fresh, NoNewer, Current, Models, Documents
  <2>4. cache \in Models /\ cache.disk = disk
    BY <2>1, Typed, Records DEF IInv, SeenDisk, Calm, NewestDone, CacheFresh, Fresh, Quiet
  <2>5. cache = Current
    BY <2>1, <2>2, <2>4 DEF Calm, NewestDone, CacheFresh, Fresh, NoNewer, Current, Models,
       Documents
  <2> QED
    BY <2>3, <2>5
<1> QED
  BY <1>1, Inductive, PTL

=============================================================================
