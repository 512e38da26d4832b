----------------------------- MODULE LspServer -----------------------------
(***************************************************************************)
(* The language server's handling of one open document: the notifications  *)
(* that change it, the debounced diagnostics passes, the requests that     *)
(* need its symbol index, and the index cache that all of them share.      *)
(* Notifications and requests are handled one at a time: only a change of  *)
(* watched files awaits anything, the lock of the workspace cache, which   *)
(* nobody keeps across an await and which guards nothing modelled here.    *)
(* The passes are tasks of their own, which look the cache up, analyze and *)
(* store in parallel with everything else.  An analysis is modelled by     *)
(* what it saw: a version, a text and the state of the imported files on   *)
(* disk.  It is assumed not to panic.                                      *)
(***************************************************************************)
EXTENDS Integers, FiniteSets

CONSTANTS MaxVersion,  \* bound on the versions of a document
          MaxTexts,    \* bound on the texts it takes, numbered in order
          MaxDisk,     \* bound on the changes of imported files
          MaxPasses,   \* bound on the diagnostics passes, numbered in order
          None

Versions == 1..MaxVersion
Passes == 1..MaxPasses

(* An open document, and what an analysis of it depends on.                *)
Documents == [version : Versions, text : 1..MaxTexts]
Models == [version : Versions, text : 1..MaxTexts, disk : 0..MaxDisk]

ASSUME LspAssumption ==
    /\ {MaxVersion, MaxTexts, MaxDisk, MaxPasses} \subseteq Nat
    /\ None \notin Int \cup Documents \cup Models

VARIABLES
    document,  \* Backend.documents: version and text, or None when closed
    disk,      \* state of the imported files
    told,      \* the state of them the server has been notified of
    cache,     \* Backend.index_cache for the document
    pending,   \* Backend.pending_diagnostics for it
    texts,     \* texts used so far
    passes,    \* passes scheduled so far
    job,       \* version and text a pass was scheduled with
    before,    \* the passes that were about to publish at that moment
    step,      \* where a pass is
    built,     \* what a pass analyzed or found
    request,   \* what a request that must rebuild analyzes
    shown,     \* the diagnostics published last
    raced      \* a pass outlived its document, or was analyzing the newest
               \* version from older files when a change of them was handled,
               \* and no later event has made what it leaves behind harmless

docVars == <<document, disk, told, texts, raced>>
passVars == <<passes, job, before, step, built>>
vars == <<docVars, cache, pending, passVars, request, shown>>

Init ==
    /\ document = None /\ disk = 0 /\ told = 0
    /\ cache = None /\ pending = None
    /\ texts = 0 /\ passes = 0
    /\ job = [p \in Passes |-> None]
    /\ before = [p \in Passes |-> {}]
    /\ step = [p \in Passes |-> "none"]
    /\ built = [p \in Passes |-> None]
    /\ request = None /\ shown = None
    /\ raced = FALSE

Current == [version |-> document.version, text |-> document.text, disk |-> disk]

UnderWay(p) == step[p] \notin {"none", "done"}

(* Nothing cached and no pass under way is for version v or a newer one.   *)
Outdated(v) ==
    /\ cache # None => cache.version < v
    /\ \A p \in Passes : UnderWay(p) => job[p].version < v

-----------------------------------------------------------------------------
(* Notifications.                                                          *)
(* schedule_diagnostics: the newest version is remembered and a pass set   *)
(* to sleep for the debounce.                                              *)
schedule_diagnostics(doc) ==
    /\ passes < MaxPasses
    /\ passes' = passes + 1
    /\ pending' = doc.version
    /\ job' = [job EXCEPT ![passes + 1] = doc]
    /\ before' = [before EXCEPT ![passes + 1] =
                     {q \in Passes : step[q] \in {"check", "publish"}}]
    /\ step' = [step EXCEPT ![passes + 1] = "sleep"]
    /\ UNCHANGED built

NewDocument(v) ==
    /\ texts < MaxTexts
    /\ texts' = texts + 1
    /\ document' = [version |-> v, text |-> texts + 1]
    /\ schedule_diagnostics([version |-> v, text |-> texts + 1])

did_open(v) ==
    /\ request = None /\ document = None
    /\ NewDocument(v)
    /\ UNCHANGED <<disk, told, raced, cache, request, shown>>

(* Versions grow while the document stays open.                            *)
did_change(v) ==
    /\ request = None /\ document # None
    /\ v > document.version
    /\ NewDocument(v)
    /\ raced' = (raced /\ ~Outdated(v))
    /\ UNCHANGED <<disk, told, cache, request, shown>>

did_close ==
    /\ request = None /\ document # None
    /\ document' = None /\ cache' = None /\ pending' = None
    /\ raced' = \E p \in Passes : UnderWay(p)
    /\ UNCHANGED <<disk, told, texts, passVars, request, shown>>

DiskChange ==
    /\ disk < MaxDisk
    /\ disk' = disk + 1
    /\ UNCHANGED <<document, told, texts, raced, cache, pending, passVars, request, shown>>

(* Every cached model is dropped and every open document scheduled again.  *)
did_change_watched_files ==
    /\ request = None /\ told # disk
    /\ told' = disk
    /\ cache' = None
    /\ IF document = None THEN UNCHANGED <<pending, passVars>>
                          ELSE schedule_diagnostics(document)
    /\ raced' = \/ raced
                \/ \E p \in Passes : /\ step[p] = "build" /\ built[p].disk < disk
                                     /\ job[p].version = pending
    /\ UNCHANGED <<document, disk, texts, request, shown>>

-----------------------------------------------------------------------------
(* shared_models: a lookup, the analysis without any lock, and an entry    *)
(* that an older analysis does not replace.                                *)

\* Mutant of Hit: a missing entry counts as one.
hit_without_entry(v) == cache = None \/ cache.version = v

Hit(v) == cache # None /\ cache.version = v

Stored(m) == IF cache # None /\ cache.version >= m.version THEN cache ELSE m

\* Mutant of Wake: the debounce starts again while another pass sleeps.
wake_alone(p) ==
    /\ step[p] = "sleep"
    /\ \A q \in Passes \ {p} : step[q] # "sleep"
    /\ \A q \in before[p] : step[q] = "done"
    /\ IF pending # job[p].version
       THEN step' = [step EXCEPT ![p] = "done"] /\ UNCHANGED built
       ELSE IF Hit(job[p].version)
       THEN /\ built' = [built EXCEPT ![p] = cache]
            /\ step' = [step EXCEPT ![p] = "check"]
       ELSE /\ built' = [built EXCEPT ![p] =
                           [version |-> job[p].version, text |-> job[p].text, disk |-> disk]]
            /\ step' = [step EXCEPT ![p] = "build"]
    /\ UNCHANGED <<docVars, cache, pending, passes, job, before, request, shown>>

(* A pass wakes.  The debounce is long compared with the end of a pass,    *)
(* one lookup and the sending of a message: a pass that had its analysis   *)
(* when this one was scheduled has ended by now.                           *)
Wake(p) ==
    /\ step[p] = "sleep"
    /\ \A q \in before[p] : step[q] = "done"
    /\ IF pending # job[p].version
       THEN step' = [step EXCEPT ![p] = "done"] /\ UNCHANGED built
       ELSE IF Hit(job[p].version)
       THEN /\ built' = [built EXCEPT ![p] = cache]
            /\ step' = [step EXCEPT ![p] = "check"]
       ELSE /\ built' = [built EXCEPT ![p] =
                           [version |-> job[p].version, text |-> job[p].text, disk |-> disk]]
            /\ step' = [step EXCEPT ![p] = "build"]
    /\ UNCHANGED <<docVars, cache, pending, passes, job, before, request, shown>>

Store(p) ==
    /\ step[p] = "build"
    /\ cache' = Stored(built[p])
    /\ built' = [built EXCEPT ![p] = Stored(@)]
    /\ step' = [step EXCEPT ![p] = "check"]
    /\ UNCHANGED <<docVars, pending, passes, job, before, request, shown>>

\* Mutant of Check: published without looking at the newest version again.
check_nothing(p) ==
    /\ step[p] = "check"
    /\ step' = [step EXCEPT ![p] = "publish"]
    /\ UNCHANGED <<docVars, cache, pending, passes, job, before, built, request, shown>>

Check(p) ==
    /\ step[p] = "check"
    /\ step' = [step EXCEPT ![p] = IF pending = job[p].version THEN "publish" ELSE "done"]
    /\ UNCHANGED <<docVars, cache, pending, passes, job, before, built, request, shown>>

Publish(p) ==
    /\ step[p] = "publish"
    /\ shown' = [built[p] EXCEPT !.version = job[p].version]
    /\ step' = [step EXCEPT ![p] = "done"]
    /\ UNCHANGED <<docVars, cache, pending, passes, job, before, built, request>>

(* models_for: a request finds its version or analyzes it.                 *)
models_for ==
    /\ request = None /\ document # None
    /\ ~Hit(document.version)
    /\ request' = Current
    /\ UNCHANGED <<docVars, cache, pending, passVars, shown>>

Answer ==
    /\ request # None
    /\ cache' = Stored(request)
    /\ request' = None
    /\ UNCHANGED <<docVars, pending, passVars, shown>>

-----------------------------------------------------------------------------
PassStep(p) == Wake(p) \/ Store(p) \/ Check(p) \/ Publish(p)

Next ==
    \/ \E v \in Versions : did_open(v) \/ did_change(v)
    \/ did_close \/ DiskChange \/ did_change_watched_files
    \/ models_for \/ Answer
    \/ \E p \in Passes : PassStep(p)

Spec == Init /\ [][Next]_vars

(* Timers fire, tasks are polled and analyses end.                         *)
FairSpec == Spec /\ WF_vars(Answer) /\ \A p \in Passes : WF_vars(PassStep(p))

-----------------------------------------------------------------------------
TypeOK ==
    /\ document \in {None} \cup Documents
    /\ disk \in 0..MaxDisk /\ told \in 0..disk
    /\ cache \in {None} \cup Models
    /\ pending \in {None} \cup Versions
    /\ texts \in 0..MaxTexts /\ passes \in 0..MaxPasses
    /\ job \in [Passes -> {None} \cup Documents]
    /\ before \in [Passes -> SUBSET Passes]
    /\ step \in [Passes -> {"none", "sleep", "build", "check", "publish", "done"}]
    /\ built \in [Passes -> {None} \cup Models]
    /\ \A p \in Passes : step[p] \in {"build", "check", "publish"} => built[p] # None
    /\ request \in {None} \cup Models
    /\ shown \in {None} \cup Models
    /\ raced \in BOOLEAN

Quiet == told = disk /\ request = None /\ ~\E p \in Passes : UnderWay(p)

(* When no pass is under way, the diagnostics published last are those of  *)
(* the current version, text and imported files, and nothing else is       *)
(* cached, whatever edits, requests and passes overlapped.  Two overlaps   *)
(* do leave older ones behind, and raced tells of them: a pass that was    *)
(* analyzing the newest version when a change of the files was handled     *)
(* stores its analysis after the cache was cleared, where the pass         *)
(* scheduled for the change finds it; and a pass that survives the closing *)
(* of its document takes the version of the next opening for its own.      *)
(* Both heal: the first with the next edit, the second with an edit whose  *)
(* version is above those of the old passes and of what they stored, and   *)
(* each when the document is closed with no pass under way.  From then on  *)
(* the property holds again.                                               *)
QuietIsCurrent ==
    Quiet /\ ~raced /\ document # None =>
        /\ shown = Current
        /\ cache \in {None, Current}

(* Every text the document takes is analyzed and its diagnostics           *)
(* published, unless a newer one comes or the document is closed.          *)
EveryTextShown ==
    \A t \in 1..MaxTexts :
        (document # None /\ document.text = t) ~>
            \/ document = None \/ document.text # t
            \/ shown # None /\ shown.text = t
            \/ raced

=============================================================================
