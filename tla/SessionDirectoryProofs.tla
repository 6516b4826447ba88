----------------------- MODULE SessionDirectoryProofs -----------------------
(***************************************************************************)
(* The properties of SessionDirectory, for any number of replay processes  *)
(* and records.                                                            *)
(***************************************************************************)
EXTENDS SessionDirectory, TLAPS

Raws == [lines : Int, partial : BOOLEAN]

\* raw file a is a later or the same state of raw file b.
Reached(a, b) == b.lines < a.lines \/ (b.lines = a.lines /\ (b.partial => a.partial))

FileNames == {"inprogress", "manifest", "output"}

\* The fields of what a replay has read.
SeenFields == {"path", "manifest", "raw", "scanned"}

Shape ==
    /\ DOMAIN at = Processes /\ DOMAIN temp = Processes /\ DOMAIN draft = Processes
    /\ DOMAIN files = FileNames /\ DOMAIN seen = Replays
    /\ \A p \in Replays : DOMAIN seen[p] = SeenFields
    /\ raw \in Raws

\* What the capture is publishing.
PublishesFirst ==
    /\ draft["capture"] = [document |-> [status |-> "in_progress"], name |-> "inprogress", next |-> "open"]
    /\ raw = NoRaw
    /\ ~Exists("manifest")
    /\ temp["capture"] = "renamed" <=> Exists("inprogress")

PublishesFinal ==
    /\ draft["capture"].name = "manifest" /\ draft["capture"].next = "remove"
    /\ draft["capture"].document.status \in {"complete", "failed"}
    /\ draft["capture"].document.raw = raw
    /\ draft["capture"].document.status = "complete" =>
           raw # NoRaw /\ ~raw.partial /\ draft["capture"].document.records = raw.lines
    /\ Exists("inprogress")
    /\ temp["capture"] = "renamed" <=> Exists("manifest")

\* Where the capture is, and what it has left behind by then.
CaptureInv ==
    /\ at["capture"] = "new" => raw = NoRaw /\ ~Exists("inprogress") /\ ~Exists("manifest")
    /\ at["capture"] \in {"new", "open", "run", "append", "stopped", "failed", "remove"}
           => temp["capture"] = "none"
    /\ at["capture"] = "publish" => PublishesFirst \/ PublishesFinal
    /\ at["capture"] \in {"open", "run", "append", "stopped", "failed"}
           => Exists("inprogress") /\ ~Exists("manifest")
    /\ at["capture"] = "open" => raw = NoRaw
    /\ at["capture"] \in {"run", "append", "stopped"} => raw # NoRaw
    /\ at["capture"] \in {"run", "stopped"} => ~raw.partial
    /\ at["capture"] = "append" => raw.partial
    /\ at["capture"] = "remove" => Exists("manifest")

\* The two manifests are what their names say.
ManifestsInv ==
    /\ files["inprogress"].status \in {"absent", "in_progress"}
    /\ files["manifest"].status \in {"absent", "complete", "failed"}
    /\ raw.lines >= -1

\* What replay p knows at its step.
KnowsManifest(p) ==
    /\ seen[p].manifest.status \in {"in_progress", "complete", "failed"}
    /\ seen[p].manifest.status = "complete" => files["manifest"] = seen[p].manifest

KnowsRaw(p) ==
    /\ seen[p].raw \in Raws
    /\ Reached(raw, seen[p].raw)
    /\ seen[p].manifest.status = "complete" => seen[p].raw = raw

KnowsCount(p) ==
    LET counted == [lines |-> seen[p].scanned, partial |-> FALSE]
    IN counted \in Raws /\ Reached(counted, seen[p].raw) /\ Reached(raw, counted)

Settled(p) == seen[p].raw = [lines |-> seen[p].scanned, partial |-> FALSE]

ReplayInv(p) ==
    /\ draft[p].name = "output"
    /\ seen[p].path \in {"inprogress", "manifest"}
    /\ at[p] \in {"hash", "scan", "process", "rehash", "recheck", "publish"} => KnowsManifest(p)
    /\ at[p] \in {"scan", "process", "rehash", "recheck", "publish"} => KnowsRaw(p)
    /\ at[p] \in {"process", "rehash"} => KnowsCount(p)
    /\ at[p] \in {"recheck", "publish"} => Settled(p)
    /\ at[p] = "publish" => draft[p].document = Result(p)
    /\ at[p] = "publish" => draft[p].next = "exited"

\* A result that calls itself research-valid was computed from a complete manifest.
OutputInv ==
    Exists("output") /\ files["output"].research_valid => files["output"].manifest.status = "complete"

\* The capture's part of the invariant, and the part about results.
CaptureSide == CaptureInv /\ ManifestsInv /\ ManifestSurvives /\ FinalManifestIsTrue
OutputSide == OutputInv /\ ResultMatchesItsSource /\ ResearchValidIsFinal

Inv == Shape /\ CaptureSide /\ OutputSide /\ \A p \in Replays : ReplayInv(p)

-----------------------------------------------------------------------------
(***************************************************************************)
(* What a step of one process leaves alone.                                *)
(***************************************************************************)
\* Nothing the capture's part speaks of changes.
CaptureSame ==
    /\ at'["capture"] = at["capture"] /\ temp'["capture"] = temp["capture"]
    /\ draft'["capture"] = draft["capture"]
    /\ raw' = raw /\ files'["inprogress"] = files["inprogress"]
    /\ files'["manifest"] = files["manifest"]

\* Nothing replay p has done changes, unless it ends here.
ReplaySame(p) ==
    /\ at'[p] = at[p] \/ at'[p] \in {"threw", "crashed", "exited"}
    /\ draft'[p] = draft[p] /\ seen'[p] = seen[p]

\* The raw file only grows, and not at all once there is a final manifest, which stays.
Progress ==
    /\ raw' \in Raws /\ Reached(raw', raw)
    /\ Exists("manifest") => raw' = raw /\ files'["manifest"] = files["manifest"]

\* The raw file reached its own state.
LEMMA ReachedReflexive == \A a \in Raws : Reached(a, a)
  BY DEF Reached, Raws

\* Later than later is later.
LEMMA ReachedTransitive ==
    \A a, b, c \in Raws : Reached(a, b) /\ Reached(b, c) => Reached(a, c)
  BY DEF Reached, Raws

\* Each of two states of the raw file reached from the other: they are the same.
LEMMA ReachedAntisymmetric ==
    \A a, b \in Raws : Reached(a, b) /\ Reached(b, a) => a = b
  BY DEF Reached, Raws

\* A step that leaves the capture alone preserves the capture's part.
LEMMA CaptureFrame == CaptureSide /\ CaptureSame => CaptureSide'
  BY DEF CaptureSide, CaptureInv, ManifestsInv, ManifestSurvives, FinalManifestIsTrue, CaptureSame,
         PublishesFirst, PublishesFinal, Exists

\* What a replay knows stays true while others work.
LEMMA ReplayFrame ==
    ASSUME NEW p \in Replays, ReplayInv(p), raw \in Raws, Progress, ReplaySame(p)
    PROVE  ReplayInv(p)'
<1>1. ASSUME KnowsManifest(p) PROVE KnowsManifest(p)'
  BY <1>1 DEF KnowsManifest, Progress, ReplaySame, Exists
<1>2. ASSUME KnowsManifest(p), KnowsRaw(p) PROVE KnowsRaw(p)'
  <2>1. Reached(raw', seen[p].raw)
    BY <1>2, ReachedTransitive DEF KnowsRaw, Progress
  <2>2. seen[p].manifest.status = "complete" => seen[p].raw = raw'
    BY <1>2 DEF KnowsRaw, KnowsManifest, Progress, Exists
  <2>3. QED
    BY <1>2, <2>1, <2>2 DEF KnowsRaw, ReplaySame
<1>3. ASSUME KnowsCount(p) PROVE KnowsCount(p)'
  BY <1>3, ReachedTransitive DEF KnowsCount, Progress, ReplaySame
<1>4. ASSUME Settled(p) PROVE Settled(p)'
  BY <1>4 DEF Settled, ReplaySame
<1>5. Result(p)' = Result(p)
  BY DEF Result, ReplaySame
<1>6. QED
  BY <1>1, <1>2, <1>3, <1>4, <1>5 DEF ReplayInv, ReplaySame

\* A step that publishes no result preserves what is said of results.
LEMMA OutputFrame ==
    OutputSide /\ Progress /\ files'["output"] = files["output"] => OutputSide'
  BY DEF OutputSide, OutputInv, ResultMatchesItsSource, ResearchValidIsFinal, Progress, Exists

\* The capture and the replays are different processes.
LEMMA ProcessFacts ==
    /\ "capture" \in Processes /\ Replays \subseteq Processes
    /\ \A p \in Replays : p # "capture"
  BY DirectoryAssumption DEF Processes, Replays

-----------------------------------------------------------------------------
(***************************************************************************)
(* The capture.                                                            *)
(***************************************************************************)
\* A step of the capture keeps its part and does not disturb the others.
CaptureKeeps ==
    /\ Shape' /\ CaptureSide' /\ Progress
    /\ files'["output"] = files["output"]
    /\ \A p \in Replays : ReplaySame(p)

\* The steps that change nothing but the capture's program counter and the raw file.
LEMMA CaptureRuns ==
    ASSUME Shape, CaptureSide, OpensRaw \/ AppendBegins \/ AppendEnds \/ RunEnds
    PROVE  CaptureKeeps
<1> USE ProcessFacts, ReachedReflexive
<1>a. raw.lines \in Int /\ raw.partial \in BOOLEAN /\ raw \in Raws
  BY DEF Shape, Raws
<1>b. raw' \in Raws /\ Reached(raw', raw)
  <2>1. CASE raw' = raw
    BY <1>a, <2>1
  <2>2. CASE OpensRaw /\ raw' = [lines |-> 0, partial |-> FALSE]
    BY <2>2 DEF CaptureSide, CaptureInv, OpensRaw, Step, NoRaw, Raws, Reached
  <2>3. CASE AppendBegins
    BY <1>a, <2>3 DEF AppendBegins, Raws, Reached
  <2>4. CASE AppendEnds /\ raw' = [lines |-> raw.lines + 1, partial |-> FALSE]
    BY <1>a, <2>4 DEF Raws, Reached
  <2>5. QED
    BY <2>1, <2>2, <2>3, <2>4 DEF OpensRaw, AppendBegins, AppendEnds, RunEnds
<1>1. Shape'
  BY <1>b DEF Shape, OpensRaw, AppendBegins, AppendEnds, RunEnds, Step
<1>2. Progress
  BY <1>b DEF CaptureSide, CaptureInv, Progress, Exists,
         OpensRaw, AppendBegins, AppendEnds, RunEnds, Step
<1>3. CaptureSide'
  <2>1. UNCHANGED <<temp, draft, files>>
    BY DEF OpensRaw, AppendBegins, AppendEnds, RunEnds
  <2>2. CaptureInv'
    BY <2>1 DEF Shape, CaptureSide, CaptureInv, Raws, NoRaw, Exists, ManifestsInv,
           OpensRaw, AppendBegins, AppendEnds, RunEnds, Step
  <2>3. ManifestsInv'
    BY <2>1 DEF Shape, CaptureSide, ManifestsInv, Raws, OpensRaw, AppendBegins, AppendEnds, RunEnds
  <2>4. ManifestSurvives' /\ FinalManifestIsTrue'
    BY <2>1 DEF CaptureSide, CaptureInv, ManifestSurvives, FinalManifestIsTrue, Exists,
           OpensRaw, AppendBegins, AppendEnds, RunEnds, Step
  <2>5. QED
    BY <2>2, <2>3, <2>4 DEF CaptureSide
<1>4. files'["output"] = files["output"] /\ \A p \in Replays : ReplaySame(p)
  BY DEF Shape, ReplaySame, OpensRaw, AppendBegins, AppendEnds, RunEnds, Step
<1>5. QED
  BY <1>1, <1>2, <1>3, <1>4 DEF CaptureKeeps

\* The constructor and finalize() hand a document to publish().
LEMMA CaptureDrafts ==
    ASSUME Shape, CaptureSide, Constructs \/ Finalizes
    PROVE  CaptureKeeps
<1> USE ProcessFacts, ReachedReflexive
<1>1. UNCHANGED <<temp, files, raw, seen>>
  BY DEF Constructs, Finalizes
<1>2. Shape'
  BY <1>1 DEF Shape, Constructs, Finalizes, Step, Publish
<1>3. at'["capture"] = "publish" /\ temp["capture"] = "none"
  BY DEF Shape, CaptureSide, CaptureInv, Constructs, Finalizes, Step
<1>4. PublishesFirst' \/ PublishesFinal'
  <2>1. CASE Constructs
    BY <1>1, <1>3, <2>1 DEF Shape, CaptureSide, CaptureInv, PublishesFirst, Constructs, Step, Publish, Exists
  <2>2. CASE Finalizes
    BY <1>1, <1>3, <2>2 DEF Shape, CaptureSide, CaptureInv, PublishesFinal, Finalizes, FinalStatus,
           ReaderFails, Publish, Exists
  <2>3. QED
    BY <2>1, <2>2
<1>5. CaptureSide'
  BY <1>1, <1>3, <1>4 DEF CaptureSide, CaptureInv, ManifestsInv, ManifestSurvives,
         FinalManifestIsTrue, Exists
<1>6. Progress
  BY <1>1 DEF Progress, Shape
<1>7. \A p \in Replays : ReplaySame(p)
  BY <1>1 DEF Shape, ReplaySame, Constructs, Finalizes, Step, Publish
<1>8. QED
  BY <1>1, <1>2, <1>5, <1>6, <1>7 DEF CaptureKeeps

\* finalize() removes the in-progress manifest: the final one is there.
LEMMA CaptureRemoves ==
    ASSUME Shape, CaptureSide, RemovesInProgress
    PROVE  CaptureKeeps
<1> USE ProcessFacts, ReachedReflexive
<1>1. Shape' /\ Progress /\ files'["output"] = files["output"] /\ \A p \in Replays : ReplaySame(p)
  BY DEF Shape, RemovesInProgress, Step, Progress, ReplaySame, FileNames
<1>2. CaptureSide'
  BY DEF Shape, RemovesInProgress, Step, CaptureSide, CaptureInv, ManifestsInv, ManifestSurvives,
         FinalManifestIsTrue, Exists, FileNames, NoFile
<1>3. QED
  BY <1>1, <1>2 DEF CaptureKeeps

\* publish() of a manifest.
LEMMA CapturePublishes ==
    ASSUME Shape, CaptureSide, Publishing("capture")
    PROVE  CaptureKeeps
<1> USE ProcessFacts, ReachedReflexive
<1>1. UNCHANGED <<draft, raw, seen>> /\ at["capture"] = "publish"
  BY DEF Publishing, MakesTemp, WritesTemp, Renames, Unlinks
<1>2. PublishesFirst \/ PublishesFinal
  BY <1>1 DEF CaptureSide, CaptureInv
<1>3. CASE MakesTemp("capture") \/ WritesTemp("capture") \/ Unlinks("capture")
  <2>1. UNCHANGED files
    BY <1>3 DEF MakesTemp, WritesTemp, Unlinks
  <2>2. Shape' /\ Progress /\ \A p \in Replays : ReplaySame(p)
    BY <1>1, <1>3, <2>1 DEF Shape, Progress, ReplaySame, MakesTemp, WritesTemp, Unlinks, Throws
  <2>3. CaptureInv'
    <3>1. CASE MakesTemp("capture") \/ WritesTemp("capture")
      BY <1>1, <1>2, <2>1, <3>1 DEF Shape, CaptureInv, PublishesFirst, PublishesFinal, Exists,
             MakesTemp, WritesTemp, Throws
    <3>2. CASE Unlinks("capture")
      BY <1>1, <1>2, <2>1, <3>2 DEF Shape, CaptureInv, PublishesFirst, PublishesFinal, Exists, Unlinks
    <3>3. QED
      BY <1>3, <3>1, <3>2
  <2>4. CaptureSide'
    BY <1>1, <2>1, <2>3 DEF CaptureSide, ManifestsInv, ManifestSurvives, FinalManifestIsTrue, Exists
  <2>5. QED
    BY <2>1, <2>2, <2>4 DEF CaptureKeeps
<1>4. CASE Renames("capture")
  <2>1. UNCHANGED <<at, draft, raw, seen>> /\ temp["capture"] = "whole"
    BY <1>4 DEF Renames
  <2>2. CASE UNCHANGED files /\ temp' = [temp EXCEPT !["capture"] = "failed"]
    <3>1. CaptureInv'
      BY <1>1, <1>2, <2>1, <2>2 DEF Shape, CaptureInv, PublishesFirst, PublishesFinal, Exists
    <3>2. CaptureSide'
      BY <2>1, <2>2, <3>1 DEF CaptureSide, ManifestsInv, ManifestSurvives, FinalManifestIsTrue, Exists
    <3>3. QED
      BY <2>1, <2>2, <3>2 DEF CaptureKeeps, Shape, Progress, ReplaySame
  <2>3. CASE /\ ~Exists(draft["capture"].name)
             /\ temp' = [temp EXCEPT !["capture"] = "renamed"]
             /\ files' = [files EXCEPT ![draft["capture"].name] = draft["capture"].document]
    <3>1. draft["capture"].name \in {"inprogress", "manifest"}
      BY <1>2 DEF PublishesFirst, PublishesFinal
    <3>2. Shape' /\ Progress /\ files'["output"] = files["output"] /\ \A p \in Replays : ReplaySame(p)
      BY <1>2, <2>1, <2>3, <3>1 DEF Shape, Progress, ReplaySame, FileNames, Exists, PublishesFirst, PublishesFinal
    <3>3. ASSUME PublishesFirst PROVE CaptureSide'
      <4>1. /\ files'["inprogress"] = [status |-> "in_progress"] /\ files'["manifest"] = files["manifest"]
            /\ temp'["capture"] = "renamed" /\ at'["capture"] = "publish"
        BY <1>1, <2>1, <2>3, <3>3 DEF Shape, FileNames, PublishesFirst
      <4>2. PublishesFirst'
        BY <2>1, <3>3, <4>1 DEF PublishesFirst, Exists
      <4>3. QED
        BY <2>1, <3>3, <4>1, <4>2 DEF CaptureSide, CaptureInv, ManifestsInv, ManifestSurvives,
               FinalManifestIsTrue, Exists, PublishesFirst
    <3>4. ASSUME PublishesFinal PROVE CaptureSide'
      <4>1. /\ files'["inprogress"] = files["inprogress"]
            /\ files'["manifest"] = draft["capture"].document
            /\ temp'["capture"] = "renamed" /\ at'["capture"] = "publish"
        BY <1>1, <2>1, <2>3, <3>4 DEF Shape, FileNames, PublishesFinal
      <4>2. PublishesFinal'
        BY <2>1, <3>4, <4>1 DEF PublishesFinal, Exists
      <4>3. QED
        BY <2>1, <3>4, <4>1, <4>2 DEF CaptureSide, CaptureInv, ManifestsInv, ManifestSurvives,
               FinalManifestIsTrue, Exists, PublishesFinal
    <3>5. QED
      BY <1>2, <3>2, <3>3, <3>4 DEF CaptureKeeps
  <2>4. QED
    BY <1>4, <2>2, <2>3 DEF Renames
<1>5. QED
  BY <1>3, <1>4 DEF Publishing

-----------------------------------------------------------------------------
(***************************************************************************)
(* The replays.                                                            *)
(***************************************************************************)
\* A step of replay p keeps its part and disturbs neither the capture nor the
\* other replays.
ReplayKeeps(p) ==
    /\ Shape' /\ CaptureSame /\ OutputSide' /\ ReplayInv(p)'
    /\ \A q \in Replays \ {p} : ReplaySame(q)

\* What Reads(p, ...) leaves alone, whatever it reads.
LEMMA ReadFrame ==
    ASSUME NEW p \in Replays, Shape, OutputSide, NEW from, NEW to, NEW ok, NEW now,
           Reads(p, from, to, ok, now), DOMAIN now = SeenFields
    PROVE  /\ Shape' /\ CaptureSame /\ OutputSide' /\ Progress
           /\ \A q \in Replays \ {p} : ReplaySame(q)
           /\ draft'[p] = draft[p] /\ files' = files /\ raw' = raw
           /\ IF ok THEN at'[p] = to /\ seen'[p] = now ELSE at'[p] = "threw" /\ seen'[p] = seen[p]
<1> USE ProcessFacts, ReachedReflexive
<1>1. UNCHANGED <<temp, draft, files, raw>>
  BY DEF Reads
<1>2. Shape'
  BY <1>1 DEF Shape, Reads
<1>3. CaptureSame /\ Progress
  BY <1>1 DEF Shape, Reads, CaptureSame, Progress
<1>4. OutputSide'
  BY <1>1, <1>3, OutputFrame
<1>5. \A q \in Replays \ {p} : ReplaySame(q)
  BY <1>1 DEF Shape, Reads, ReplaySame
<1>6. IF ok THEN at'[p] = to /\ seen'[p] = now ELSE at'[p] = "threw" /\ seen'[p] = seen[p]
  BY DEF Shape, Reads
<1>7. QED
  BY <1>1, <1>2, <1>3, <1>4, <1>5, <1>6

\* Nothing read: the replay throws.
LEMMA ReadFails ==
    ASSUME NEW p \in Replays, ReplayInv(p), Shape, Progress,
           at'[p] = "threw", draft'[p] = draft[p], seen'[p] = seen[p]
    PROVE  ReplayInv(p)'
  BY ReplayFrame DEF ReplaySame, Shape

\* The manifest is chosen and loaded.  A complete one can only be the final one.
LEMMA ReplayLoads ==
    ASSUME NEW p \in Replays, Shape, CaptureSide, OutputSide, ReplayInv(p), Chooses(p) \/ Loads(p)
    PROVE  ReplayKeeps(p)
<1>d. DOMAIN seen[p] = SeenFields
  BY DEF Shape
<1>1. CASE Chooses(p)
  <2> DEFINE path == IF ~Exists("manifest") /\ p \in Diagnostic THEN "inprogress" ELSE "manifest"
             now == [seen[p] EXCEPT !.path = path]
  <2>1. DOMAIN now = SeenFields /\ now.path = path
    BY <1>d DEF SeenFields
  <2>2. Reads(p, "choose", "load", TRUE, now)
    BY <1>1 DEF Chooses
  <2> HIDE DEF now
  <2>3. at'[p] = "load" /\ seen'[p] = now /\ draft'[p] = draft[p]
    BY <2>1, <2>2, ReadFrame
  <2>4. ReplayInv(p)'
    BY <2>1, <2>3 DEF ReplayInv
  <2>5. QED
    BY <2>1, <2>2, <2>4, ReadFrame DEF ReplayKeeps
<1>2. CASE Loads(p)
  <2> DEFINE document == files[seen[p].path]
             ok == /\ document.status \in {"in_progress", "complete", "failed"}
                   /\ document.status = "complete" \/ p \in Diagnostic
             now == [seen[p] EXCEPT !.manifest = document]
  <2>1. DOMAIN now = SeenFields /\ now.manifest = document /\ now.path = seen[p].path
    BY <1>d DEF SeenFields
  <2>2. Reads(p, "load", "hash", ok, now)
    BY <1>2 DEF Loads
  <2>3. ok => /\ document.status \in {"in_progress", "complete", "failed"}
              /\ document.status = "complete" => files["manifest"] = document
    BY DEF ReplayInv, CaptureSide, ManifestsInv
  <2> HIDE DEF now, ok, document
  <2>4. /\ Progress /\ files' = files /\ draft'[p] = draft[p]
        /\ IF ok THEN at'[p] = "hash" /\ seen'[p] = now ELSE at'[p] = "threw" /\ seen'[p] = seen[p]
    BY <2>1, <2>2, ReadFrame
  <2>5. ASSUME ok PROVE ReplayInv(p)'
    BY <2>1, <2>3, <2>4, <2>5 DEF ReplayInv, KnowsManifest
  <2>6. ASSUME ~ok PROVE ReplayInv(p)'
    BY <2>4, <2>6, ReadFails
  <2>7. QED
    BY <2>1, <2>2, <2>5, <2>6, ReadFrame DEF ReplayKeeps
<1>3. QED
  BY <1>1, <1>2

\* The raw file is hashed and scanned.
LEMMA ReplayScans ==
    ASSUME NEW p \in Replays, Shape, CaptureSide, OutputSide, ReplayInv(p), Hashes(p) \/ Scans(p)
    PROVE  ReplayKeeps(p)
<1>d. DOMAIN seen[p] = SeenFields /\ raw \in Raws
  BY DEF Shape
<1>1. CASE Hashes(p)
  <2> DEFINE ok == /\ raw # NoRaw
                   /\ seen[p].manifest.status = "in_progress" \/ seen[p].manifest.raw = raw
             now == [seen[p] EXCEPT !.raw = raw]
  <2>1. /\ DOMAIN now = SeenFields /\ now.raw = raw
        /\ now.manifest = seen[p].manifest /\ now.path = seen[p].path
    BY <1>d DEF SeenFields
  <2>2. Reads(p, "hash", "scan", ok, now)
    BY <1>1 DEF Hashes
  <2> HIDE DEF now, ok
  <2>3. /\ Progress /\ files' = files /\ raw' = raw /\ draft'[p] = draft[p]
        /\ IF ok THEN at'[p] = "scan" /\ seen'[p] = now ELSE at'[p] = "threw" /\ seen'[p] = seen[p]
    BY <2>1, <2>2, ReadFrame
  <2>4. KnowsManifest(p)
    BY <2>2 DEF ReplayInv, Reads
  <2>5. ASSUME ok PROVE ReplayInv(p)'
    BY <1>d, <2>1, <2>3, <2>4, <2>5, ReachedReflexive DEF ReplayInv, KnowsManifest, KnowsRaw
  <2>6. ASSUME ~ok PROVE ReplayInv(p)'
    BY <2>3, <2>6, ReadFails
  <2>7. QED
    BY <2>1, <2>2, <2>5, <2>6, ReadFrame DEF ReplayKeeps
<1>2. CASE Scans(p)
  <2> DEFINE ok == /\ ~ReaderFails
                   /\ seen[p].manifest.status = "in_progress" \/ seen[p].manifest.records = raw.lines
             now == [seen[p] EXCEPT !.scanned = raw.lines]
  <2>1. /\ DOMAIN now = SeenFields /\ now.scanned = raw.lines /\ now.raw = seen[p].raw
        /\ now.manifest = seen[p].manifest /\ now.path = seen[p].path
    BY <1>d DEF SeenFields
  <2>2. Reads(p, "scan", "process", ok, now)
    BY <1>2 DEF Scans
  <2>3. ok => raw = [lines |-> raw.lines, partial |-> FALSE]
    BY <1>d DEF Raws, ReaderFails
  <2> HIDE DEF now, ok
  <2>4. /\ Progress /\ files' = files /\ raw' = raw /\ draft'[p] = draft[p]
        /\ IF ok THEN at'[p] = "process" /\ seen'[p] = now ELSE at'[p] = "threw" /\ seen'[p] = seen[p]
    BY <2>1, <2>2, ReadFrame
  <2>5. KnowsManifest(p) /\ KnowsRaw(p)
    BY <2>2 DEF ReplayInv, Reads
  <2>6. ASSUME ok PROVE ReplayInv(p)'
    <3>1. KnowsManifest(p)' /\ KnowsRaw(p)'
      BY <2>1, <2>4, <2>5, <2>6 DEF KnowsManifest, KnowsRaw
    <3>2. KnowsCount(p)'
      BY <1>d, <2>1, <2>3, <2>4, <2>5, <2>6, ReachedReflexive DEF KnowsCount, KnowsRaw
    <3>3. QED
      BY <2>1, <2>4, <2>6, <3>1, <3>2 DEF ReplayInv
  <2>7. ASSUME ~ok PROVE ReplayInv(p)'
    BY <2>4, <2>7, ReadFails
  <2>8. QED
    BY <2>1, <2>2, <2>6, <2>7, ReadFrame DEF ReplayKeeps
<1>3. QED
  BY <1>1, <1>2

\* The raw file is read and hashed again.  The second hash is of a state the file
\* reached after the scan, the first of one before it: if they agree, nothing
\* was appended in between.
LEMMA ReplayRereads ==
    ASSUME NEW p \in Replays, Shape, CaptureSide, OutputSide, ReplayInv(p), Rereads(p) \/ RehashesRaw(p)
    PROVE  ReplayKeeps(p)
<1>d. DOMAIN seen[p] = SeenFields /\ raw \in Raws
  BY DEF Shape
<1>1. CASE Rereads(p)
  <2> DEFINE ok == ~ReaderFails /\ raw.lines = seen[p].scanned
  <2>1. Reads(p, "process", "rehash", ok, seen[p])
    BY <1>1 DEF Rereads
  <2> HIDE DEF ok
  <2>2. /\ Progress /\ files' = files /\ raw' = raw /\ draft'[p] = draft[p] /\ seen'[p] = seen[p]
        /\ at'[p] \in {"rehash", "threw"} /\ at[p] = "process"
    <3>1. at[p] = "process"
      BY <2>1 DEF Reads
    <3>2. QED
      BY <1>d, <2>1, <3>1, ReadFrame
  <2>3. ReplayInv(p)'
    BY <2>2 DEF ReplayInv, KnowsManifest, KnowsRaw, KnowsCount
  <2>4. QED
    BY <1>d, <2>1, <2>3, ReadFrame DEF ReplayKeeps
<1>2. CASE RehashesRaw(p)
  <2> DEFINE ok == raw = seen[p].raw
  <2>1. Reads(p, "rehash", "recheck", ok, seen[p])
    BY <1>2 DEF RehashesRaw
  <2>2. /\ Progress /\ files' = files /\ raw' = raw /\ draft'[p] = draft[p] /\ seen'[p] = seen[p]
        /\ at[p] = "rehash" /\ IF ok THEN at'[p] = "recheck" ELSE at'[p] = "threw"
    <3> HIDE DEF ok
    <3>1. at[p] = "rehash"
      BY <2>1 DEF Reads
    <3>2. QED
      BY <1>d, <2>1, <3>1, ReadFrame
  <2>3. KnowsManifest(p) /\ KnowsRaw(p) /\ KnowsCount(p)
    BY <2>2 DEF ReplayInv
  <2>4. ASSUME raw = seen[p].raw PROVE ReplayInv(p)'
    <3>1. Settled(p)
      BY <1>d, <2>3, <2>4, ReachedAntisymmetric DEF KnowsCount, Settled
    <3>2. QED
      BY <2>2, <2>3, <2>4, <3>1 DEF ReplayInv, KnowsManifest, KnowsRaw, Settled
  <2>5. ASSUME raw # seen[p].raw PROVE ReplayInv(p)'
    BY <2>2, <2>5, ReadFails
  <2>6. QED
    BY <1>d, <2>1, <2>4, <2>5, ReadFrame DEF ReplayKeeps
<1>3. QED
  BY <1>1, <1>2

\* The last comparison, after which the result is handed to publish().
LEMMA ReplayRechecks ==
    ASSUME NEW p \in Replays, Shape, CaptureSide, OutputSide, ReplayInv(p), RechecksManifest(p)
    PROVE  ReplayKeeps(p)
<1> USE ProcessFacts, ReachedReflexive
<1>1. UNCHANGED <<temp, files, raw, seen>> /\ at[p] = "recheck"
  BY DEF RechecksManifest
<1>2. /\ \A q \in Processes \ {p} : at'[q] = at[q] /\ draft'[q] = draft[q]
      /\ DOMAIN at' = Processes /\ DOMAIN draft' = Processes
      /\ \/ at'[p] = "threw" /\ draft'[p] = draft[p]
         \/ /\ at'[p] = "publish"
            /\ draft'[p] = [document |-> Result(p), name |-> "output", next |-> "exited"]
  BY DEF Shape, RechecksManifest, Throws, Publish
<1>3. Shape' /\ CaptureSame /\ Progress /\ \A q \in Replays \ {p} : ReplaySame(q)
  BY <1>1, <1>2 DEF Shape, CaptureSame, Progress, ReplaySame
<1>4. OutputSide'
  BY <1>1, <1>3, OutputFrame
<1>5. KnowsManifest(p)' /\ KnowsRaw(p)' /\ Settled(p)' /\ Result(p)' = Result(p)
  BY <1>1 DEF ReplayInv, KnowsManifest, KnowsRaw, Settled, Result
<1>6. ReplayInv(p)'
  BY <1>1, <1>2, <1>5 DEF ReplayInv
<1>7. QED
  BY <1>3, <1>4, <1>6 DEF ReplayKeeps

\* A result is published: it is about what the replay has settled.
LEMMA ResultPublished ==
    ASSUME NEW p \in Replays, ReplayInv(p), at[p] = "publish", raw' = raw,
           files'["output"] = Result(p), files'["manifest"] = files["manifest"]
    PROVE  OutputSide'
<1>1. KnowsManifest(p) /\ KnowsRaw(p) /\ Settled(p)
  BY DEF ReplayInv
<1> DEFINE result == files'["output"]
<1>2. /\ result.records = seen[p].scanned /\ result.raw = seen[p].raw
      /\ result.manifest = seen[p].manifest
  BY DEF Result
<1>c. result.research_valid => seen[p].manifest.status = "complete"
  <2> DEFINE valid == seen[p].manifest.status = "complete"
  <2>1. result = [status |-> "result", by |-> p, records |-> seen[p].scanned,
                  research_valid |-> valid, manifest |-> seen[p].manifest, raw |-> seen[p].raw]
    BY Zenon DEF Result
  <2> HIDE DEF valid
  <2>2. result.research_valid = valid
    BY <2>1
  <2>3. QED
    BY <2>2, Zenon DEF valid
<1> HIDE DEF result
<1>3. OutputInv' /\ ResearchValidIsFinal'
  BY <1>1, <1>2, <1>c DEF result, OutputInv, ResearchValidIsFinal, KnowsManifest, KnowsRaw
<1>4. ResultMatchesItsSource'
  BY <1>1, <1>2 DEF result, ResultMatchesItsSource, Settled
<1>5. QED
  BY <1>3, <1>4 DEF OutputSide

\* publish() of a result.
LEMMA ReplayPublishes ==
    ASSUME NEW p \in Replays, Shape, CaptureSide, OutputSide, ReplayInv(p), Publishing(p)
    PROVE  ReplayKeeps(p)
<1> USE ProcessFacts, ReachedReflexive
<1>1. UNCHANGED <<draft, raw, seen>> /\ at[p] = "publish"
  BY DEF Publishing, MakesTemp, WritesTemp, Renames, Unlinks
<1>2. draft[p].name = "output" /\ draft[p].next = "exited" /\ draft[p].document = Result(p)
  BY <1>1 DEF ReplayInv
<1>3. /\ \A q \in Processes \ {p} : at'[q] = at[q] /\ temp'[q] = temp[q]
      /\ DOMAIN at' = Processes /\ DOMAIN temp' = Processes
      /\ at'[p] = at[p] \/ at'[p] \in {"threw", "crashed", "exited"}
  BY <1>2 DEF Shape, Publishing, MakesTemp, WritesTemp, Renames, Unlinks, Throws
<1>4. \/ files' = files
      \/ files' = [files EXCEPT !["output"] = Result(p)]
  BY <1>2 DEF Publishing, MakesTemp, WritesTemp, Renames, Unlinks
<1>5. Shape' /\ CaptureSame /\ Progress /\ \A q \in Replays : ReplaySame(q)
  BY <1>1, <1>3, <1>4 DEF Shape, FileNames, CaptureSame, Progress, ReplaySame
<1>6. ReplayInv(p)'
  BY <1>5, ReplayFrame DEF Shape
<1>7. OutputSide'
  <2>1. CASE files' = files
    BY <1>5, <2>1, OutputFrame
  <2>2. CASE files' = [files EXCEPT !["output"] = Result(p)]
    <3>1. files'["output"] = Result(p) /\ files'["manifest"] = files["manifest"]
      BY <2>2 DEF Shape, FileNames
    <3>2. QED
      BY <1>1, <3>1, ResultPublished
  <2>3. QED
    BY <1>4, <2>1, <2>2
<1>8. QED
  BY <1>5, <1>6, <1>7 DEF ReplayKeeps

-----------------------------------------------------------------------------
(***************************************************************************)
(* The invariant.                                                          *)
(***************************************************************************)
\* The invariant holds before any process has done anything.
LEMMA InvInit == Init => Inv
<1> SUFFICES ASSUME Init PROVE Inv
  OBVIOUS
<1> USE ProcessFacts
<1>1. Shape
  BY DEF Init, Shape, Processes, FileNames, SeenFields, Raws, NoRaw
<1>2. at["capture"] = "new" /\ temp["capture"] = "none" /\ raw = NoRaw
  BY DEF Init
<1>3. \A name \in FileNames : files[name] = NoFile
  BY DEF Init, FileNames
<1>4. \A p \in Replays : /\ at[p] = "choose" /\ draft[p].name = "output"
                        /\ seen[p].path = "manifest"
  BY DEF Init
<1>5. CaptureSide
  BY <1>2, <1>3 DEF CaptureSide, CaptureInv, ManifestsInv, ManifestSurvives, FinalManifestIsTrue,
         Exists, NoFile, NoRaw, FileNames
<1>6. OutputSide
  BY <1>3 DEF OutputSide, OutputInv, ResultMatchesItsSource, ResearchValidIsFinal, Exists, NoFile, FileNames
<1>7. \A p \in Replays : ReplayInv(p)
  BY <1>4 DEF ReplayInv
<1>8. QED
  BY <1>1, <1>5, <1>6, <1>7 DEF Inv

\* A process dies: nobody else's knowledge suffers.
LEMMA CrashKeeps ==
    ASSUME NEW p \in Processes, Inv, Crashes(p)
    PROVE  Inv'
<1> USE ProcessFacts, ReachedReflexive
<1>1. UNCHANGED <<temp, draft, files, raw, seen>> /\ Shape /\ CaptureSide /\ OutputSide
  BY DEF Inv, Crashes
<1>2. Shape' /\ Progress /\ \A q \in Replays : ReplaySame(q)
  BY <1>1 DEF Shape, Progress, ReplaySame, Crashes
<1>3. CaptureSide'
  <2>1. CASE p = "capture"
    BY <1>1, <2>1 DEF Shape, CaptureSide, CaptureInv, ManifestsInv, ManifestSurvives,
           FinalManifestIsTrue, Exists, Crashes
  <2>2. CASE p # "capture"
    BY <1>1, <2>2, CaptureFrame DEF Shape, CaptureSame, Crashes
  <2>3. QED
    BY <2>1, <2>2
<1>4. OutputSide'
  BY <1>1, <1>2, OutputFrame
<1>5. \A q \in Replays : ReplayInv(q)'
  BY <1>1, <1>2, ReplayFrame DEF Inv, Shape
<1>6. QED
  BY <1>2, <1>3, <1>4, <1>5 DEF Inv

\* Every step of every process preserves the invariant.
LEMMA InvNext == Inv /\ [Next]_vars => Inv'
<1> SUFFICES ASSUME Inv, [Next]_vars PROVE Inv'
  OBVIOUS
<1>i. Shape /\ CaptureSide /\ OutputSide /\ raw \in Raws /\ \A p \in Replays : ReplayInv(p)
  BY DEF Inv, Shape
<1>1. CASE Capture
  <2>1. CaptureKeeps
    BY <1>i, <1>1, CaptureRuns, CaptureDrafts, CaptureRemoves, CapturePublishes DEF Capture
  <2>2. \A p \in Replays : ReplayInv(p)'
    BY <1>i, <2>1, ReplayFrame DEF CaptureKeeps
  <2>3. OutputSide'
    BY <1>i, <2>1, OutputFrame DEF CaptureKeeps
  <2>4. QED
    BY <2>1, <2>2, <2>3 DEF CaptureKeeps, Inv
<1>2. ASSUME NEW p \in Replays, Replay(p) PROVE Inv'
  <2>1. ReplayKeeps(p)
    BY <1>i, <1>2, ReplayLoads, ReplayScans, ReplayRereads, ReplayRechecks, ReplayPublishes DEF Replay
  <2>2. Progress
    BY <1>i, <2>1, ReachedReflexive DEF ReplayKeeps, CaptureSame, Progress
  <2>3. \A q \in Replays : ReplayInv(q)'
    BY <1>i, <2>1, <2>2, ReplayFrame DEF ReplayKeeps
  <2>4. CaptureSide'
    BY <1>i, <2>1, CaptureFrame DEF ReplayKeeps
  <2>5. QED
    BY <2>1, <2>3, <2>4 DEF ReplayKeeps, Inv
<1>3. CASE UNCHANGED vars
  BY <1>3 DEF vars, Inv, Shape, CaptureSide, CaptureInv, ManifestsInv, ManifestSurvives,
         FinalManifestIsTrue, PublishesFirst, PublishesFinal, OutputSide, OutputInv,
         ResultMatchesItsSource, ResearchValidIsFinal, Exists, ReplayInv, KnowsManifest, KnowsRaw,
         KnowsCount, Settled, Result
<1>4. QED
  BY <1>1, <1>2, <1>3, CrashKeeps DEF Next, Ended

\* The invariant holds always.
LEMMA InvHolds == Spec => []Inv
  BY InvInit, InvNext, PTL DEF Spec

-----------------------------------------------------------------------------
(***************************************************************************)
(* The theorems.                                                           *)
(***************************************************************************)
\* From the moment there is a raw file a manifest describes it, wherever the
\* capture dies (Capture::finalize).
THEOREM ManifestSurvivesAlways == Spec => []ManifestSurvives
<1>1. Inv => ManifestSurvives
  BY DEF Inv, CaptureSide
<1>2. QED
  BY <1>1, InvHolds, PTL

\* A final manifest describes the raw file for good, and calls it complete only
\* if it is (Capture::finalize).
THEOREM FinalManifestIsTrueAlways == Spec => []FinalManifestIsTrue
<1>1. Inv => FinalManifestIsTrue
  BY DEF Inv, CaptureSide
<1>2. QED
  BY <1>1, InvHolds, PTL

\* A published result is about one state of the raw file, whatever a capture
\* appends while it is computed (replay()).
THEOREM ResultMatchesItsSourceAlways == Spec => []ResultMatchesItsSource
<1>1. Inv => ResultMatchesItsSource
  BY DEF Inv, OutputSide
<1>2. QED
  BY <1>1, InvHolds, PTL

\* A research-valid result is about the finished capture (replay()).
THEOREM ResearchValidIsFinalAlways == Spec => []ResearchValidIsFinal
<1>1. Inv => ResearchValidIsFinal
  BY DEF Inv, OutputSide
<1>2. QED
  BY <1>1, InvHolds, PTL

\* A file that exists changes only when the capture removes its in-progress manifest.
LEMMA FilesStay ==
    ASSUME Inv, Next, NEW name \in DOMAIN files, Exists(name), files'[name] # files[name]
    PROVE  name = "inprogress" /\ files'[name] = NoFile
<1>1. DOMAIN files = FileNames
  BY DEF Inv, Shape
<1>2. ASSUME NEW p \in Processes, Publishing(p) PROVE FALSE
  BY <1>2 DEF Publishing, MakesTemp, WritesTemp, Renames, Unlinks
<1>3. CASE RemovesInProgress
  BY <1>1, <1>3 DEF RemovesInProgress, FileNames
<1>4. QED
  BY <1>2, <1>3, ProcessFacts DEF Next, Capture, Replay, Constructs, OpensRaw, AppendBegins,
     AppendEnds, RunEnds, Finalizes, Chooses, Loads, Hashes, Scans, Rereads, RehashesRaw, Reads,
     RechecksManifest, Crashes, Ended, vars

\* What is published is never replaced, and only the in-progress manifest is
\* removed (publish(), Capture::finalize).
THEOREM PublishedIsFinalAlways == Spec => PublishedIsFinal
<1>1. Inv /\ [Next]_vars =>
        [\A name \in DOMAIN files :
             Exists(name) /\ files'[name] # files[name] =>
                 name = "inprogress" /\ files'[name] = NoFile]_vars
  BY FilesStay
<1>2. QED
  BY <1>1, InvHolds, PTL DEF Spec, PublishedIsFinal
=============================================================================
