-------------------------- MODULE SessionDirectory --------------------------
(***************************************************************************)
(* The files of a session: the capture process that creates the directory, *)
(* appends to the raw file and publishes its manifests, and the replay     *)
(* processes that read them, possibly at the same time, and publish their  *)
(* results.  Any process may die between two system calls.                 *)
(*                                                                         *)
(* The raw file is the number of its whole lines and whether a part of a   *)
(* line follows them; SHA-256 of a file is its content.  Record indexes    *)
(* are contiguous (LiveRuntime), and what replay computes from the records *)
(* is the matter of CoinbaseSession, so a result keeps only what it was    *)
(* computed from.  Configuration, precision, path and venue checks of the  *)
(* manifest compare constants of the build with themselves and are left    *)
(* out; so are disk loss and the names mkstemp makes up.                   *)
(***************************************************************************)
EXTENDS Integers

CONSTANTS Diagnostic,  \* replay processes run with --allow-incomplete
          Strict,      \* replay processes run without
          MaxRecords   \* bound: records of the capture

ASSUME DirectoryAssumption ==
    Diagnostic \cap Strict = {} /\ "capture" \notin Diagnostic \cup Strict /\ MaxRecords \in Nat

Replays == Diagnostic \cup Strict
Processes == {"capture"} \cup Replays

VARIABLES
    at,       \* process -> the step it is at
    temp,     \* process -> its temporary file
    draft,    \* process -> [document, name, next]: what it publishes, where, what then
    files,    \* published file -> document
    raw,      \* [lines, partial], lines = -1: no such file
    written,  \* the capture's written_messages
    seen      \* replay -> [path, manifest, raw, scanned]: what it has read

vars == <<at, temp, draft, files, raw, written, seen>>

NoFile == [status |-> "absent"]
NoRaw == [lines |-> -1, partial |-> FALSE]

Exists(name) == files[name].status # "absent"

\* RawEventReader: every whole line is a record, the rest is an error.
ReaderFails == raw.partial

Step(p, from, to) == at[p] = from /\ at' = [at EXCEPT ![p] = to]
Throws(p) == at' = [at EXCEPT ![p] = "threw"]

Init ==
    /\ at = [p \in Processes |-> IF p = "capture" THEN "new" ELSE "choose"]
    /\ temp = [p \in Processes |-> "none"]
    /\ draft = [p \in Processes |-> [document |-> NoFile, name |-> "output", next |-> "exited"]]
    /\ files = [name \in {"inprogress", "manifest", "output"} |-> NoFile]
    /\ raw = NoRaw /\ written = 0
    /\ seen = [p \in Replays |-> [path |-> "manifest", manifest |-> NoFile, raw |-> NoRaw,
                                  scanned |-> 0]]

-----------------------------------------------------------------------------
(***************************************************************************)
(* publish(): a private temporary file, then a rename that never replaces. *)
(***************************************************************************)
Publish(p, document, name, next) ==
    draft' = [draft EXCEPT ![p] = [document |-> document, name |-> name, next |-> next]]

MakesTemp(p) ==
    /\ at[p] = "publish" /\ temp[p] = "none"
    /\ \/ temp' = [temp EXCEPT ![p] = "empty"] /\ UNCHANGED at
       \/ Throws(p) /\ UNCHANGED temp
    /\ UNCHANGED <<draft, files, raw, written, seen>>

\* write(), fsync() and close(); any of them may fail.
WritesTemp(p) ==
    /\ temp[p] = "empty" /\ at[p] = "publish"
    /\ temp' \in {[temp EXCEPT ![p] = "whole"], [temp EXCEPT ![p] = "failed"]}
    /\ UNCHANGED <<at, draft, files, raw, written, seen>>

\* Mutant of Renames: rename(2) replaces what is there.
RenamesOver(p) ==
    /\ temp[p] = "whole" /\ at[p] = "publish"
    /\ temp' = [temp EXCEPT ![p] = "renamed"]
    /\ files' = [files EXCEPT ![draft[p].name] = draft[p].document]
    /\ UNCHANGED <<at, draft, raw, written, seen>>

\* RENAME_NOREPLACE of a file that was written without error.
Renames(p) ==
    /\ temp[p] = "whole" /\ at[p] = "publish"
    /\ \/ /\ ~Exists(draft[p].name)
          /\ temp' = [temp EXCEPT ![p] = "renamed"]
          /\ files' = [files EXCEPT ![draft[p].name] = draft[p].document]
       \/ /\ temp' = [temp EXCEPT ![p] = "failed"]
          /\ UNCHANGED files
    /\ UNCHANGED <<at, draft, raw, written, seen>>

\* unlink(), then publish() returns or throws.
Unlinks(p) ==
    /\ temp[p] \in {"failed", "renamed"} /\ at[p] = "publish"
    /\ at' = [at EXCEPT ![p] = IF temp[p] = "renamed" THEN draft[p].next ELSE "threw"]
    /\ temp' = [temp EXCEPT ![p] = "none"]
    /\ UNCHANGED <<draft, files, raw, written, seen>>

Publishing(p) == MakesTemp(p) \/ WritesTemp(p) \/ Renames(p) \/ Unlinks(p)

-----------------------------------------------------------------------------
(***************************************************************************)
(* The capture process.                                                    *)
(***************************************************************************)
\* Capture::Capture: the new directory, then the in-progress manifest.
Constructs ==
    /\ Step("capture", "new", "publish")
    /\ Publish("capture", [status |-> "in_progress"], "inprogress", "open")
    /\ UNCHANGED <<temp, files, raw, written, seen>>

\* The writer opens a new raw file, or fails to.
OpensRaw ==
    /\ \/ Step("capture", "open", "run") /\ raw' = [lines |-> 0, partial |-> FALSE]
       \/ Step("capture", "open", "failed") /\ UNCHANGED raw
    /\ UNCHANGED <<temp, draft, files, written, seen>>

\* A line reaches the file in pieces; a failing write ends the run.
AppendBegins ==
    /\ Step("capture", "run", "append")
    /\ raw.lines < MaxRecords
    /\ raw' = [lines |-> raw.lines, partial |-> TRUE]
    /\ UNCHANGED <<temp, draft, files, written, seen>>

\* The line is whole and counted, or the write or its flush fails and leaves part
\* of the line, or all of it, uncounted.
AppendEnds ==
    /\ \/ /\ Step("capture", "append", "run")
          /\ raw' = [lines |-> raw.lines + 1, partial |-> FALSE] /\ written' = written + 1
       \/ /\ Step("capture", "append", "failed")
          /\ raw' \in {raw, [lines |-> raw.lines + 1, partial |-> FALSE]} /\ UNCHANGED written
    /\ UNCHANGED <<temp, draft, files, seen>>

\* The threads are joined, after a requested stop or a failure.
RunEnds ==
    /\ \/ Step("capture", "run", "stopped")
       \/ Step("capture", "run", "failed")
    /\ UNCHANGED <<temp, draft, files, raw, written, seen>>

\* A stopped run whose raw file scan() reads to the end, and finds to hold as many
\* records as the run has counted, is complete.
FinalStatus ==
    IF at["capture"] = "stopped" /\ ~ReaderFails /\ raw.lines = written
    THEN "complete" ELSE "failed"

\* Mutant of Finalizes: the in-progress manifest is removed before the final one exists.
RemovesFirst ==
    /\ at["capture"] \in {"stopped", "failed"}
    /\ Publish("capture", [status |-> FinalStatus, raw |-> raw, records |-> written], "manifest", "remove")
    /\ at' = [at EXCEPT !["capture"] = "publish"]
    /\ files' = [files EXCEPT !["inprogress"] = NoFile]
    /\ UNCHANGED <<temp, raw, written, seen>>

\* Mutant of Finalizes: a failed run is called complete.
CompletesAnyway ==
    /\ at["capture"] \in {"stopped", "failed"}
    /\ Publish("capture", [status |-> "complete", raw |-> raw, records |-> written], "manifest", "remove")
    /\ at' = [at EXCEPT !["capture"] = "publish"]
    /\ UNCHANGED <<temp, files, raw, written, seen>>

\* finalize(), up to the manifest with the raw file's size and hash and the run's count.
Finalizes ==
    /\ at["capture"] \in {"stopped", "failed"}
    /\ Publish("capture", [status |-> FinalStatus, raw |-> raw, records |-> written], "manifest", "remove")
    /\ at' = [at EXCEPT !["capture"] = "publish"]
    /\ UNCHANGED <<temp, files, raw, written, seen>>

RemovesInProgress ==
    /\ Step("capture", "remove", "exited")
    /\ files' = [files EXCEPT !["inprogress"] = NoFile]
    /\ UNCHANGED <<temp, draft, raw, written, seen>>

Capture ==
    \/ Constructs \/ OpensRaw \/ AppendBegins \/ AppendEnds \/ RunEnds \/ Finalizes
    \/ RemovesInProgress \/ Publishing("capture")

-----------------------------------------------------------------------------
(***************************************************************************)
(* A replay process.  Every check that fails throws, before any output.    *)
(***************************************************************************)
Reads(p, from, to, ok, now) ==
    /\ at[p] = from
    /\ at' = [at EXCEPT ![p] = IF ok THEN to ELSE "threw"]
    /\ seen' = IF ok THEN [seen EXCEPT ![p] = now] ELSE seen
    /\ UNCHANGED <<temp, draft, files, raw, written>>

\* Whether manifest.json exists decides which manifest is opened next.
Chooses(p) ==
    Reads(p, "choose", "load", TRUE,
          [seen[p] EXCEPT !.path = IF ~Exists("manifest") /\ p \in Diagnostic
                                   THEN "inprogress" ELSE "manifest"])

\* The manifest is read, hashed and parsed; an incomplete one needs permission.
Loads(p) ==
    LET document == files[seen[p].path]
    IN Reads(p, "load", "hash",
             /\ document.status \in {"in_progress", "complete", "failed"}
             /\ document.status = "complete" \/ p \in Diagnostic,
             [seen[p] EXCEPT !.manifest = document])

\* file_sha256(raw), compared with the manifest's unless that is in progress.
Hashes(p) ==
    Reads(p, "hash", "scan",
          /\ raw # NoRaw
          /\ seen[p].manifest.status = "in_progress" \/ seen[p].manifest.raw = raw,
          [seen[p] EXCEPT !.raw = raw])

\* scan(): all records, without an error, as many as the manifest says.
Scans(p) ==
    Reads(p, "scan", "process",
          /\ ~ReaderFails
          /\ seen[p].manifest.status = "in_progress" \/ seen[p].manifest.records = raw.lines,
          [seen[p] EXCEPT !.scanned = raw.lines])

\* The records are read again and processed: as many as before.
Rereads(p) == Reads(p, "process", "rehash", ~ReaderFails /\ raw.lines = seen[p].scanned, seen[p])

\* Mutant of RehashesRaw: the raw file is not compared again.
TrustsRaw(p) == Reads(p, "rehash", "recheck", TRUE, seen[p])

RehashesRaw(p) == Reads(p, "rehash", "recheck", raw = seen[p].raw, seen[p])

\* Mutant of Result: every result is research-valid.
ResultAlwaysValid(p) ==
    [status |-> "result", by |-> p, records |-> seen[p].scanned, research_valid |-> TRUE,
     manifest |-> seen[p].manifest, raw |-> seen[p].raw]

\* The result of replay p.
Result(p) ==
    [status |-> "result", by |-> p, records |-> seen[p].scanned,
     research_valid |-> seen[p].manifest.status = "complete",
     manifest |-> seen[p].manifest, raw |-> seen[p].raw]

\* The manifest at the same path is compared again; then the result is published.
RechecksManifest(p) ==
    /\ at[p] = "recheck"
    /\ IF files[seen[p].path] = seen[p].manifest
       THEN /\ at' = [at EXCEPT ![p] = "publish"]
            /\ Publish(p, Result(p), "output", "exited")
       ELSE Throws(p) /\ UNCHANGED draft
    /\ UNCHANGED <<temp, files, raw, written, seen>>

Replay(p) ==
    \/ Chooses(p) \/ Loads(p) \/ Hashes(p) \/ Scans(p) \/ Rereads(p) \/ RehashesRaw(p)
    \/ RechecksManifest(p) \/ Publishing(p)

-----------------------------------------------------------------------------
Over(p) == at[p] \in {"exited", "threw", "crashed"}

\* A process dies between two system calls.
Crashes(p) ==
    /\ ~Over(p)
    /\ at' = [at EXCEPT ![p] = "crashed"]
    /\ UNCHANGED <<temp, draft, files, raw, written, seen>>

Ended == (\A p \in Processes : Over(p)) /\ UNCHANGED vars

Next ==
    \/ Capture
    \/ \E p \in Replays : Replay(p)
    \/ \E p \in Processes : Crashes(p)
    \/ Ended

Spec == Init /\ [][Next]_vars

-----------------------------------------------------------------------------
(***************************************************************************)
(* Properties.                                                             *)
(***************************************************************************)
\* From the moment there is a raw file, a manifest describes it, whenever the
\* capture dies: finalize() removes the in-progress manifest only once the final
\* one is published.
ManifestSurvives == raw # NoRaw => Exists("inprogress") \/ Exists("manifest")

\* A final manifest describes the raw file as it will stay, and calls it complete
\* only if every line in it is whole and the writer has counted them all.
FinalManifestIsTrue ==
    Exists("manifest") =>
        /\ files["manifest"].raw = raw
        /\ files["manifest"].status = "complete" =>
               raw # NoRaw /\ ~raw.partial /\ files["manifest"].records = raw.lines

\* A published result is about one state of the raw file: the records counted and
\* processed are the whole lines of the file that was hashed, although a capture
\* may have been appending to it all along.
ResultMatchesItsSource ==
    Exists("output") =>
        LET result == files["output"]
        IN result.records = result.raw.lines /\ ~result.raw.partial

\* A research-valid result is about the finished capture: its manifest is the
\* final one and its records are all the raw file will ever hold.
ResearchValidIsFinal ==
    Exists("output") /\ files["output"].research_valid =>
        /\ files["manifest"] = files["output"].manifest
        /\ raw = files["output"].raw

\* What is published stays as it is: of two replays with one output path the
\* first to finish wins, and only the in-progress manifest is ever removed.
PublishedIsFinal ==
    [][\A name \in DOMAIN files :
           Exists(name) /\ files'[name] # files[name] =>
               name = "inprogress" /\ files'[name] = NoFile]_vars
=============================================================================
