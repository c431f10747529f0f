---------------------------- MODULE ReportFiles ----------------------------
(***************************************************************************)
(* Report files: the tool export_report_file (report_export.py), which     *)
(* writes a file under the lock of the storage and has it uploaded, the    *)
(* upload and its record (report_oss.py), and the deletion of the files of *)
(* a session by the service (api/artifact_store.py), which takes no lock.  *)
(* A file is its number; how its content is made is left out.              *)
(*                                                                         *)
(* An operator marked as a mutant is a faulty form of the definition after *)
(* it; no definition uses it.                                              *)
(***************************************************************************)
EXTENDS ToolTurns, Sequences

CONSTANTS Oss,         \* uploads are configured
          MaxFiles,    \* files of a session
          MaxAll,      \* files of the storage
          MaxExports,  \* bound on the files written
          Earlier      \* what an earlier process may have left in the storage:
                       \* the sessions of its files, in the order of their numbers

ASSUME ReportFilesAssumption ==
    /\ Oss \in BOOLEAN
    /\ {MaxFiles, MaxAll, MaxExports} \subseteq Nat
    /\ Earlier \subseteq Seq(Sessions)
    /\ \A left \in Earlier :
          /\ Len(left) <= MaxExports /\ Len(left) <= MaxAll
          /\ \A s \in Sessions : Cardinality({f \in 1..Len(left) : left[f] = s}) <= MaxFiles

VARIABLES
    export,   \* what the export of each turn is about to do
    file      \* the report files by number

fileVars == <<export, file>>

NoExport == [step |-> "none"]
At(step, f) == [step |-> step, file |-> f]

NoFile == [session |-> "none"]

File == [session : Sessions,
         local : BOOLEAN,   \* in the storage
         old : BOOLEAN,     \* past its retention
         object : BOOLEAN,  \* in the bucket
         mark : BOOLEAN,    \* its upload is recorded next to it
         told : {"nothing", "ok", "error"},  \* what the agent was told
         removed : BOOLEAN, \* with its session or for its age
         cut : BOOLEAN]     \* its export was cut off by a crash

NewFile(s) == [session |-> s, local |-> TRUE, old |-> FALSE, object |-> FALSE, mark |-> FALSE,
               told |-> "nothing", removed |-> FALSE, cut |-> FALSE]

Written == {f \in 1..MaxExports : file[f] # NoFile}
Stored  == {f \in Written : file[f].local}
Of(s)   == {f \in Stored : file[f].session = s}
Old     == {f \in Stored : file[f].old}

Removes(F) == [f \in 1..MaxExports |->
    IF f \in F THEN [file[f] EXCEPT !.local = FALSE, !.removed = TRUE] ELSE file[f]]

Finish(t) == export' = [export EXCEPT ![t] = NoExport]
Goes(t, step) == export' = [export EXCEPT ![t].step = step]

-----------------------------------------------------------------------------
(* _write_artifact cleans up, checks the limits and writes in one go: the  *)
(* lock excludes other writers.  The directory may vanish or the disk be   *)
(* full.                                                                   *)
Room(s) == Cardinality(Of(s) \ Old) < MaxFiles /\ Cardinality(Stored \ Old) < MaxAll

Writes(t) ==
    LET s == SessionOf[t]
        f == Cardinality(Written) + 1
    IN  /\ export[t].step = "write" /\ f <= MaxExports
        /\ IF Room(s)
           THEN /\ file' = [Removes(Old) EXCEPT ![f] =
                       [NewFile(s) EXCEPT !.told = IF Oss THEN "nothing" ELSE "ok"]]
                /\ export' = [export EXCEPT ![t] = IF Oss THEN At("upload", f) ELSE NoExport]
           ELSE file' = Removes(Old) /\ Finish(t)

WriteFails(t) ==
    /\ export[t].step = "write"
    /\ Finish(t)
    /\ file' \in {file, Removes(Old)}

(* A failure on the way to the bucket removes the file again. *)
LeavesFile(f, sent, marked) == file' = [file EXCEPT              (* mutant *)
    ![f].object = @ \/ sent, ![f].mark = @ \/ marked, ![f].told = "error"]

Abandons(f, sent, marked) == file' = [file EXCEPT ![f].local = FALSE,
    ![f].object = @ \/ sent, ![f].mark = @ \/ marked, ![f].told = "error"]

(* The object is put once and not overwritten; when that fails it may have *)
(* been stored, unless there was no file to read.                          *)
Uploads(t) ==
    LET f == export[t].file
    IN  /\ export[t].step = "upload"
        /\ \/ /\ file[f].local
              /\ file' = [file EXCEPT ![f].object = TRUE]
              /\ Goes(t, "mark")
           \/ /\ \E sent \in {FALSE, file[f].local} : Abandons(f, sent, FALSE)
              /\ Finish(t)

(* The record of the upload is written, then a link signed; the record     *)
(* remains when signing fails.  Without its directory it fails.            *)
Marks(t) ==
    LET f == export[t].file
    IN  /\ export[t].step = "mark"
        /\ \/ file' = [file EXCEPT ![f].mark = TRUE, ![f].told = "ok"]
           \/ \E marked \in BOOLEAN : Abandons(f, FALSE, marked)
        /\ Finish(t)

-----------------------------------------------------------------------------
(* The service and the passing of time. *)

(* Only a file that is still in the storage is found, and a record of its  *)
(* upload is turned into a link to the object.                             *)
Found(f)  == file[f].local
Linked(f) == file[f].mark

(* What a client that asks for the file gets, if a link can be signed. *)
Served(f) == IF ~Found(f) THEN "nothing" ELSE IF Linked(f) THEN "link" ELSE "file"

DeleteFiles(s) ==
    /\ Of(s) # {}
    /\ file' = Removes(Of(s))
    /\ UNCHANGED export

Ages(f) ==
    /\ f \in Stored /\ file[f].told # "nothing" /\ ~file[f].old
    /\ file' = [file EXCEPT ![f].old = TRUE]
    /\ UNCHANGED export

(* A crash of Hermes leaves the files as they are. *)
Cuts ==
    LET cut == {export[t].file : t \in {u \in Turns : export[u].step \in {"upload", "mark"}}}
    IN  /\ file' = [f \in 1..MaxExports |->
               IF f \in cut THEN [file[f] EXCEPT !.cut = TRUE] ELSE file[f]]
        /\ export' = [t \in Turns |-> NoExport]

(* The storage outlives the process: Hermes may find files in it that were *)
(* exported before it started.                                             *)
FileInit(left) ==
    /\ export = [t \in Turns |-> NoExport]
    /\ file = [f \in 1..MaxExports |->
           IF f \in 1..Len(left)
           THEN [NewFile(left[f]) EXCEPT !.object = Oss, !.mark = Oss, !.told = "ok"]
           ELSE NoFile]

Exports(t) == Writes(t) \/ WriteFails(t) \/ Uploads(t) \/ Marks(t)

-----------------------------------------------------------------------------
FilesOK ==
    /\ export \in [Turns -> {NoExport, [step |-> "write"]}
           \cup {At(step, f) : step \in {"upload", "mark"}, f \in 1..MaxExports}]
    /\ file \in [1..MaxExports -> File \cup {NoFile}]

FilesWithinLimits ==
    /\ \A s \in Sessions : Cardinality(Of(s)) <= MaxFiles
    /\ Cardinality(Stored) <= MaxAll

(* A client gets a report that the agent was told is exported, from the    *)
(* bucket where there is one, until it is removed with its session or for  *)
(* its age; it never gets one that failed, nor a link to an object that is *)
(* not there; and it gets a file that is not uploaded only while that is   *)
(* being exported or after a crash cut it off ("Do not leave a local-only  *)
(* artifact", export_report_file).                                         *)
ExportsAreWhole ==
    \A f \in Written :
        /\ file[f].told = "ok" /\ ~file[f].removed => Served(f) = IF Oss THEN "link" ELSE "file"
        /\ file[f].told = "error" => Served(f) = "nothing"
        /\ Served(f) = "link" => file[f].object
        /\ Oss /\ Served(f) = "file" =>
               file[f].cut \/ \E t \in Turns : export[t] \in {At("upload", f), At("mark", f)}
=============================================================================
