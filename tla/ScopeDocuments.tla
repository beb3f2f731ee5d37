--------------------------- MODULE ScopeDocuments ---------------------------
(***************************************************************************)
(* Generated scope documents (routes/documents.ts): a row in the database  *)
(* and a file on disk, which no transaction covers both of.                *)
(*                                                                         *)
(* A handler runs without a break up to its next await; renders and        *)
(* queries are awaited, file operations are not.  What a document shows is *)
(* left out: a file holds the id of the request that wrote it.             *)
(***************************************************************************)
EXTENDS Naturals, FiniteSets

CONSTANTS ProjectId,
          Format,     \* ALLOWED_FORMATS
          Zone,       \* by how many minutes a time zone is ahead of another
          Client,
          MaxDocument, MaxMinute, \* bounds
          Nothing

Id == 1 .. MaxDocument
Minute == 0 .. MaxMinute

ASSUME DocumentAssumption ==
  Zone \subseteq Nat /\ MaxDocument \in Nat /\ MaxMinute \in Nat /\ Nothing \notin Id

VARIABLES projects, \* that exist
          minute,   \* the time
          asked,    \* history: what every request asked for that came to its file
          listed,   \* GeneratedDocument, by id
          files,    \* GENERATED_DIR: who wrote the file of a name
          phase, work, \* of each client's request
          lost,     \* history: requests that ended in a crash or in a file
                    \* operation that failed,
          begun     \* and documents that have been removed or begun to be

documentVars == <<projects, minute, asked, listed, files, phase, work, lost, begun>>

(* What a request asks for, with what the clock shows when it names its    *)
(* file.                                                                   *)
Order == [project : ProjectId, format : Format, reading : Nat]

(* Mutant: documents of one minute share a file whatever their format.     *)
FileWithoutFormat(o) == <<o.project, o.reading>>

(* formatExportTimestamp and the name it goes into.                        *)
FileName(o) == <<o.project, o.reading, o.format>>

FileOf(n) == IF n \in DOMAIN files THEN files[n] ELSE Nothing
NameOf(i) == FileName(asked[i])

Writes(n, i) == files' = [m \in DOMAIN files \cup {n} |-> IF m = n THEN i ELSE files[m]]
Unlinks(n) == files' = [m \in DOMAIN files \ {n} |-> files[m]]

Continues(c, to, w) ==
  /\ phase' = [phase EXCEPT ![c] = to]
  /\ work' = [work EXCEPT ![c] = w]

Asked == DOMAIN asked

(* The document that a request has named or found.                         *)
Doc(c) == work[c].doc

DocumentsTyped ==
  /\ projects \subseteq ProjectId /\ minute \in Minute
  /\ Asked \subseteq Id /\ asked \in [Asked -> Order]
  /\ listed \subseteq Asked
  /\ \A n \in DOMAIN files : files[n] \in Asked
  /\ phase \in [Client -> {"idle", "rendering", "written", "found", "unlinked"}]
  /\ lost \subseteq Asked /\ begun \subseteq Asked

----------------------------------------------------------------------------
(* POST /documents/generate.                                               *)

(* The project is there and the request is sound; the backlog is read.     *)
Generate(c, p, f, z) ==
  /\ phase[c] = "idle" /\ p \in projects
  /\ Continues(c, "rendering", [project |-> p, format |-> f, zone |-> z])
  /\ UNCHANGED <<projects, minute, asked, listed, files, lost, begun>>

(* The rendering fails.                                                    *)
RenderFails(c) ==
  /\ phase[c] = "rendering" /\ Continues(c, "idle", Nothing)
  /\ UNCHANGED <<projects, minute, asked, listed, files, lost, begun>>

(* The file is named as soon as there is something to write.               *)
Fresh == Cardinality(Asked) + 1

Names(c) ==
  LET o == [project |-> work[c].project, format |-> work[c].format,
            reading |-> minute + work[c].zone]
  IN  /\ phase[c] = "rendering" /\ Cardinality(Asked) < MaxDocument
      /\ asked' = [j \in Asked \cup {Fresh} |-> IF j = Fresh THEN o ELSE asked[j]]

Write(c) ==
  /\ Names(c)
  /\ Writes(FileName(asked'[Fresh]), Fresh)
  /\ Continues(c, "written", [doc |-> Fresh])
  /\ UNCHANGED <<projects, minute, listed, lost, begun>>

(* writeFileSync may fail before it has opened the file or after, and then *)
(* leaves a part of it: writtenFilePath is not set yet, nothing is cleaned *)
(* up.                                                                     *)
WriteFails(c) ==
  /\ Names(c)
  /\ Writes(FileName(asked'[Fresh]), Fresh) \/ UNCHANGED files
  /\ lost' = lost \cup {Fresh}
  /\ Continues(c, "idle", Nothing)
  /\ UNCHANGED <<projects, minute, listed, begun>>

(* The foreign key refuses a document of a project that has gone.          *)
InsertRow(c) ==
  /\ phase[c] = "written" /\ asked[Doc(c)].project \in projects
  /\ listed' = listed \cup {Doc(c)}
  /\ Continues(c, "idle", Nothing)
  /\ UNCHANGED <<projects, minute, asked, files, lost, begun>>

(* "Clean up orphaned file if DB insert failed after write"                *)
CleansUp(c) == Unlinks(NameOf(Doc(c)))

(* The insert may fail for other reasons too, and then the clean-up.       *)
InsertFails(c) ==
  /\ phase[c] = "written"
  /\ CleansUp(c)
  /\ begun' = begun \cup {Doc(c)}
  /\ Continues(c, "idle", Nothing)
  /\ UNCHANGED <<projects, minute, asked, listed, lost>>

CleanUpFails(c) ==
  /\ phase[c] = "written"
  /\ lost' = lost \cup {Doc(c)}
  /\ Continues(c, "idle", Nothing)
  /\ UNCHANGED <<projects, minute, asked, listed, files, begun>>

----------------------------------------------------------------------------
(* DELETE /documents/:docId.                                               *)

Find(c, i) ==
  /\ phase[c] = "idle" /\ i \in listed
  /\ Continues(c, "found", [doc |-> i])
  /\ UNCHANGED <<projects, minute, asked, listed, files, lost, begun>>

(* The file goes first; a document without its file can be deleted too.    *)
Unlink(c) ==
  /\ phase[c] = "found"
  /\ Unlinks(NameOf(Doc(c)))
  /\ begun' = begun \cup {Doc(c)}
  /\ Continues(c, "unlinked", work[c])
  /\ UNCHANGED <<projects, minute, asked, listed, lost>>

UnlinkFails(c) ==
  /\ phase[c] = "found" /\ Continues(c, "idle", Nothing)
  /\ UNCHANGED <<projects, minute, asked, listed, files, lost, begun>>

(* The row, unless the statement fails; it does if the row has gone.       *)
DeleteRow(c) ==
  /\ phase[c] = "unlinked"
  /\ listed' \in {listed, listed \ {Doc(c)}}
  /\ Continues(c, "idle", Nothing)
  /\ UNCHANGED <<projects, minute, asked, files, lost, begun>>

----------------------------------------------------------------------------
(* DELETE /projects/:id/permanent: rows cascade, nobody looks for files.    *)
DeleteProject(p) ==
  /\ p \in projects
  /\ projects' = projects \ {p}
  /\ listed' = {i \in listed : asked[i].project # p}
  /\ UNCHANGED <<minute, asked, files, phase, work, lost, begun>>

(* The server goes down and comes up again, with it all its requests.      *)
Crash ==
  /\ \E c \in Client : phase[c] # "idle"
  /\ lost' = lost \cup {Doc(c) : c \in {c \in Client : phase[c] = "written"}}
  /\ phase' = [c \in Client |-> "idle"] /\ work' = [c \in Client |-> Nothing]
  /\ UNCHANGED <<projects, minute, asked, listed, files, begun>>

Tick ==
  /\ minute < MaxMinute /\ minute' = minute + 1
  /\ UNCHANGED <<projects, asked, listed, files, phase, work, lost, begun>>

DocumentsInit ==
  /\ projects = ProjectId /\ minute = 0
  /\ asked = <<>> /\ listed = {} /\ files = <<>>
  /\ phase = [c \in Client |-> "idle"] /\ work = [c \in Client |-> Nothing]
  /\ lost = {} /\ begun = {}

DocumentsNext ==
  \/ \E c \in Client :
       \/ \E p \in ProjectId, f \in Format, z \in Zone : Generate(c, p, f, z)
       \/ RenderFails(c) \/ Write(c) \/ WriteFails(c) \/ InsertRow(c) \/ InsertFails(c) \/ CleanUpFails(c)
       \/ \E i \in Id : Find(c, i)
       \/ Unlink(c) \/ UnlinkFails(c) \/ DeleteRow(c)
  \/ \E p \in ProjectId : DeleteProject(p)
  \/ Crash \/ Tick

DocumentsSpec == DocumentsInit /\ [][DocumentsNext]_documentVars

----------------------------------------------------------------------------
(* Requests that asked for the same format of the same project when the    *)
(* clock showed the same minute.                                           *)
SameRequest(i) == {j \in Asked : asked[j] = asked[i]}

(* The file of a document is its own or that of a later request for the    *)
(* same, never of an older one or one for something else; and there is     *)
(* none only if one of these was removed.                                  *)
HasFile(i) ==
  LET file == FileOf(NameOf(i))
  IN  IF file = Nothing THEN SameRequest(i) \cap begun # {} ELSE file \in SameRequest(i) /\ file >= i

(* A listed document can be downloaded and is what was generated, whatever *)
(* else is generated, fails, is deleted or goes down meanwhile; only a     *)
(* request for the very same can take its file.                            *)
ListedHaveFiles == \A i \in listed : HasFile(i)

(* A file that nobody can find is left by a crash, by a file operation     *)
(* that failed or by the deletion of a project, never by a request whose   *)
(* rendering or insert failed ("#176: ... so orphaned files are cleaned up *)
(* on failure").                                                           *)
NoOrphans ==
  \A n \in DOMAIN files :
    LET i == files[n]
    IN  \/ i \in listed \cup lost \/ asked[i].project \notin projects
        \/ \E c \in Client : phase[c] = "written" /\ Doc(c) = i

(* Rows and files belong together.                                         *)
DocumentsKept == DocumentsTyped /\ ListedHaveFiles /\ NoOrphans
=============================================================================
