------------------------------ MODULE YamlState ------------------------------
(* The state of ProjectYaml and what is promised of it.                     *)

CONSTANTS
    Requests,  \* requests in flight at once
    Names,     \* names of proj.* parameters
    Texts,     \* what a metadata field or a parameter may say
    Unset,     \* the default of a metadata field
    None       \* no text, no pending write

\* Unset and None are markers of the model: no text, no name and no row is one.
YamlConstants ==
    /\ Unset \notin Texts /\ None \notin Texts /\ None # Unset
    /\ None \notin Names
    /\ None \notin [state : {"absent", "active", "deleted"}, text : Texts \cup {None}]

ASSUME YamlAssumption == YamlConstants

VARIABLES
    meta,     \* the committed metadata field of the project row
    param,    \* the committed parameter rows
    file,     \* project.yaml in the working tree
    req,      \* the requests
    drifted   \* history: an event the write-back does not repair has happened
              \* since the last edit that ran alone and wrote the file

-----------------------------------------------------------------------------
(* What the file and the imports promise                                   *)

WritingBack(r) == req[r].pc \in {"committed", "metaRead", "paramsRead"}

FileSaysRows ==
    /\ file.meta = meta
    /\ \A n \in Names :
          file.params[n] = IF param[n].state = "active" THEN param[n].text ELSE None

\* The write-back repairs: an edit that overlapped no other request and whose
\* write succeeded leaves project.yaml saying exactly what the rows say, whatever
\* happened before it, and it goes on saying so until edits cross, a write
\* fails, the process dies before one, a pull changes the file, or a parameter
\* is promoted or imported from a template (project_yaml_service.py: "to keep
\* project.yaml in Git in sync with the DB").
FileFollowsRows ==
    ~drifted /\ (\A r \in Requests : ~WritingBack(r)) => FileSaysRows

\* A sync fills gaps: whatever is created, edited or deleted while it runs, it
\* changes no parameter row that exists, deleted ones included, and with
\* nobody else at work it keeps metadata that is set
\* (git_sync_service.py: "DB wins after first write").
ImportsFillGaps ==
    [][\A r \in Requests :
          req[r].op = "sync" /\ req'[r] # req[r] =>
             /\ \A n \in Names : param[n].state # "absent" => param'[n] = param[n]
             /\ req[r].alone /\ meta # Unset => meta' = meta]_<<meta, param, req>>
=============================================================================
