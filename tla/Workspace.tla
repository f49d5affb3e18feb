------------------------------- MODULE Workspace -------------------------------
(***************************************************************************)
(* The tools of sc-node at work: read_file, write_file and list_dir        *)
(* (crates/sc-tool-file/src/lib.rs), and shell                             *)
(* (crates/sc-tool-shell/src/lib.rs) with the SandboxedCommand it builds   *)
(* (crates/sc-sandbox/src/lib.rs).  A tool is called directly, as by any   *)
(* user of the crate, so that its own checks count.                        *)
(*                                                                         *)
(* An action is the code up to one call of the operating system.  Between  *)
(* two of them another process may change the disk; a call of the system   *)
(* may fail.  An optional argument is a set of at most one value.  What a  *)
(* permission pattern is matched against is the field target of an input.  *)
(***************************************************************************)
EXTENDS ToolPermissions, Sandbox

CONSTANTS Inputs,          \* [tool, target, path, content, cmd, timeout_secs]
          ToolPolicies,    \* the ToolPermissions of the context
          WorkspaceConfigs, \* its WorkspaceConfig is one of these
          working_dir,
          Disks,           \* what the disk may hold at first
          Meddling,        \* <<path, node>>: what another process may put on the disk
          DEFAULT_TIMEOUT, \* 300 seconds in the code
          MaxElapsed       \* bound: ticks that are counted while a command runs

ASSUME WorkspaceAssumption ==
  /\ working_dir \in Seq(STRING)
  /\ \A called \in Inputs : \A path \in called.path : path.parts \in Seq(STRING)
  /\ \A found \in Disks : IsTree(found) /\ LinksLeadOnce(found)

VARIABLES input, workspace, disk,
          at,       \* where execute is
          safe_path,
          result,   \* [is, text]: a ToolResult, or the kind of a ToolError
          opened,   \* the file a write has opened, as long as it is on the disk
          elapsed,  \* ticks since the command was started
          \* history
          before,   \* the disk when the call was made
          touched,  \* real paths read, listed, made or written by the tool
          nowhere,  \* the checked path goes through a link that leads nowhere
          meddled   \* another process changed the disk during the call

outside == <<input, workspace, before>>
ws_vars == <<input, workspace, disk, at, safe_path, result, opened, elapsed,
             before, touched, nowhere, meddled>>

NoResult == [is |-> "None", text |-> ""]

WorkspaceInit ==
  /\ input \in Inputs /\ workspace \in WorkspaceConfigs /\ disk \in Disks
  /\ at = "called" /\ safe_path = <<>> /\ result = NoResult /\ opened = {} /\ elapsed = 0
  /\ before = disk /\ touched = {} /\ nowhere = FALSE /\ meddled = FALSE

Return(is, text) == at' = "returned" /\ result' = [is |-> is, text |-> text]

Denied == check_permission(ToolPolicies, input.tool, input.target) = "Deny"

IsFileTool == input.tool \in {"read_file", "write_file", "list_dir"}
-----------------------------------------------------------------------------
(* The file tools. *)

MissingArgument == input.path = {} \/ (input.tool = "write_file" /\ input.content = {})

Asked == CHOOSE path \in input.path : TRUE

Start == [read_file |-> "reading", write_file |-> "making dirs", list_dir |-> "listing"]

\* Everything before the first use of the disk by name; the check of the path
\* looks at the disk as it is now.
CheckFileCall ==
  /\ at = "called" /\ IsFileTool
  /\ IF Denied THEN Return("PermissionDenied", "") /\ UNCHANGED <<safe_path, nowhere>>
     ELSE IF MissingArgument THEN Return("InvalidInput", "") /\ UNCHANGED <<safe_path, nowhere>>
     ELSE LET safe == resolve_and_check_path(disk, Asked, working_dir, workspace)
          IN  IF safe = {} THEN Return("PathNotAllowed", "") /\ UNCHANGED <<safe_path, nowhere>>
              ELSE /\ safe_path' = Resolved(Asked, working_dir)
                   /\ nowhere' = \E n \in DOMAIN safe_path' :
                        LET part == SubSeq(safe_path', 1, n)
                        IN  part \in DOMAIN disk /\ ~Exists(disk, part)
                   /\ at' = Start[input.tool] /\ UNCHANGED result
  /\ UNCHANGED <<outside, disk, opened, elapsed, touched, meddled>>

Target == Real(disk, safe_path)

Is(kind, path) == path \in DOMAIN disk /\ disk[path].is = kind

\* Any call of the operating system may fail, whatever is on the disk.
Fails ==
  /\ at \in {"reading", "listing", "making dirs", "opening", "writing"}
  /\ Return("ExecutionFailed", "")
  /\ UNCHANGED <<outside, disk, safe_path, opened, elapsed, touched, nowhere, meddled>>

ReadFile ==
  /\ at = "reading" /\ Is("file", Target)
  /\ Return("Ok", disk[Target].text)
  /\ touched' = {Target}
  /\ UNCHANGED <<outside, disk, safe_path, opened, elapsed, nowhere, meddled>>

\* The listing also says of each entry whether it is a directory, following a link
\* wherever it leads; that question is not counted in touched.
ListDir ==
  /\ at = "listing" /\ Is("dir", Target)
  /\ Return("Ok", "")
  /\ touched' = {Target}
  /\ UNCHANGED <<outside, disk, safe_path, opened, elapsed, nowhere, meddled>>

\* create_dir_all of the parent, one directory at a time.
Parents == {SubSeq(safe_path, 1, n) : n \in 0..(Len(safe_path) - 1)}

MakeDir ==
  /\ at = "making dirs"
  /\ \E parent \in Parents :
       LET real == Real(disk, parent) IN
         /\ parent \notin DOMAIN disk /\ real \notin DOMAIN disk
         /\ real # <<>> /\ Is("dir", Front(real))
         /\ disk' = [path \in DOMAIN disk \cup {real} |-> IF path = real THEN Dir ELSE disk[path]]
         /\ touched' = touched \cup {real}
  /\ UNCHANGED <<outside, at, safe_path, result, opened, elapsed, nowhere, meddled>>

DirsMade ==
  /\ at = "making dirs"
  /\ safe_path = <<>> \/ Is("dir", Real(disk, Front(safe_path)))
  /\ at' = "opening"
  /\ UNCHANGED <<outside, disk, safe_path, result, opened, elapsed, touched, nowhere, meddled>>

\* fs::write: the file is made, or emptied, and then filled; what it opened may
\* have been replaced meanwhile, and is then filled out of sight.
OpenFile ==
  /\ at = "opening"
  /\ Target # <<>> /\ ~Is("dir", Target) /\ Is("dir", Front(Target))
  /\ disk' = [path \in DOMAIN disk \cup {Target} |-> IF path = Target THEN File("") ELSE disk[path]]
  /\ touched' = touched \cup {Target}
  /\ opened' = {Target} /\ at' = "writing"
  /\ UNCHANGED <<outside, safe_path, result, elapsed, nowhere, meddled>>

Fill(text) == disk' = [path \in DOMAIN disk |-> IF path \in opened THEN File(text) ELSE disk[path]]

WriteFailsAsOk == Return("Ok", "")

WriteFails == Return("ExecutionFailed", "")

FillFile ==
  /\ at = "writing"
  /\ \/ Fill(CHOOSE text \in input.content : TRUE) /\ Return("Ok", "")
     \/ Fill("part of it") /\ WriteFails
  /\ UNCHANGED <<outside, safe_path, opened, elapsed, touched, nowhere, meddled>>
-----------------------------------------------------------------------------
(* The shell tool. *)

timeout == IF input.timeout_secs = {} THEN DEFAULT_TIMEOUT
                                      ELSE CHOOSE secs \in input.timeout_secs : TRUE

\* An array without a string in it is an empty command; the working directory
\* is checked by the command itself.
CheckCommand ==
  /\ at = "called" /\ input.tool = "shell"
  /\ IF input.cmd \in {{}, {<<>>}} THEN Return("InvalidInput", "")
     ELSE IF Denied THEN Return("PermissionDenied", "")
     ELSE IF ~is_path_allowed(disk, working_dir, workspace) THEN Return("ExecutionFailed", "")
     ELSE at' = "spawning" /\ UNCHANGED result
  /\ UNCHANGED <<outside, disk, safe_path, opened, elapsed, touched, nowhere, meddled>>

Spawn ==
  /\ at = "spawning"
  /\ \/ at' = "running" /\ UNCHANGED result
     \/ Return("ExecutionFailed", "")
  /\ UNCHANGED <<outside, disk, safe_path, opened, elapsed, touched, nowhere, meddled>>

\* SandboxedCommand keeps the timeout and execute() awaits the output without it.
Tick ==
  /\ at = "running" /\ elapsed < MaxElapsed
  /\ elapsed' = elapsed + 1
  /\ UNCHANGED <<outside, disk, at, safe_path, result, opened, touched, nowhere, meddled>>

\* "" stands for no exit code: the command was killed by a signal.
success(exit_code) == exit_code = "0"

CommandExits ==
  /\ at = "running"
  /\ \E exit_code \in {"0", "1", ""} :
       Return(IF success(exit_code) THEN "Ok" ELSE "OkIsError", exit_code)
  /\ UNCHANGED <<outside, disk, safe_path, opened, elapsed, touched, nowhere, meddled>>
-----------------------------------------------------------------------------
\* Another process puts something in the place of what is there, or nothing.
Meddle ==
  /\ at # "returned" /\ ~meddled /\ meddled' = TRUE
  /\ \E put \in Meddling :
       /\ put[1] # <<>> /\ Is("dir", Front(put[1])) /\ ~Is("dir", put[1])
       /\ disk' = [path \in DOMAIN disk \cup {put[1]} |-> IF path = put[1] THEN put[2] ELSE disk[path]]
       /\ opened' = opened \ {put[1]}
  /\ UNCHANGED <<outside, at, safe_path, result, elapsed, touched, nowhere>>

FileTool == CheckFileCall \/ ReadFile \/ ListDir \/ MakeDir \/ DirsMade \/ OpenFile \/ FillFile \/ Fails
Shell    == CheckCommand \/ Spawn \/ Tick \/ CommandExits

WorkspaceNext == FileTool \/ Shell \/ Meddle

WorkspaceSpec == WorkspaceInit /\ [][WorkspaceNext]_ws_vars
-----------------------------------------------------------------------------
(* Properties. *)

\* A tool reads, lists and writes only where the workspace allows, whatever ".."
\* and links make of the path it was given; the directories it makes are on the
\* way there.  The check comes before the use, so this is promised only while
\* nobody else changes the disk in between; and a link that leads nowhere counts
\* as a path that does not exist yet.
TouchesOnlyAllowed ==
  ~meddled /\ ~nowhere =>
    \A path \in touched :
      \/ is_path_allowed_syntactic(path, workspace)
      \/ path # Target /\ IsPrefix(path, Target)

\* The result tells what happened.  A refused call has touched nothing; a write
\* that returned Ok left all of its content, and one that failed has changed
\* nothing but its file and the directories on the way to it; a read returned
\* what was there when it was called, and a command is an error unless it exits
\* with 0.  Again, as far as nobody else changed the disk.
ResultTellsWhatHappened ==
  at = "returned" =>
    /\ result.is \in {"PermissionDenied", "InvalidInput", "PathNotAllowed"} =>
         touched = {} /\ (~meddled => disk = before)
    /\ ~meddled /\ input.tool = "write_file" =>
         /\ result.is = "Ok" => disk[Target].text \in input.content
         /\ \A path \in DOMAIN disk : path \in touched \/ disk[path] = before[path]
         /\ \A path \in touched : IsPrefix(path, Target)
    /\ ~meddled /\ input.tool = "read_file" /\ result.is = "Ok" =>
         result.text = before[Target].text /\ disk = before
    /\ input.tool = "shell" => (result.is = "Ok" <=> result.text = "0")
-----------------------------------------------------------------------------
(* What the repository says and the code does not do. *)

\* "Shell commands run as an argument vector with a timeout": a command that has
\* run for its timeout is not running any more.
TimeoutEnforced == at = "running" => elapsed <= timeout
=============================================================================
