------------------------------ MODULE MCWorkspace ------------------------------
(***************************************************************************)
(* One call of a tool in a small workspace: /w with a directory and a      *)
(* secret in it, /o outside, and perhaps a link in /w that leads to the    *)
(* directory, out of the workspace, or nowhere.                            *)
(***************************************************************************)
EXTENDS Workspace

CONSTANTS t1, t2, none  \* match targets, and none

MCAllowMatch == {<<"git", t1>>}
MCDenyMatch  == {<<"git", t1>>, <<"push", t1>>, <<"push", t2>>}

\* Every tool is allowed, but not with t1.
MCToolPolicies ==
  [default_policy |-> "deny",
   tools |-> [entry \in {"shell", "file"} |->
                [policy |-> "allow", allow_patterns |-> {}, deny_patterns |-> {"git"}]]]

MCWorkingDir == <<"w">>

Absolute(parts) == [absolute |-> TRUE,  parts |-> parts]
Relative(parts) == [absolute |-> FALSE, parts |-> parts]

MCPaths ==
  {Absolute(<<"w", "d", "f">>), Absolute(<<"o", "f">>), Relative(<<"l", "f">>), Relative(<<"l">>),
   Relative(<<"d", "..", "..", "o", "f">>), Relative(<<"l", "..", "d", ".", "f">>),
   Relative(<<"d", "secret">>), Relative(<<"new", "er", "f">>), Relative(<<"l", "new", "f">>)}

FileInput(tool, target, path, content) ==
  [tool |-> tool, target |-> target, path |-> path, content |-> content, cmd |-> {}, timeout_secs |-> {}]

ShellInput(target, cmd, timeout_secs) ==
  [tool |-> "shell", target |-> target, path |-> {}, content |-> {}, cmd |-> cmd, timeout_secs |-> timeout_secs]

MCInputs ==
  {FileInput(tool, t2, {path}, {"text"}) :
     tool \in {"read_file", "write_file", "list_dir"}, path \in MCPaths}
  \cup {FileInput("write_file", t2, {Absolute(<<"w", "d", "f">>)}, {}),
        FileInput("read_file", t1, {Absolute(<<"w", "d", "f">>)}, {}),
        FileInput("read_file", none, {}, {})}
  \cup {ShellInput(none, cmd, {}) : cmd \in {{}, {<<>>}}}
  \cup {ShellInput(target, {<<"make">>}, secs) : target \in {t1, t2}, secs \in {{}, {1}}}

MCWorkspaceConfigs ==
  {[allow |-> {<<"w", "**">>}, deny |-> {<<"**", "secret", "**">>}], [allow |-> {<<"w", "d">>}, deny |-> {}],
   [allow |-> {<<"w">>, <<"o">>}, deny |-> {}], [allow |-> {}, deny |-> {}],
   [allow |-> {<<"w">>, <<"o">>}, deny |-> {<<"**", "d">>}]}

\* The disk with some of its parts.
MCDisk(links, dirs) ==
  [path \in {<<>>, <<"w">>, <<"o">>, <<"o", "f">>} \cup DOMAIN links \cup DOMAIN dirs |->
     IF path \in DOMAIN links THEN links[path]
     ELSE IF path \in DOMAIN dirs THEN dirs[path]
     ELSE IF path = <<"o", "f">> THEN File("outside") ELSE Dir]

MCDisks ==
  {MCDisk(links, dirs) :
     links \in {<<>>} \cup {[path \in {<<"w", "l">>} |-> Link(to)] : to \in {<<"o">>, <<"w", "d">>, <<"gone">>}},
     dirs  \in {<<>>, [path \in {<<"w", "d">>, <<"w", "d", "f">>, <<"w", "d", "secret">>} |->
                        IF path = <<"w", "d">> THEN Dir ELSE File("old")]}}

MCMeddling == {<<<<"w", "l">>, Link(<<"o">>)>>, <<<<"w", "d", "f">>, File("other")>>, <<<<"w", "new">>, Link(<<"o">>)>>}
=============================================================================
