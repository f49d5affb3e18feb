--------------------------- MODULE MCAgentSession ---------------------------
(***************************************************************************)
(* A session with the default kind of configuration: file tools allowed,   *)
(* the shell asks and has a deny pattern, one registered tool is missing.  *)
(***************************************************************************)
EXTENDS AgentSession

CONSTANTS ls, rm, none

MCAllowMatch == {}
MCDenyMatch  == {<<"rm -rf", rm>>}

MCRegistry == {"read_file", "shell"}

MCCalls == {[name |-> "read_file", args |-> ls],   \* allowed by the family entry
            [name |-> "shell", args |-> ls],       \* asks
            [name |-> "shell", args |-> rm],       \* hits the deny pattern
            [name |-> "fetch", args |-> none]}     \* not registered

\* What a model may ask for without end: a call that is run.
MCEndlessCalls == {[name |-> "read_file", args |-> ls]}

MCPermissions ==
  [default_policy |-> "ask",
   tools |-> [file  |-> [policy |-> "allow", allow_patterns |-> {}, deny_patterns |-> {}],
              shell |-> [policy |-> "ask", allow_patterns |-> {}, deny_patterns |-> {"rm -rf"}]]]

\* Two providers; a rule for the enabled one, one for the disabled one and one
\* that asks for the placeholder model.
MCSession ==
  [providers |-> <<"nvidia", "ollama">>, enabled |-> {"ollama"},
   rules |-> <<[match_contains |-> {"mail"}, provider |-> "nvidia", model |-> "m"],
               [match_contains |-> {"bad"}, provider |-> "ollama", model |-> "default"]>>,
   fallback |-> [provider |-> "", model |-> ""]]

MCTasks == {{"mail"}, {"bad"}}
=============================================================================
