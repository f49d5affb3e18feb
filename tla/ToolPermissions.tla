--------------------------- MODULE ToolPermissions ---------------------------
(***************************************************************************)
(* The permission checker of sc-tool-core (crates/sc-tool-core/src/lib.rs):*)
(* a pure function from the permission configuration, a tool name and the  *)
(* arguments of a call to "Allow", "Ask" or "Deny".                        *)
(*                                                                         *)
(* A permission configuration is a record                                  *)
(*   [default_policy : raw policy word,                                    *)
(*    tools : [entry names -> [policy, allow_patterns, deny_patterns]]].   *)
(* The arguments of a call are abstracted to the match target that can be  *)
(* derived from them, or NoTarget when none can (missing, empty or         *)
(* malformed "cmd" or "path").                                             *)
(***************************************************************************)

CONSTANTS NoTarget,    \* the target of arguments nothing can be derived from
          AllowMatch,  \* <<pattern, target>>: the pattern matches as an allow pattern
          DenyMatch    \* <<pattern, target>>: the pattern matches as a deny pattern

(***************************************************************************)
(* MatchTarget::matches: a shell allow pattern is anchored at the start of *)
(* the command and a shell deny pattern matches anywhere in it, a file     *)
(* pattern matches in the same way in both roles.  So what matches as an   *)
(* allow pattern matches as a deny pattern.                                *)
(***************************************************************************)
ASSUME MatchAssumption == AllowMatch \subseteq DenyMatch

FILE_FAMILY_TOOLS == {"read_file", "write_file", "list_dir"}

\* Tools derive_target has an extractor for.
Extractors == {"shell", "file"} \cup FILE_FAMILY_TOOLS

-----------------------------------------------------------------------------
EntryKey(perms, tool) ==
  IF tool \in FILE_FAMILY_TOOLS /\ tool \notin DOMAIN perms.tools THEN "file" ELSE tool

HasEntry(perms, tool) == EntryKey(perms, tool) \in DOMAIN perms.tools

entry_for(perms, tool) == perms.tools[EntryKey(perms, tool)]

policy_for(perms, tool) ==
  IF HasEntry(perms, tool) THEN entry_for(perms, tool).policy ELSE perms.default_policy

\* Policy::from_raw on a lower-cased word; a word it does not know asks.
PolicyUnknownAllows(raw) ==
  CASE raw \in {"deny", "denied"}                                           -> "Deny"
    [] raw \in {"ask", "approval", "require_approval", "approval_required"} -> "Ask"
    [] OTHER                                                                -> "Allow"

Policy(raw) == CASE raw \in {"allow", "allowed"} -> "Allow"
                 [] raw \in {"deny", "denied"}   -> "Deny"
                 [] OTHER                        -> "Ask"

derive_target(tool, args) == IF tool \in Extractors THEN args ELSE NoTarget

-----------------------------------------------------------------------------
HasPatterns(perms, tool) ==
  /\ HasEntry(perms, tool)
  /\ \/ entry_for(perms, tool).allow_patterns # {}
     \/ entry_for(perms, tool).deny_patterns # {}

first_deny_match(entry, target) ==
  \E p \in entry.deny_patterns : <<p, target>> \in DenyMatch

any_allow_match(entry, target) ==
  \E p \in entry.allow_patterns : <<p, target>> \in AllowMatch

RefusedAllowWins(perms, tool, args) ==
  LET entry  == entry_for(perms, tool)
      target == derive_target(tool, args)
  IN  \/ target = NoTarget
      \/ first_deny_match(entry, target) /\ ~any_allow_match(entry, target)
      \/ entry.allow_patterns # {} /\ ~any_allow_match(entry, target)

\* What the patterns of a tool's entry refuse.  The entry is only read when
\* it has patterns: deny patterns win, then a non-empty allow list must match.
RefusedByPatterns(perms, tool, args) ==
  LET entry  == entry_for(perms, tool)
      target == derive_target(tool, args)
  IN  \/ target = NoTarget
      \/ first_deny_match(entry, target)
      \/ entry.allow_patterns # {} /\ ~any_allow_match(entry, target)

check_permission(perms, tool, args) ==
  IF HasPatterns(perms, tool) /\ RefusedByPatterns(perms, tool, args)
  THEN "Deny"
  ELSE Policy(policy_for(perms, tool))

Decisions == {"Allow", "Ask", "Deny"}
=============================================================================
