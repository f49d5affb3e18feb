SPECIFICATION GlobSpec
CONSTANT Sensitive = {"api_token"}
INVARIANT StarMatchesAnyRun
CHECK_DEADLOCK FALSE
