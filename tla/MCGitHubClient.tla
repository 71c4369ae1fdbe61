--------------------------- MODULE MCGitHubClient ---------------------------
(* Constants of the TLC run of GitHubClient: three callers, so that one can
   look while a second writes and a third waits; a clock that lets a token
   fall due and be renewed. *)
EXTENDS GitHubClient

CONSTANTS c1, c2, c3

CallerSet == {c1, c2, c3}
=============================================================================
