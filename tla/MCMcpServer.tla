---------------------------- MODULE MCMcpServer ----------------------------
(* McpServer beside a few viewers and tabs, with a tool of each kind: the  *)
(* tools left out do a part of what one of these does.                     *)
EXTENDS McpServer

SomeTools == {definitionOf, callersOf, rca, publishSelection, currentSelection}
=============================================================================
