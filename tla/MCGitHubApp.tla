----------------------------- MODULE MCGitHubApp -----------------------------
(* GitHubApp on two deliveries, two keys and pages of one document.         *)
EXTENDS GitHubApp
=============================================================================
