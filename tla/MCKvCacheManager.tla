-------------------------- MODULE MCKvCacheManager --------------------------
(* Instances of KvCacheManager for TLC: the token counts of the contents.   *)
EXTENDS KvCacheManager

\* What /slots shows of three contents and what their files hold: the first one
\* always differs from its own file, the second starts a new conversation, the
\* third shows what the file of the first holds.
ShownTokens == <<4, 1, 5>>
SavedTokens == <<5, 1, 6>>
=============================================================================
