---------------------------- MODULE MCPlanReview ----------------------------
\* Instances of PlanReview for TLC.
EXTENDS PlanReview

\* A video and its subtitle, whose names the rules, the model and the user can make
\* collide.
MCPairKind == <<"video", "sidecar">>
MCPairOrig == <<"a", "b">>
MCPairRule == <<"a1", "b1">>
MCPairAi == <<"b1", "x">>

\* A video the rules are not sure of, a video and a large unfinished download.
MCMixedKind == <<"unsure", "video", "large">>
MCMixedOrig == <<"a", "b", "c">>
MCMixedRule == <<"a1", "b1", "c">>
MCMixedAi == <<"x", "a1", "y">>

\* Two videos.
MCVideosKind == <<"video", "video">>
=============================================================================
