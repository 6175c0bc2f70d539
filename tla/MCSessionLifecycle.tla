-------------------------- MODULE MCSessionLifecycle --------------------------
(* SessionLifecycle with one client that says everything a client can say, *)
(* and another that only asks to be admitted.                              *)
EXTENDS SessionLifecycle, TLC

CONSTANTS talker, visitor

MessagesOfTwo == talker :> 4 @@ visitor :> 0
=============================================================================
