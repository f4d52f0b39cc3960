---------------------------- MODULE MCChatStream ----------------------------
(***************************************************************************)
(* Instance of ChatStream: two calls, text and reasoning up to two blocks  *)
(* before or between what the calls write, one retry of the post.          *)
(***************************************************************************)
EXTENDS ChatStream

TwoCalls == <<"call_a", "call_b">>
=============================================================================
