------------------------ MODULE MCRequestTranslation ------------------------
(***************************************************************************)
(* Instance of RequestTranslation: two calls, one of a function and one of *)
(* a custom tool, in transcripts of a few messages.                        *)
(***************************************************************************)
EXTENDS RequestTranslation
=============================================================================
