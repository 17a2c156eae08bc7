----------------------------- MODULE MCUastEval -----------------------------
(* Two goroutines.  The rows give a supported language, one that a partly
   filled list lacks, one that the server does not know, none with a content
   that makes the characters of the first row, no content and too much. *)
EXTENDS UastEval

MCMode == <<"m">>

MCManifests == <<<<"a">>, <<"b">>>>

MCRows ==
  {[lang |-> <<"a">>, blob |-> <<"x">>], [lang |-> <<"b">>, blob |-> <<"x">>],
   [lang |-> <<"z">>, blob |-> <<"x">>], [lang |-> <<>>, blob |-> <<"a", "x">>],
   [lang |-> <<"a">>, blob |-> <<>>], [lang |-> <<"a">>, blob |-> <<"x", "x", "x">>]}
=============================================================================
