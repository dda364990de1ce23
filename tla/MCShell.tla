------------------------------ MODULE MCShell -------------------------------
(* Shell for TLC.                                                          *)
EXTENDS Shell

MCProcs == 0..5
MCRunLines ==
  {<<"echo", "f", "|", "cat", ">", "f">>,
   <<"cd", "f">>, <<"bad">>, <<"a", "b", "c">>,
   <<"cat", "<", "f", ";", "any">>, <<"cat", "absent", "|", "echo", "f">>,
   <<"echo", "f", "&", ";", "cat", "f">>,
   <<"(", "echo", "f", "&", ")", "|", "cat">>,
   <<"echo", "f", "|", "cat", "|", "any">>}
=============================================================================
