---------------------------- MODULE MCNestingHints ----------------------------
(* A small instance of NestingHints: two links and a ruby. *)
EXTENDS NestingHints

MCAttrs == {<<"INETFMT", 1>>, <<"INETFMT", 2>>, <<"CJK_RUBY", 1>>}
=============================================================================
