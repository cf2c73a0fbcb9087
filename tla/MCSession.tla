----------------------------- MODULE MCSession -----------------------------
(***************************************************************************)
(* Session with three commands: one that captures and repeats, one that    *)
(* captures a second variable and has no MsecRepeat, one that repeats what *)
(* it captures without having to.                                          *)
(***************************************************************************)
EXTENDS Session

MCDelay   == <<1, 0, 2>>
MCRepeat  == <<8, 0, 9>>
MCCapture == <<{"token"}, {"token", "id"}, {"id"}>>
MCMust    == <<{"token"}, {"id"}, {}>>
MCFunc    == <<{}, {"sum"}, {}>>
=============================================================================
