----------------------------- MODULE MCHttpReq -----------------------------
(***************************************************************************)
(* HttpReq with a host and a host within it, and a path and none.          *)
(***************************************************************************)
EXTENDS HttpReq

MCHost == {"a", "www.a"}

MCPath == {"", "/"}

MCSize == [s \in Domain \cup Path |->
  CASE s = "" -> 0 [] s \in {"a", "/"} -> 1 [] OTHER -> 5]

MCEndsIn == [h \in Host |-> IF h = "a" THEN {"", "a"} ELSE {"", "a", "www.a"}]

MCStartsWith == [p \in Path |-> {"", p}]
=============================================================================
