----------------------------- MODULE MCRequests -----------------------------
(***************************************************************************)
(* Requests for the ini files of MCCommands, which have no texts, and for  *)
(* files with one or two commands and all kinds of macros, over HTTP and   *)
(* over TCP with blocks of two bytes and keys of two numbers.              *)
(***************************************************************************)
EXTENDS Requests, MCCommands

NoLists == [s \in Section |-> << >>]

Texts0 == [s \in Setting |-> Blank]

(* An ini file without texts.                                              *)
Plain(f) ==
  [sequence |-> f.sequence, defined |-> f.defined, call |-> f.call,
   malformed |-> f.malformed, delay |-> f.delay, repeat |-> f.repeat,
   text |-> Texts0, headers |-> NoLists, vars |-> NoLists, log |-> << >>,
   funcs |-> [s \in Section |-> {}], must |-> Blank, type |-> Blank,
   encryptStart |-> Blank, encryptCt |-> Blank]

Ab ==   \* commands a and b
  Plain([sequence |-> <<"a", "b">>, defined |-> {"a", "b", "default"},
         call |-> [n \in Name |-> ""], malformed |-> {}, delay |-> Blank, repeat |-> Blank])

c0 == Char("0")
c1 == Char("1")
ca == Char("a")
cz == Char("z")
X == Macro("var", "X", << >>)
X01 == Macro("var", "X", <<0, 1>>)
A0 == Macro("args", "0", << >>)
A1 == Macro("args", "1", << >>)
SECRET == Macro("env", "SECRET", << >>)
NOW == Macro("var", "UNIXTIME", << >>)
TIMEX == Macro("var", "TIMEX", << >>)
TIME == Macro("env", "TIME", << >>)
MD5 == Macro("md5", "MD5SUM", << >>)
MD501 == Macro("md5", "MD5SUM", <<0, 1>>)
MD513 == Macro("md5", "MD5SUM", <<1, 3>>)
B64 == Macro("b64", "BASE64ENC", << >>)
PKS == Macro("pks", "PKSENC", << >>)

MCEnv == [s \in {"SECRET", "TIME"} |-> IF s = "SECRET" THEN <<ca>> ELSE <<cz>>]

MCLine == {[s \in {"0"} |-> <<c1, ca>>], [s \in {"0", "1"} |-> IF s = "0" THEN <<A1>> ELSE <<X>>]}

MCCaptured == {<< >>, <<c0, c1>>, <<A0>>}

MCAnswer == {<<0>>, <<0, 1>>, <<0, 2>>, <<0, 3, 2>>, <<1, 0, 2, 3>>, <<2, 1, 0, 3>>}

Header1(t) == <<[name |-> "token", text |-> t]>>

Type1(t) == <<[name |-> "Content-Type", text |-> t]>>

Var1(t) == <<[name |-> "X", pattern |-> t]>>

(* Fields in which macros come in different orders.                        *)
Orders ==
  {[Ab EXCEPT !.text["ReqBody"]["a"] = body, !.text["ReqUrl"]["default"] = url,
              !.text["ReqContentType"]["a"] = type,
              !.headers["default"] = Header1(<<A0, X>>), !.headers["a"] = own,
              !.vars["a"] = Var1(pattern), !.must["a"] = must,
              !.text["ReqBody"]["b"] = second, !.funcs["b"] = functions] :
     body \in {<<A0, X>>, <<X, SECRET, cz>>}, url \in {<<A1>>, <<NOW, X, A0>>},
     type \in {Unset, <<A1>>}, own \in {<< >>, Header1(<<SECRET, X, Colon, A1>>) \o Type1(<<SECRET, Colon, A1>>)},
     pattern \in {<<A1>>, <<X01>>}, must \in {Unset, {"X"}},
     second \in {<<X01>>, <<X, A1>>}, functions \in {{}, {"X"}}}

(* Digests of digests.                                                     *)
Digests ==
  {[Ab EXCEPT !.sequence = <<"a">>, !.text["ReqBody"]["a"] = body,
              !.text["Md5Input"]["a"] = md5, !.text["Base64Input"]["default"] = b64,
              !.text["PKSInput"]["a"] = pks, !.repeat["a"] = 1] :
     body \in {<<MD5, MD501>>, <<PKS, B64>>, <<B64, NOW>>},
     md5 \in {Unset, <<A0, NOW>>, <<B64>>, <<MD5>>},
     b64 \in {Unset, <<A1, A0>>, <<MD5, SECRET>>, <<PKS>>},
     pks \in {Unset, <<A0, Comma, ca, Comma, c1>>, <<NOW>>, <<B64, Comma, Char("-"), A0, Comma, A0>>}}

(* Headers without a colon, with a cut, and cuts that are too long: at     *)
(* once, over TCP, or only when X is captured anew.                        *)
Cuts ==
  {[Ab EXCEPT !.headers["a"] = Header1(text), !.must["default"] = {"X"}] :
     text \in {Unset, <<cz, MD501>>, <<MD513>>}}
    \cup {[Ab EXCEPT !.type["a"] = "TCP", !.text["ReqBody"]["a"] = <<X01>>],
          [Ab EXCEPT !.funcs["a"] = {"X"}, !.vars["a"] = Var1(<<cz>>) \o Var1(<<X01>>)]}

(* Times in the guise of the environment, one of which cannot be read.     *)
Times ==
  {[Ab EXCEPT !.text["ReqBody"]["a"] = <<TIME, A0>>],
   [Ab EXCEPT !.text["ReqBody"]["a"] = <<PKS, MD5>>, !.text["PKSInput"]["a"] = <<TIME>>,
              !.text["Md5Input"]["a"] = <<A0>>],
   [Ab EXCEPT !.text["ReqUrl"]["b"] = <<[TIMEX EXCEPT !.kind = "env"]>>]}

(* The session log, and times that cannot be read.                         *)
Logs ==
  {[Ab EXCEPT !.log = log, !.vars["b"] = Var1(<<cz>>), !.text["Md5Input"]["b"] = md5] :
     log \in {<<X01>>, <<A0, X>>, <<MD5, B64, PKS>>, <<TIMEX>>, <<[NOW EXCEPT !.cut = <<0, 3>>]>>},
     md5 \in {Unset, <<NOW>>, <<TIMEX>>}}

(* TCP: a range, an initial vector and a key that fit or do not.           *)
Tcp ==
  {[Ab EXCEPT !.type["default"] = "TCP", !.type["b"] = "GET",
              !.text["ReqBody"]["a"] = body,
              !.encryptStart["a"] = start, !.encryptCt["a"] = count,
              !.text["EncryptIv"]["a"] = iv, !.text["EncryptKey"]["a"] = key,
              !.vars["a"] = Var1(<<cz>>), !.text["ReqBody"]["b"] = <<X>>] :
     body \in {<<A0, Char(" "), c0, c0, c1, Char("A"), c0, c0>>, <<c0, c0, c0, c0, c0, c0, c0, c1>>, <<A0, cz>>},
     start \in {Unset, 0, 1, 2, 3}, count \in {0, 2, 3, 4},
     iv \in {Unset, <<c0>>}, key \in {<<A0, Comma, c1>>, <<Char("-"), c1, c1, Comma, Char(" "), Char("+"), c1>>,
             <<c1, Comma, c1, c1>>, <<c1>>}}

MCRequestsConfig ==
  {Plain(f) : f \in MCConfig} \cup Orders \cup Digests \cup Cuts \cup Times \cup Logs \cup Tcp

(* The file that shows what a comment of the code says otherwise.          *)
MCEnvTime == {[Ab EXCEPT !.text["ReqBody"]["a"] = <<TIME>>]}

MCPlainLine == {[s \in {"0"} |-> <<c1>>]}
=============================================================================
