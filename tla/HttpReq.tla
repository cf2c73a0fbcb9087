------------------------------ MODULE HttpReq ------------------------------
(***************************************************************************)
(* The HTTP requests of a client and the cookies of its session            *)
(* (runner.go, httpReq).  A request carries the cookies of cookieMap that  *)
(* match its host and path; the answer's Set-Cookies go back into the map. *)
(* A cookie's value is its place in log, a history of all Set-Cookies.     *)
(* Bodies, other headers and net/http are left out.                        *)
(***************************************************************************)
EXTENDS Integers, Sequences

CONSTANTS
  Name, Host, Path,  \* of cookies, servers and URLs
  Size,              \* the length of a host or a path; "" has none
  EndsIn,            \* EndsIn[h]: the domains that h ends in (HasSuffix)
  StartsWith,        \* StartsWith[p]: the cookie paths that p starts with
  Unset,             \* a header that is not given
  MaxCookies         \* bound: Set-Cookies in all

Domain == Host \cup {""}

ASSUME HttpReqAssumption ==
  /\ "" \notin Host
  /\ Size \in [Domain \cup Path -> Nat]
  /\ \A s \in Domain \cup Path : Size[s] = 0 <=> s = ""
  /\ EndsIn \in [Host -> SUBSET Domain]
  /\ StartsWith \in [Path -> SUBSET Path]
  /\ MaxCookies \in Nat

(* What a Set-Cookie says, and by whom: domain "" is a missing attribute.  *)
SetCookie == [from : Host, name : Name, domain : Domain, path : Path]

Key == [name : Name, domain : Domain, path : Path]

VARIABLES
  pc,         \* where the client is
  cookieMap,  \* cookieMap of the session: a function on some of Key
  host,       \* req.Host of the request
  path,       \* req.URL.Path
  pending,    \* keys the range over cookieMap has yet to visit
  header,     \* the Cookie header, as keys and values
  log,        \* history: every Set-Cookie
  opened      \* history: length of log when the session began

vars == <<pc, cookieMap, host, path, pending, header, log, opened>>

Empty == [k \in {} |-> 0]

Init ==
  /\ pc = "range"
  /\ cookieMap = Empty
  /\ host \in Host /\ path \in Path
  /\ pending = {}
  /\ header = << >>
  /\ log = << >>
  /\ opened = 0

-----------------------------------------------------------------------------
(* A line starts a session with a new map.                                 *)
Take ==
  /\ pc = "range"
  /\ cookieMap' = Empty
  /\ opened' = Len(log)
  /\ pc' = "due"
  /\ UNCHANGED <<host, path, pending, header, log>>

BugRequestHost(url, default, own) ==   \* an empty Host header is taken
  IF own # Unset THEN own ELSE IF default # Unset THEN default ELSE url

(* req.Host is the Host header, if there is one: a command's replaces that *)
(* of default, even by nothing.                                            *)
RequestHost(url, default, own) ==
  LET hdr == IF own # Unset THEN own ELSE default IN
    IF hdr \in {"", Unset} THEN url ELSE hdr

(* The request up to its cookies.                                          *)
Build ==
  /\ pc = "due"
  /\ \E url \in Host, default, own \in Domain \cup {Unset} :
       host' = RequestHost(url, default, own)
  /\ path' \in Path
  /\ pending' = DOMAIN cookieMap
  /\ header' = << >>
  /\ pc' = "cookies"
  /\ UNCHANGED <<cookieMap, log, opened>>

(* An upload that does not open, a URL that cannot be parsed.              *)
NoRequest ==
  /\ pc = "due"
  /\ pc' = "logged"
  /\ UNCHANGED <<cookieMap, host, path, pending, header, log, opened>>

(* A header without a colon: str[1] panics.                                *)
BadHeader ==
  /\ pc = "due"
  /\ pc' = "panic"
  /\ UNCHANGED <<cookieMap, host, path, pending, header, log, opened>>

Matches(k) == k.domain \in EndsIn[host] /\ k.path \in StartsWith[path]

(* A prior cookie is read back from the header, where it has neither path  *)
(* nor domain.                                                             *)
MoreSpecific(k) ==
  \/ \A i \in 1 .. Len(header) : header[i].key.name # k.name
  \/ Size[""] < Size[k.path]
  \/ Size[""] = Size[k.path] /\ Size[""] < Size[k.domain]

(* One turn of the loop over cookieMap, in whatever order Go ranges.       *)
AddCookie ==
  /\ pc = "cookies"
  /\ \E k \in pending :
       /\ pending' = pending \ {k}
       /\ header' = IF Matches(k) /\ MoreSpecific(k)
                    THEN Append(header, [key |-> k, value |-> cookieMap[k]])
                    ELSE header
  /\ UNCHANGED <<pc, cookieMap, host, path, log, opened>>

RoundTrip ==
  /\ pc = "cookies"
  /\ pending = {}
  /\ pc' = "sent"
  /\ UNCHANGED <<cookieMap, host, path, pending, header, log, opened>>

BugEffectivePath(c) ==   \* the path is not part of the key
  [name |-> c.name, domain |-> IF c.domain = "" THEN c.from ELSE c.domain, path |-> ""]

(* The key of a Set-Cookie: a missing domain is the host of the request.   *)
Effective(c) ==
  [name |-> c.name, domain |-> IF c.domain = "" THEN c.from ELSE c.domain, path |-> c.path]

(* One Set-Cookie of the answer.                                           *)
Store ==
  /\ pc \in {"sent", "answer"}
  /\ Len(log) < MaxCookies
  /\ \E c \in SetCookie :
       /\ c.from = host
       /\ log' = Append(log, c)
       /\ cookieMap' = [k \in DOMAIN cookieMap \cup {Effective(c)} |->
                          IF k = Effective(c) THEN Len(log) + 1 ELSE cookieMap[k]]
  /\ pc' = "answer"
  /\ UNCHANGED <<host, path, pending, header, opened>>

(* The answer has no (more) cookies, or there is none.                     *)
Answered ==
  /\ pc \in {"sent", "answer"}
  /\ pc' = "logged"
  /\ UNCHANGED <<cookieMap, host, path, pending, header, log, opened>>

(* The session goes on with the same map, or the client with another line. *)
Continue ==
  /\ pc = "logged"
  /\ pc' \in {"due", "range"}
  /\ UNCHANGED <<cookieMap, host, path, pending, header, log, opened>>

Panicked == pc = "panic" /\ UNCHANGED vars

Next ==
  \/ Take \/ Build \/ NoRequest \/ BadHeader \/ AddCookie \/ RoundTrip
  \/ Store \/ Answered \/ Continue
  \/ Panicked

Spec == Init /\ [][Next]_vars

-----------------------------------------------------------------------------
TypeOK ==
  /\ pc \in {"range", "due", "cookies", "sent", "answer", "logged", "panic"}
  /\ host \in Host /\ path \in Path
  /\ DOMAIN cookieMap \subseteq Key
  /\ pending \subseteq DOMAIN cookieMap
  /\ header \in Seq([key : Key, value : 1 .. Len(log)])
  /\ log \in Seq(SetCookie)
  /\ opened \in 0 .. Len(log)

(* The n-th Set-Cookie is what this request should carry: it is of this    *)
(* session, its domain (or the host it came from) and its path match, and  *)
(* none after it has the same name, domain and path.                       *)
Scope(c) == IF c.domain = "" THEN c.from ELSE c.domain

Same(c, d) == c.name = d.name /\ c.path = d.path /\ Scope(c) = Scope(d)

Current(n) ==
  /\ n > opened
  /\ Scope(log[n]) \in EndsIn[host] /\ log[n].path \in StartsWith[path]
  /\ \A m \in n + 1 .. Len(log) : ~Same(log[m], log[n])

(* A request carries the current cookies, each once, and no others: none   *)
(* of another line's session, none overwritten, and none left out by the   *)
(* comparison with a prior cookie of its name.                             *)
HeaderExact ==
  pc = "sent" =>
    /\ \A n \in 1 .. Len(log) :
         Current(n) <=> \E i \in 1 .. Len(header) : header[i].value = n
    /\ \A i, j \in 1 .. Len(header) : header[i].value = header[j].value => i = j

(* "replace it if this cookie's path is more specific": of cookies with    *)
(* one name only the most specific is sent.                                *)
OnePerName ==
  pc = "sent" =>
    \A i, j \in 1 .. Len(header) : header[i].key.name = header[j].key.name => i = j
=============================================================================
