--------------------------- MODULE HttpReqProofs ---------------------------
(***************************************************************************)
(* For any hosts, paths and cookies a request carries exactly the current  *)
(* cookies of its session.                                                 *)
(***************************************************************************)
EXTENDS HttpReq, SequenceTheorems, TLAPS

(* Every key of the map has its latest Set-Cookie of the session, and      *)
(* every Set-Cookie of the session has its key in the map.                 *)
MapInv ==
  /\ \A k \in DOMAIN cookieMap :
       /\ cookieMap[k] \in opened + 1 .. Len(log)
       /\ Effective(log[cookieMap[k]]) = k
       /\ \A m \in cookieMap[k] + 1 .. Len(log) : Effective(log[m]) # k
  /\ \A n \in opened + 1 .. Len(log) : Effective(log[n]) \in DOMAIN cookieMap

(* The header holds the matching keys that the loop has visited.           *)
Visited == DOMAIN cookieMap \ pending

LoopInv ==
  /\ pc \in {"cookies", "sent"} =>
       /\ \A i \in 1 .. Len(header) :
            /\ header[i].key \in Visited
            /\ Matches(header[i].key)
            /\ header[i].value = cookieMap[header[i].key]
       /\ \A k \in Visited : Matches(k) => \E i \in 1 .. Len(header) : header[i].key = k
       /\ \A i, j \in 1 .. Len(header) : header[i].key = header[j].key => i = j
  /\ pc # "cookies" => pending = {}

Inv == TypeOK /\ MapInv /\ LoopInv

-----------------------------------------------------------------------------
LEMMA EffectiveIsKey ==
  ASSUME NEW c \in SetCookie
  PROVE  Effective(c) \in Key /\ Effective(c).domain = Scope(c) /\ Effective(c).domain # ""
BY HttpReqAssumption DEF Effective, SetCookie, Key, Scope, Domain

LEMMA SameIsSameKey ==
  ASSUME NEW c \in SetCookie, NEW d \in SetCookie
  PROVE  Same(c, d) <=> Effective(c) = Effective(d)
BY DEF Same, Effective, Scope, SetCookie

LEMMA Positive == \A a, b \in Nat : b # 0 => 0 < a \/ (0 = a /\ 0 < b)
OBVIOUS

(* The comparison with a prior cookie never leaves one out, as no key has  *)
(* an empty domain.                                                        *)
LEMMA NeverLeftOut ==
  ASSUME NEW k \in Key, k.domain # ""
  PROVE  MoreSpecific(k)
<1>1. k.domain \in Domain \cup Path /\ k.path \in Domain \cup Path /\ "" \in Domain \cup Path
  BY DEF Key, Domain
<1>2. Size[k.domain] \in Nat /\ Size[k.path] \in Nat /\ Size[k.domain] # 0 /\ Size[""] = 0
  BY <1>1, HttpReqAssumption
<1>3. \/ Size[""] < Size[k.path]
      \/ Size[""] = Size[k.path] /\ Size[""] < Size[k.domain]
  BY <1>2, Positive, Zenon
<1> QED  BY <1>3 DEF MoreSpecific

(* Every key in the map has a domain.                                      *)
LEMMA KeysHaveDomains ==
  ASSUME Inv, NEW k \in DOMAIN cookieMap
  PROVE  k \in Key /\ k.domain # ""
<1>1. k \in Key /\ log \in Seq(SetCookie) /\ opened \in Nat
  BY DEF Inv, TypeOK
<1>2. cookieMap[k] \in opened + 1 .. Len(log) /\ Effective(log[cookieMap[k]]) = k
  BY DEF Inv, MapInv
<1>3. log[cookieMap[k]] \in SetCookie
  BY <1>1, <1>2
<1> QED  BY <1>1, <1>2, <1>3, EffectiveIsKey

-----------------------------------------------------------------------------
LEMMA InvInit == Init => Inv
<1> SUFFICES ASSUME Init PROVE Inv
  OBVIOUS
<1>1. /\ log \in Seq(SetCookie) /\ Len(log) = 0 /\ Len(header) = 0
      /\ header \in Seq([key : Key, value : 1 .. Len(log)])
      /\ DOMAIN cookieMap = {} /\ opened = 0 /\ pending = {}
  BY DEF Init, Empty
<1>2. opened \in 0 .. Len(log)
  BY <1>1
<1>3. TypeOK
  BY <1>1, <1>2 DEF Init, TypeOK
<1>4. MapInv
  BY <1>1 DEF MapInv
<1>5. LoopInv
  BY DEF Init, LoopInv
<1> QED  BY <1>3, <1>4, <1>5 DEF Inv

LEMMA TakeKeepsInv ==
  ASSUME Inv, Take PROVE Inv'
<1>1. /\ pc = "range" /\ pc' = "due" /\ DOMAIN cookieMap' = {} /\ opened' = Len(log)
      /\ UNCHANGED <<host, path, pending, header, log>>
  BY DEF Take, Empty
<1>2. pending = {} /\ log \in Seq(SetCookie)
  BY <1>1 DEF Inv, LoopInv, TypeOK
<1>3. Len(log) \in Nat /\ opened' \in 0 .. Len(log')
  BY <1>1, <1>2
<1>4. TypeOK'
  BY <1>1, <1>2, <1>3 DEF Inv, TypeOK
<1>5. MapInv'
  BY <1>1, <1>3 DEF MapInv
<1>6. LoopInv'
  BY <1>1, <1>2 DEF LoopInv
<1> QED  BY <1>4, <1>5, <1>6 DEF Inv

LEMMA BuildKeepsInv ==
  ASSUME Inv, Build PROVE Inv'
<1>1. /\ pc' = "cookies" /\ path' \in Path
      /\ pending' = DOMAIN cookieMap /\ header' = << >>
      /\ UNCHANGED <<cookieMap, log, opened>>
  BY DEF Build
<1>2. host' \in Host
  BY DEF Build, RequestHost, Domain
<1>3. header' \in Seq([key : Key, value : 1 .. Len(log)]) /\ Len(header') = 0
  BY <1>1
<1>4. TypeOK'
  BY <1>1, <1>2, <1>3 DEF Inv, TypeOK
<1>5. MapInv'
  BY <1>1 DEF Inv, MapInv
<1>6. LoopInv'
  BY <1>1, <1>3 DEF LoopInv, Visited
<1> QED  BY <1>4, <1>5, <1>6 DEF Inv

LEMMA AddCookieKeepsInv ==
  ASSUME Inv, AddCookie PROVE Inv'
<1>1. PICK k \in pending :
        /\ pending' = pending \ {k}
        /\ header' = IF Matches(k) /\ MoreSpecific(k)
                     THEN Append(header, [key |-> k, value |-> cookieMap[k]])
                     ELSE header
  BY DEF AddCookie
<1>2. pc = "cookies" /\ UNCHANGED <<pc, cookieMap, host, path, log, opened>>
  BY DEF AddCookie
<1> DEFINE Entry == [key : Key, value : 1 .. Len(log)]
<1>3. /\ header \in Seq(Entry) /\ log \in Seq(SetCookie) /\ opened \in 0 .. Len(log)
      /\ pending \subseteq DOMAIN cookieMap
  BY DEF Inv, TypeOK
<1>4. k \in DOMAIN cookieMap /\ k \in Key /\ MoreSpecific(k)
  BY <1>1, <1>3, KeysHaveDomains, NeverLeftOut
<1>5. cookieMap[k] \in 1 .. Len(log)
  BY <1>3, <1>4 DEF Inv, MapInv
<1>6. [key |-> k, value |-> cookieMap[k]] \in Entry
  BY <1>4, <1>5
<1> HIDE DEF Entry
<1>7. header' \in Seq(Entry)
  BY <1>1, <1>3, <1>6
<1>8. TypeOK'
  <2>1. header' \in Seq([key : Key, value : 1 .. Len(log')])
    BY <1>2, <1>7 DEF Entry
  <2>2. pending' \subseteq DOMAIN cookieMap'
    BY <1>1, <1>2, <1>3
  <2> QED  BY <1>2, <2>1, <2>2 DEF Inv, TypeOK
<1>9. MapInv'
  BY <1>2 DEF Inv, MapInv
<1>10. Visited' = Visited \cup {k} /\ k \notin Visited
  BY <1>1, <1>2, <1>4 DEF Visited
<1>11. /\ \A i \in 1 .. Len(header) :
            /\ header[i].key \in Visited
            /\ Matches(header[i].key)
            /\ header[i].value = cookieMap[header[i].key]
       /\ \A m \in Visited : Matches(m) => \E i \in 1 .. Len(header) : header[i].key = m
       /\ \A i, j \in 1 .. Len(header) : header[i].key = header[j].key => i = j
  BY <1>2 DEF Inv, LoopInv
<1>12. \A m : Matches(m)' <=> Matches(m)
  BY <1>2 DEF Matches
<1>13. LoopInv'
  <2>1. CASE ~Matches(k)
    <3>1. header' = header
      BY <1>1, <2>1
    <3> QED  BY <1>2, <1>10, <1>11, <1>12, <2>1, <3>1 DEF LoopInv
  <2>2. CASE Matches(k)
    <3>1. header' = Append(header, [key |-> k, value |-> cookieMap[k]])
      BY <1>1, <1>4, <2>2
    <3>2. /\ Len(header) \in Nat /\ Len(header') = Len(header) + 1
          /\ \A i \in 1 .. Len(header) : header'[i] = header[i]
          /\ header'[Len(header) + 1] = [key |-> k, value |-> cookieMap[k]]
      BY <1>3, <3>1
    <3>3. ASSUME NEW i \in 1 .. Len(header')
          PROVE  /\ header'[i].key \in Visited'
                 /\ Matches(header'[i].key)
                 /\ header'[i].value = cookieMap[header'[i].key]
      <4>1. CASE i = Len(header) + 1
        BY <1>10, <2>2, <3>2, <4>1
      <4>2. CASE i # Len(header) + 1
        <5>1. i \in 1 .. Len(header)
          BY <3>2, <4>2
        <5> QED  BY <1>10, <1>11, <3>2, <5>1
      <4> QED  BY <4>1, <4>2
    <3>4. ASSUME NEW m \in Visited', Matches(m)
          PROVE  \E i \in 1 .. Len(header') : header'[i].key = m
      <4>1. CASE m = k
        <5>1. Len(header) + 1 \in 1 .. Len(header')
          BY <3>2
        <5> QED  BY <3>2, <4>1, <5>1
      <4>2. CASE m # k
        <5>1. PICK i \in 1 .. Len(header) : header[i].key = m
          BY <1>10, <1>11, <3>4, <4>2
        <5>2. i \in 1 .. Len(header') /\ header'[i].key = m
          BY <3>2, <5>1
        <5> QED  BY <5>2
      <4> QED  BY <4>1, <4>2
    <3>5. ASSUME NEW i \in 1 .. Len(header'), NEW j \in 1 .. Len(header'),
                 header'[i].key = header'[j].key
          PROVE  i = j
      <4>1. \A n \in 1 .. Len(header) : header'[n].key # k
        BY <1>10, <1>11, <3>2
      <4>2. CASE i \in 1 .. Len(header) /\ j \in 1 .. Len(header)
        BY <1>11, <3>2, <3>5, <4>2
      <4>3. CASE i \notin 1 .. Len(header) \/ j \notin 1 .. Len(header)
        BY <3>2, <3>5, <4>1, <4>3
      <4> QED  BY <4>2, <4>3
    <3> QED  BY <1>2, <1>12, <3>3, <3>4, <3>5 DEF LoopInv
  <2> QED  BY <2>1, <2>2
<1> QED  BY <1>8, <1>9, <1>13 DEF Inv

LEMMA StoreKeepsInv ==
  ASSUME Inv, Store PROVE Inv'
<1>1. PICK c \in SetCookie :
        /\ log' = Append(log, c)
        /\ cookieMap' = [k \in DOMAIN cookieMap \cup {Effective(c)} |->
                           IF k = Effective(c) THEN Len(log) + 1 ELSE cookieMap[k]]
  BY DEF Store
<1>2. /\ pc # "cookies" /\ pc' = "answer"
      /\ UNCHANGED <<host, path, pending, header, opened>>
  BY DEF Store
<1>3. /\ log \in Seq(SetCookie) /\ opened \in 0 .. Len(log) /\ Len(log) \in Nat
      /\ pending = {} /\ DOMAIN cookieMap \subseteq Key
  <2>1. log \in Seq(SetCookie) /\ opened \in 0 .. Len(log) /\ DOMAIN cookieMap \subseteq Key
    BY DEF Inv, TypeOK
  <2>2. pending = {}
    BY <1>2 DEF Inv, LoopInv
  <2> QED  BY <2>1, <2>2
<1>4. /\ log' \in Seq(SetCookie) /\ Len(log') = Len(log) + 1
      /\ log'[Len(log) + 1] = c
      /\ \A n \in 1 .. Len(log) : log'[n] = log[n]
  BY <1>1, <1>3
<1>5. TypeOK'
  <2>1. header \in Seq([key : Key, value : 1 .. Len(log)])
    BY DEF Inv, TypeOK
  <2>2. [key : Key, value : 1 .. Len(log)] \subseteq [key : Key, value : 1 .. Len(log')]
    BY <1>3, <1>4
  <2>3. header' \in Seq([key : Key, value : 1 .. Len(log')])
    BY <1>2, <2>1, <2>2, SeqMonotonic
  <2>4. DOMAIN cookieMap' \subseteq Key
    BY <1>1, <1>3, EffectiveIsKey
  <2>5. opened' \in 0 .. Len(log')
    BY <1>2, <1>3, <1>4
  <2> QED  BY <1>2, <1>3, <1>4, <2>3, <2>4, <2>5 DEF Inv, TypeOK
<1>6. /\ \A k \in DOMAIN cookieMap :
           /\ cookieMap[k] \in opened + 1 .. Len(log)
           /\ Effective(log[cookieMap[k]]) = k
           /\ \A m \in cookieMap[k] + 1 .. Len(log) : Effective(log[m]) # k
      /\ \A n \in opened + 1 .. Len(log) : Effective(log[n]) \in DOMAIN cookieMap
  BY DEF Inv, MapInv
<1>7. MapInv'
  <2>1. ASSUME NEW k \in DOMAIN cookieMap'
        PROVE  /\ cookieMap'[k] \in opened' + 1 .. Len(log')
               /\ Effective(log'[cookieMap'[k]]) = k
               /\ \A m \in cookieMap'[k] + 1 .. Len(log') : Effective(log'[m]) # k
    <3>1. CASE k = Effective(c)
      <4>1. cookieMap'[k] = Len(log) + 1
        BY <1>1, <3>1
      <4> QED  BY <1>2, <1>3, <1>4, <3>1, <4>1
    <3>2. CASE k # Effective(c)
      <4>1. k \in DOMAIN cookieMap /\ cookieMap'[k] = cookieMap[k]
        BY <1>1, <3>2
      <4>2. cookieMap[k] \in 1 .. Len(log) /\ cookieMap[k] \in opened' + 1 .. Len(log')
        BY <1>2, <1>3, <1>4, <1>6, <4>1
      <4>3. ASSUME NEW m \in cookieMap[k] + 1 .. Len(log') PROVE Effective(log'[m]) # k
        <5>1. CASE m = Len(log) + 1
          BY <1>4, <3>2, <5>1
        <5>2. CASE m # Len(log) + 1
          <6>1. m \in cookieMap[k] + 1 .. Len(log) /\ m \in 1 .. Len(log)
            BY <1>3, <1>4, <4>2, <5>2
          <6> QED  BY <1>4, <1>6, <4>1, <6>1
        <5> QED  BY <5>1, <5>2
      <4> QED  BY <1>4, <1>6, <4>1, <4>2, <4>3
    <3> QED  BY <3>1, <3>2
  <2>2. ASSUME NEW n \in opened' + 1 .. Len(log') PROVE Effective(log'[n]) \in DOMAIN cookieMap'
    <3>1. CASE n = Len(log) + 1
      BY <1>1, <1>4, <3>1
    <3>2. CASE n # Len(log) + 1
      <4>1. n \in opened + 1 .. Len(log) /\ n \in 1 .. Len(log)
        BY <1>2, <1>3, <1>4, <3>2
      <4> QED  BY <1>1, <1>4, <1>6, <4>1
    <3> QED  BY <3>1, <3>2
  <2> QED  BY <2>1, <2>2 DEF MapInv
<1>8. LoopInv'
  BY <1>2, <1>3 DEF LoopInv
<1> QED  BY <1>5, <1>7, <1>8 DEF Inv

(* The other steps change pc only.                                         *)
LEMMA PcKeepsInv ==
  ASSUME Inv, UNCHANGED <<cookieMap, host, path, pending, header, log, opened>>,
         \/ pc' = pc
         \/ pc = "cookies" /\ pending = {} /\ pc' = "sent"
         \/ pc # "cookies" /\ pc' \in {"range", "due", "logged", "panic"}
  PROVE  Inv'
<1>1. TypeOK'
  BY DEF Inv, TypeOK
<1>2. MapInv'
  BY DEF Inv, MapInv
<1>3. \A m : Matches(m)' <=> Matches(m)
  BY DEF Matches
<1>4. LoopInv'
  BY <1>3 DEF Inv, LoopInv, Visited
<1> QED  BY <1>1, <1>2, <1>4 DEF Inv

LEMMA InvStep == Inv /\ [Next]_vars => Inv'
<1> SUFFICES ASSUME Inv, [Next]_vars PROVE Inv'
  OBVIOUS
<1>1. CASE NoRequest \/ BadHeader
  BY <1>1, PcKeepsInv DEF NoRequest, BadHeader
<1>2. CASE RoundTrip
  BY <1>2, PcKeepsInv DEF RoundTrip
<1>3. CASE Answered \/ Continue
  BY <1>3, PcKeepsInv DEF Answered, Continue
<1>4. CASE Panicked \/ UNCHANGED vars
  BY <1>4, PcKeepsInv DEF Panicked, vars
<1> QED
  BY <1>1, <1>2, <1>3, <1>4, TakeKeepsInv, BuildKeepsInv, AddCookieKeepsInv, StoreKeepsInv
     DEF Next

LEMMA AllInvariants == Spec => []Inv
BY InvInit, InvStep, PTL DEF Spec

-----------------------------------------------------------------------------
(* Every variable keeps its type.                                          *)
THEOREM TypeCorrect == Spec => []TypeOK
<1>1. Inv => TypeOK
  BY DEF Inv
<1> QED  BY <1>1, AllInvariants, PTL

(* What has a key in the map is what its session's log says is current.    *)
LEMMA CurrentIsMapped ==
  ASSUME Inv, NEW n \in 1 .. Len(log)
  PROVE  Current(n) <=> /\ Effective(log[n]) \in DOMAIN cookieMap
                        /\ cookieMap[Effective(log[n])] = n
                        /\ Matches(Effective(log[n]))
<1> DEFINE k == Effective(log[n])
<1>1. log \in Seq(SetCookie) /\ opened \in Nat /\ Len(log) \in Nat
  <2>1. log \in Seq(SetCookie) /\ opened \in 0 .. Len(log)
    BY DEF Inv, TypeOK
  <2> QED  BY <2>1
<1>2. log[n] \in SetCookie
  BY <1>1
<1>3. Matches(k) <=> Scope(log[n]) \in EndsIn[host] /\ log[n].path \in StartsWith[path]
  BY <1>2, EffectiveIsKey DEF Matches, Effective
<1>4. ASSUME NEW m \in n + 1 .. Len(log)
      PROVE  Same(log[m], log[n]) <=> Effective(log[m]) = k
  BY <1>1, <1>2, SameIsSameKey
<1>5. ASSUME Current(n) PROVE k \in DOMAIN cookieMap /\ cookieMap[k] = n
  <2>1. n \in opened + 1 .. Len(log)
    BY <1>1, <1>5 DEF Current
  <2>2. k \in DOMAIN cookieMap
    BY <2>1 DEF Inv, MapInv
  <2>3. /\ cookieMap[k] \in opened + 1 .. Len(log)
        /\ Effective(log[cookieMap[k]]) = k
        /\ \A m \in cookieMap[k] + 1 .. Len(log) : Effective(log[m]) # k
    BY <2>2 DEF Inv, MapInv
  <2>4. ~(cookieMap[k] > n)
    BY <1>1, <1>4, <1>5, <2>3 DEF Current
  <2>5. ~(cookieMap[k] < n)
    BY <1>1, <2>3
  <2> QED  BY <1>1, <2>2, <2>3, <2>4, <2>5
<1>6. ASSUME k \in DOMAIN cookieMap, cookieMap[k] = n, Matches(k) PROVE Current(n)
  <2>1. /\ n \in opened + 1 .. Len(log)
        /\ \A m \in n + 1 .. Len(log) : Effective(log[m]) # k
    BY <1>6 DEF Inv, MapInv
  <2> QED  BY <1>1, <1>3, <1>4, <1>6, <2>1 DEF Current
<1> QED  BY <1>3, <1>5, <1>6 DEF Current

(* The header is exact.                                                    *)
THEOREM HeaderCorrect == Spec => []HeaderExact
<1>1. ASSUME Inv, pc = "sent" PROVE HeaderExact
  <2>1. /\ \A i \in 1 .. Len(header) :
             /\ header[i].key \in DOMAIN cookieMap
             /\ Matches(header[i].key)
             /\ header[i].value = cookieMap[header[i].key]
        /\ \A k \in DOMAIN cookieMap :
             Matches(k) => \E i \in 1 .. Len(header) : header[i].key = k
        /\ \A i, j \in 1 .. Len(header) : header[i].key = header[j].key => i = j
    BY <1>1 DEF Inv, LoopInv, Visited
  <2>2. \A k \in DOMAIN cookieMap : Effective(log[cookieMap[k]]) = k
    BY <1>1 DEF Inv, MapInv
  <2>3. ASSUME NEW n \in 1 .. Len(log), Current(n)
        PROVE  \E i \in 1 .. Len(header) : header[i].value = n
    <3> DEFINE k == Effective(log[n])
    <3>1. k \in DOMAIN cookieMap /\ cookieMap[k] = n /\ Matches(k)
      BY <1>1, <2>3, CurrentIsMapped
    <3> HIDE DEF k
    <3>2. PICK i \in 1 .. Len(header) : header[i].key = k
      BY <2>1, <3>1
    <3>3. header[i].value = n
      BY <2>1, <3>1, <3>2
    <3> QED  BY <3>3
  <2>4. ASSUME NEW n \in 1 .. Len(log), NEW i \in 1 .. Len(header), header[i].value = n
        PROVE  Current(n)
    <3>1. /\ header[i].key \in DOMAIN cookieMap /\ Matches(header[i].key)
          /\ cookieMap[header[i].key] = n
      BY <2>1, <2>4
    <3>2. Effective(log[n]) = header[i].key
      BY <2>2, <3>1
    <3> QED  BY <1>1, <3>1, <3>2, CurrentIsMapped
  <2>5. ASSUME NEW i \in 1 .. Len(header), NEW j \in 1 .. Len(header),
               header[i].value = header[j].value
        PROVE  i = j
    <3>1. /\ header[i].key \in DOMAIN cookieMap /\ header[j].key \in DOMAIN cookieMap
          /\ cookieMap[header[i].key] = cookieMap[header[j].key]
      BY <2>1, <2>5
    <3>2. header[i].key = header[j].key
      BY <2>2, <3>1
    <3> QED  BY <2>1, <3>2
  <2> QED  BY <2>3, <2>4, <2>5 DEF HeaderExact
<1>2. Inv => HeaderExact
  BY <1>1 DEF HeaderExact
<1> QED  BY <1>2, AllInvariants, PTL
=============================================================================
