------------------------------- MODULE TcpReq -------------------------------
(***************************************************************************)
(* The bytes of a TCP request and of its reply (runner.go, tcpReq, and     *)
(* crypto.go).  Of a byte of a request only its number is known, of a byte *)
(* AES has made nothing; a byte of a reply is a number.                    *)
(***************************************************************************)
EXTENDS Texts, Integers, Sequences, FiniteSets

CONSTANTS
  BlockSize,  \* aes.BlockSize, 16
  KeySize,    \* numbers in a key, 32
  BufSize,    \* bytes of the buffer a reply is read into, 1024
  Radix       \* values of a byte, 256

ASSUME TcpReqAssumption ==
  /\ BlockSize \in Nat \ {0} /\ KeySize \in Nat \ {0}
  /\ Radix \in Nat \ {0} /\ BufSize \in Nat \ {0, 1}

(* hex.DecodeString.                                                       *)
Decodes(text) == text \in Seq(Hex) /\ Len(text) % 2 = 0

Decode(text) == [i \in 1 .. Len(text) \div 2 |->
  Opaque("byte", 16 * Worth(text[2 * i - 1]) + Worth(text[2 * i]))]

(* EncryptStartByte counts from 1; 0 stands for none.                      *)
Encrypts(start, count) == count > 0 /\ start > 0

InMessage(send, start, count) == start - 1 + count <= Len(send)

WholeBlocks(count) == count >= BlockSize /\ count % BlockSize = 0

TrimSpace(text) ==
  LET ink == {i \in DOMAIN text : text[i] # Char(" ")} IN
    IF ink = {} THEN << >> ELSE SubSeq(text, Min(ink), Max(ink))

(* buildKey: KeySize integers and commas between them.                     *)
KeyReads(text) ==
  LET commas == {i \in DOMAIN text : text[i] = Comma}
      End(i) == Min({j \in commas \cup {Len(text) + 1} : j > i})
      Number(i) == TrimSpace(SubSeq(text, i + 1, End(i) - 1))
  IN
  /\ Cardinality(commas) = KeySize - 1
  /\ \A i \in commas \cup {0} : IsNumber(Number(i), 10) /\ Fits(Number(i), 10)

Occurs(bytes, send, p) ==
  /\ p - 1 + Len(bytes) <= Len(send)
  /\ \A i \in 1 .. Len(bytes) : send[p - 1 + i] = bytes[i]

Aes(bytes) == [i \in 1 .. Len(bytes) |-> [kind |-> "aes", of |-> bytes, at |-> i]]

BugSeal(send, start, count) ==   \* the place is counted from 0
  LET encrypted == Aes(SubSeq(send, start, start + count - 1)) IN
    [i \in 1 .. Len(send) |->
       IF i \in start - 1 .. start + count - 2 THEN encrypted[i - start + 2] ELSE send[i]]

(* The encrypted bytes replace the first place where the bytes occur.      *)
Seal(send, start, count) ==
  LET ebytes == SubSeq(send, start, start + count - 1)
      first == CHOOSE p \in 1 .. start :
                 /\ Occurs(ebytes, send, p)
                 /\ \A q \in 1 .. p - 1 : ~Occurs(ebytes, send, q)
  IN [i \in 1 .. Len(send) |->
        IF i \in first .. first + count - 1 THEN Aes(ebytes)[i - first + 1] ELSE send[i]]

(* One Read has filled the buffer with the bytes that had arrived.         *)
Buffer(arrived) == [i \in 1 .. BufSize |-> IF i <= Len(arrived) THEN arrived[i] ELSE 0]

BugResponseLen(arrived) == Buffer(arrived)[1] + Buffer(arrived)[2] * Radix   \* bytes swapped

ResponseLen(arrived) == Buffer(arrived)[1] * Radix + Buffer(arrived)[2]

Reply(arrived) == SubSeq(Buffer(arrived), 1, ResponseLen(arrived))
=============================================================================
