----------------------------- MODULE ClientHello -----------------------------
(***************************************************************************)
(* CSSLHelper (Utilities/SSLHelper.cpp): whether the bytes received from a *)
(* client are a whole client hello, and the host name it asks for.  What   *)
(* the bytes are comes from the other side: a record with one client hello *)
(* message, laid out as TLS prescribes.  A byte of a length counts to Byte *)
(* and the random is RandomLength bytes, so that hellos are short enough   *)
(* to check.                                                               *)
(***************************************************************************)
EXTENDS Integers, Sequences, SequencesExt

CONSTANTS Byte, RandomLength

ASSUME HelloAssumption == Byte \in Nat \ {0, 1} /\ RandomLength \in Nat

-----------------------------------------------------------------------------
\* A hello: the lengths of session id, cipher suites and compression methods,
\* and the extensions, each [type, names, length]: those of type 0 carry names,
\* the others bytes of no concern here.  A name has a type too; that of a host
\* is 0.
Number2(n) == <<n \div Byte, n % Byte>>
Number3(n) == <<n \div (Byte * Byte)>> \o Number2(n % (Byte * Byte))

Filler(n) == [i \in 1 .. n |-> 0]

NameEntry(n) == <<n.type>> \o Number2(Len(n.name)) \o n.name

ExtensionData(e) ==
    IF e.type # 0 THEN Filler(e.length)
    ELSE LET list == FlattenSeq([i \in DOMAIN e.names |-> NameEntry(e.names[i])])
         IN  Number2(Len(list)) \o list

Extension(e) ==
    Number2(e.type) \o Number2(Len(ExtensionData(e))) \o ExtensionData(e)

Message(h) ==
    LET all == FlattenSeq([i \in DOMAIN h.extensions |-> Extension(h.extensions[i])])
    IN  <<3, 3>> \o Filler(RandomLength)
        \o <<h.session>> \o Filler(h.session)
        \o Number2(h.ciphers) \o Filler(h.ciphers)
        \o <<h.compressions>> \o Filler(h.compressions)
        \o (IF h.extensions = <<>> THEN <<>> ELSE Number2(Len(all)) \o all)

Encoded(h) ==
    LET handshake == <<1>> \o Number3(Len(Message(h))) \o Message(h)
    IN  <<22, 3, 3>> \o Number2(Len(handshake)) \o handshake

\* What clients send.
ServerNames     == [type : Nat, name : Seq(Nat)]
HelloExtensions == [type : Nat, names : Seq(ServerNames), length : Nat]
IsHello(h) ==
    /\ h \in [session : Nat, ciphers : Nat, compressions : Nat,
              extensions : Seq(HelloExtensions)]
    /\ \A i \in DOMAIN h.extensions :
          h.extensions[i].type # 0 => h.extensions[i].names = <<>>

\* The name a hello asks for: the first host name in it.
NoName == <<>>

Asks(h) ==
    LET names == FlattenSeq([i \in DOMAIN h.extensions |-> h.extensions[i].names])
        first == SelectInSeq(names, LAMBDA n : n.type = 0)
    IN  IF first = 0 THEN NoName ELSE names[first].name

-----------------------------------------------------------------------------
\* The bytes are numbered from 0, as the pointers of CSSLHelper go.
At(buf, p)     == buf[p + 1]
UINT16(buf, p) == At(buf, p) * Byte + At(buf, p + 1)

CanDecode(buf) ==
    /\ Len(buf) >= 5 /\ UINT16(buf, 3) + 5 <= Len(buf)
    /\ At(buf, 0) = 22 /\ At(buf, 5) = 1

BufEnd(buf) == 5 + 4 + At(buf, 6) * Byte * Byte + UINT16(buf, 7)

\* Behind the version, the random and the three fields of variable length.
Extensions(buf) ==
    LET session      == 9 + 2 + RandomLength
        ciphers      == session + 1 + At(buf, session)
        compressions == ciphers + 2 + UINT16(buf, ciphers)
    IN  compressions + 1 + At(buf, compressions)

\* One round of GetSNI's loops.  It has come to p, inside a list of names that
\* ends at end or, when p is not before end, at an extension; the first host
\* name stops it, and the end of the hello.  Where there are no extensions their
\* length is read all the same, and not used.
Round(buf, at) ==
    LET p == at.p
    IN  IF p < at.end
        THEN IF At(buf, p) = 0 THEN at
             ELSE [p |-> p + 3 + UINT16(buf, p + 1), end |-> at.end]
        ELSE IF p >= BufEnd(buf) THEN at
        ELSE IF UINT16(buf, p) = 0
             THEN [p |-> p + 6, end |-> p + 6 + UINT16(buf, p + 4)]
             ELSE [p |-> p + 4 + UINT16(buf, p + 2), end |-> 0]

\* Where it is after each round: every one takes it a byte further at least.
Rounds(buf) ==
    LET at[k \in 0 .. Len(buf)] ==
            IF k = 0 THEN [p |-> Extensions(buf) + 2, end |-> 0]
            ELSE Round(buf, at[k - 1])
    IN  at

NameFrom(buf) ==
    LET at == Rounds(buf)[Len(buf)]
    IN  IF at.p < at.end
        THEN SubSeq(buf, at.p + 4, at.p + 3 + UINT16(buf, at.p + 1))
        ELSE NoName

\* Mutant: only the first name of a list is looked at.
GetSNIFirst(buf) ==
    LET p == Extensions(buf) + 2
    IN  IF p < BufEnd(buf) /\ UINT16(buf, p) = 0 /\ At(buf, p + 6) = 0
        THEN SubSeq(buf, p + 10, p + 9 + UINT16(buf, p + 7))
        ELSE NoName

GetSNI(buf) == IF CanDecode(buf) THEN NameFrom(buf) ELSE NoName
=============================================================================
