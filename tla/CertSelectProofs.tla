-------------------------- MODULE CertSelectProofs --------------------------
(***************************************************************************)
(* What the search for a certificate and its creation guarantee, for every *)
(* hello, every list of issuers and every content of the store: first the  *)
(* search and the creation, which depend on how names are compared only in *)
(* that a name matches itself, whatever its capitals; then that            *)
(* HostNameMatches compares them as is meant, and that GetSNI reads from a *)
(* hello the name it asks for.                                             *)
(***************************************************************************)
EXTENDS CertSelect, WellFoundedInduction, SequenceTheorems, TLAPS

\* The steps of CreateCertificate, as a set.
Creating == {"container", "genkey", "encode", "sign", "label", "add", "check"}

-----------------------------------------------------------------------------
(* The inductive invariant.                                                 *)

MadeHere ==
    /\ store \in Seq(Range(store))
    /\ \A i \in DOMAIN store :
          store[i].made => ~store[i].san /\ store[i].named /\ SelfSigned(store[i])

\* What a request has at each point: nothing found before it is done, the
\* search's certificates in front of where it is, and of CreateCertificate
\* what its steps so far have opened.
Progress ==
    /\ pc # "done" => cert = NoCert /\ status = "none"
    /\ pc \in {"idle", "hello", "issuers"} => current = 0 /\ contexts = 0
    /\ saved <= current
    /\ pc \in Creating \cup {"issuers"} \/ role = "client" => saved = 0
    /\ role = "server" => pc # "issuers"
    /\ role = "client" => pc # "hello"
    /\ pc \in {"idle", "hello", "issuers", "search", "container", "encode"} =>
          held = {}
    /\ pc = "genkey" => held = {"provider"}
    /\ pc = "sign" => held = {"encoded"}
    /\ pc \in {"label", "add", "check"} => held = {"encoded", "context"}

Opened == IF "context" \in held THEN 1 ELSE 0
Kept   == IF saved = 0 THEN 0 ELSE 1

ContextsCounted ==
    /\ pc = "search" => contexts = Freed + Kept
    /\ pc \in Creating => contexts = Opened

\* In front of where the server's search is nothing suitable was signed by
\* somebody else, and the certificate saved is the first suitable one.
SearchKept ==
    role = "server" /\ pc = "search" =>
        /\ \A j \in 1 .. current : Suitable(store[j]) =>
              SelfSigned(store[j]) /\ saved # 0 /\ saved <= j
        /\ saved # 0 => Suitable(store[saved])

\* A certificate is created for the server only when none is suitable, and it
\* comes last.
NoneSuitable ==
    role = "server" =>
        /\ pc \in Creating \ {"check"} =>
              \A j \in DOMAIN store : ~Suitable(store[j])
        /\ pc = "check" =>
              /\ store # <<>> /\ store[Len(store)] = Created
              /\ \A j \in 1 .. Len(store) - 1 : ~Suitable(store[j])

\* The certificate the server's request returns: the first suitable one signed
\* by somebody else or, when there is none, the first suitable one.
BestMatch ==
    role = "server" /\ status = "ok" =>
        \E i \in DOMAIN store :
            /\ cert = store[i] /\ Suitable(store[i])
            /\ \A j \in DOMAIN store :
                  Suitable(store[j]) =>
                      \/ j >= i /\ (SelfSigned(cert) => SelfSigned(store[j]))
                      \/ SelfSigned(store[j]) /\ ~SelfSigned(cert)

\* The client goes through the store at large only when it has no certificate
\* from an issuer the server named, but for the one it has just created.
NoneFromIssuer ==
    role = "client" /\ pc \in {"search"} \cup Creating =>
        \A i \in DOMAIN store :
            FromIssuer(i) => pc = "check" /\ "self" \in asked

IInv ==
    /\ TypeOK
    /\ MadeHere
    /\ Progress
    /\ ContextsCounted
    /\ SearchKept
    /\ NoneSuitable
    /\ BestMatch
    /\ NoSecondCertificate
    /\ NoneFromIssuer
    /\ ContextsBalanced
    /\ RequiredGiven

\* What the server has of its request.
HelloKept ==
    role = "server" /\ pc # "idle" =>
        asked \in Hellos /\ arrived \in 0 .. Len(Encoded(asked))

\* The names in the store the server searches are names.
StoreNamed ==
    role = "server" => \A i \in DOMAIN store :
        store[i].cn \in Seq(Nat) /\ store[i].dns \in Seq(Seq(Nat))

NamesInv ==
    /\ HelloKept
    /\ NameFound
    /\ StoreNamed

-----------------------------------------------------------------------------
(* Operators.                                                               *)

\* The steps of CreateCertificate and the order they come in.
LEMMA Steps == Range(CreateSteps) = Creating
BY DEF Range, CreateSteps, Creating

LEMMA NextStep == ASSUME NEW k \in 1 .. 6 PROVE After(CreateSteps[k]) = CreateSteps[k + 1]
<1> DEFINE I == {i \in 1 .. Len(CreateSteps) : CreateSteps[i] = CreateSteps[k]}
<1>1. I = {k}
  BY DEF CreateSteps
<1>2. SelectInSeq(CreateSteps, LAMBDA s : s = CreateSteps[k]) = k
  <2>1. SelectInSeq(CreateSteps, LAMBDA s : s = CreateSteps[k])
          = IF I # {} THEN Min(I) ELSE 0
    BY DEF SelectInSeq
  <2>2. Min({k}) = k
    BY DEF Min
  <2> HIDE DEF I
  <2> QED BY <1>1, <2>1, <2>2
<1> QED BY <1>2 DEF After

LEMMA StepOrder ==
    /\ After("container") = "genkey" /\ After("genkey") = "encode"
    /\ After("encode") = "sign" /\ After("sign") = "label"
    /\ After("label") = "add" /\ After("add") = "check"
    /\ CreateSteps[1] = "container"
<1>1. /\ CreateSteps[1] = "container" /\ CreateSteps[2] = "genkey"
      /\ CreateSteps[3] = "encode" /\ CreateSteps[4] = "sign"
      /\ CreateSteps[5] = "label" /\ CreateSteps[6] = "add"
      /\ CreateSteps[7] = "check"
  BY DEF CreateSteps
<1>2. /\ After(CreateSteps[1]) = CreateSteps[2]
      /\ After(CreateSteps[2]) = CreateSteps[3]
      /\ After(CreateSteps[3]) = CreateSteps[4]
      /\ After(CreateSteps[4]) = CreateSteps[5]
      /\ After(CreateSteps[5]) = CreateSteps[6]
      /\ After(CreateSteps[6]) = CreateSteps[7]
  <2>1. \A k \in 1 .. 6 : After(CreateSteps[k]) = CreateSteps[k + 1]
    BY NextStep
  <2> HIDE DEF CreateSteps
  <2> QED BY <2>1
<1> QED BY <1>1, <1>2

\* A certificate added to the store comes last.
LEMMA Added ==
    ASSUME NEW s, s \in Seq(Range(s)), NEW c
    PROVE  /\ Append(s, c) \in Seq(Range(Append(s, c)))
           /\ Len(s) \in Nat /\ DOMAIN s = 1 .. Len(s)
           /\ Len(Append(s, c)) = Len(s) + 1
           /\ DOMAIN Append(s, c) = 1 .. Len(s) + 1
           /\ \A i \in 1 .. Len(s) : Append(s, c)[i] = s[i]
           /\ Append(s, c)[Len(s) + 1] = c
           /\ Append(s, c) # <<>>
<1> DEFINE S == Range(s) \cup {c}
<1>1. s \in Seq(S)
  OBVIOUS
<1> QED BY <1>1 DEF Range

\* A certificate is suitable for every name that differs from its own in
\* capitals only.
LEMMA OwnName ==
    ASSUME NEW c, ~c.san, c.named, Lower(c.cn) = Lower(subject)
    PROVE  Suitable(c)
BY DEF Suitable, MatchCertHostName, HostNameMatches, DnsNameCompare

\* What counts, with the variables' types spelled out.
Typed ==
    /\ MaxRequests \in Nat
    /\ role \in Roles
    /\ pc \in {"idle", "hello", "issuers", "search", "done"} \cup Creating
    /\ store \in Seq(Range(store)) /\ Len(store) \in Nat
    /\ DOMAIN store = 1 .. Len(store)
    /\ arrived \in Nat /\ current \in 0 .. Len(store) /\ saved \in 0 .. Len(store)
    /\ contexts \in 0 .. 3
    /\ held \subseteq {"provider", "encoded", "context"}
    /\ container \in 1 .. MaxRequests + 1
    /\ status \in {"none", "ok", "failed"} /\ requests \in 0 .. MaxRequests

LEMMA Types == ASSUME TypeOK, MadeHere PROVE Typed
<1>1. Len(store) \in Nat /\ DOMAIN store = 1 .. Len(store)
  BY DEF MadeHere
<1> QED BY <1>1, Steps, RequestsAssumption DEF TypeOK, MadeHere, Typed

LEMMA NoCertUnnamed ==
    /\ \A c : c.named => c # NoCert
    /\ Created # NoCert /\ Created.named /\ ~Created.san /\ SelfSigned(Created)
    /\ Created.cn = subject /\ Created.key = container /\ Created.issuer = "self"
BY DEF NoCert, Created, SelfSigned

LEMMA Untyped == ASSUME Typed PROVE TypeOK
BY Steps DEF TypeOK, Typed

LEMMA StoreKept ==
    ASSUME MadeHere, NoSecondCertificate, UNCHANGED <<store, role>>
    PROVE  MadeHere' /\ NoSecondCertificate'
BY DEF MadeHere, NoSecondCertificate, SelfSigned

-----------------------------------------------------------------------------
(* Each action keeps the invariant.                                         *)

LEMMA InitIInv == ASSUME Init PROVE IInv
<1>1. MadeHere /\ NoSecondCertificate
  BY StoresAssumption DEF Init, MadeHere, NoSecondCertificate, SelfSigned
<1>2. Len(store) \in Nat /\ MaxRequests \in Nat
  BY <1>1, RequestsAssumption DEF MadeHere
<1>3. TypeOK
  BY <1>2 DEF Init, TypeOK
<1>4. Progress /\ ContextsCounted
  BY DEF Init, Progress, ContextsCounted, Creating
<1>5. /\ SearchKept /\ NoneSuitable /\ BestMatch /\ NoneFromIssuer
      /\ ContextsBalanced /\ RequiredGiven
  BY DEF Init, SearchKept, NoneSuitable, BestMatch, NoneFromIssuer,
         ContextsBalanced, RequiredGiven, Creating
<1> QED BY <1>1, <1>3, <1>4, <1>5 DEF IInv

LEMMA Begins == ASSUME IInv, Accept \/ SelectClientCertificate PROVE IInv'
<1>0. Typed
  BY Types DEF IInv
<1>1. /\ requests < MaxRequests /\ requests' = requests + 1
      /\ current' = 0 /\ saved' = 0 /\ cert' = NoCert /\ contexts' = 0
      /\ held' = {} /\ status' = "none" /\ arrived' = 0
      /\ UNCHANGED <<role, store, container>>
  BY DEF Accept, SelectClientCertificate, Begin
<1>2. \/ role = "server" /\ pc' = "hello"
      \/ role = "client" /\ pc' = "issuers"
      \/ role = "client" /\ pc' = "search" /\ asked' = {}
  BY DEF Accept, SelectClientCertificate
<1>3. TypeOK'
  <2>1. requests' \in 0 .. MaxRequests
    BY <1>0, <1>1 DEF Typed
  <2>2. Typed'
    BY <1>0, <1>1, <1>2, <2>1 DEF Typed
  <2> QED BY <2>2, Untyped, PTL
<1>4. MadeHere' /\ NoSecondCertificate'
  BY <1>1, StoreKept DEF IInv
<1>5. Progress' /\ ContextsCounted'
  BY <1>1, <1>2 DEF Progress, ContextsCounted, Creating, Freed, Kept
<1>6. SearchKept' /\ NoneSuitable' /\ ContextsBalanced' /\ RequiredGiven'
  BY <1>1, <1>2 DEF SearchKept, NoneSuitable, ContextsBalanced, RequiredGiven, Creating
<1>7. BestMatch' /\ NoneFromIssuer'
  BY <1>1, <1>2 DEF BestMatch, NoneFromIssuer, FromIssuer, Creating
<1> QED BY <1>3, <1>4, <1>5, <1>6, <1>7 DEF IInv

LEMMA Receives == ASSUME IInv, ReceiveHello PROVE IInv'
<1>0. Typed
  BY Types DEF IInv
<1>1. /\ pc = "hello" /\ pc' \in {"hello", "search"}
      /\ UNCHANGED <<role, store, current, saved, cert, contexts, held, container,
                     status, requests>>
  BY DEF ReceiveHello, searchVars, createVars
<1>2. role # "client" /\ current = 0 /\ contexts = 0 /\ saved = 0 /\ held = {}
      /\ cert = NoCert /\ status = "none"
  BY <1>0, <1>1 DEF IInv, Progress, Typed
<1>3. TypeOK'
  <2>1. PICK n \in arrived + 1 .. Len(Encoded(asked)) : arrived' = n
    BY DEF ReceiveHello
  <2>2. arrived' \in Nat
    BY <1>0, <2>1 DEF Typed
  <2>3. Typed'
    BY <1>0, <1>1, <2>2 DEF Typed
  <2> QED BY <2>3, Untyped, PTL
<1>4. MadeHere' /\ NoSecondCertificate'
  BY <1>1, StoreKept DEF IInv
<1>5. Progress' /\ ContextsCounted'
  BY <1>1, <1>2 DEF Progress, ContextsCounted, Creating, Freed, Kept
<1>6. SearchKept' /\ NoneSuitable' /\ ContextsBalanced' /\ RequiredGiven'
  BY <1>1, <1>2 DEF SearchKept, NoneSuitable, ContextsBalanced, RequiredGiven, Creating
<1>7. BestMatch' /\ NoneFromIssuer'
  BY <1>1, <1>2 DEF BestMatch, NoneFromIssuer, Creating
<1> QED BY <1>3, <1>4, <1>5, <1>6, <1>7 DEF IInv

LEMMA StoreMissing == ASSUME IInv, NoStore PROVE IInv'
<1>0. Typed
  BY Types DEF IInv
<1>1. /\ pc = "search" /\ current = 0
      /\ UNCHANGED <<role, asked, arrived, subject, store, current, saved, cert,
                     contexts, held, container, requests>>
  BY DEF NoStore, searchVars, createVars
<1>2. \/ role = "server" /\ pc' = "done" /\ status' = "failed"
      \/ role # "server" /\ pc' = "container" /\ status' = status
  BY StepOrder DEF NoStore, Return
<1>3. saved = 0 /\ held = {} /\ cert = NoCert /\ status = "none" /\ contexts = 0
  BY <1>0, <1>1 DEF IInv, Progress, ContextsCounted, Freed, Kept, Typed
<1>4. TypeOK'
  <2>1. Typed'
    BY <1>0, <1>1, <1>2 DEF Typed, Creating
  <2> QED BY <2>1, Untyped, PTL
<1>5. MadeHere' /\ NoSecondCertificate'
  BY <1>1, StoreKept DEF IInv
<1>6. Progress' /\ ContextsCounted'
  BY <1>1, <1>2, <1>3 DEF Progress, ContextsCounted, Creating, Freed, Kept, Opened
<1>7. SearchKept' /\ NoneSuitable' /\ ContextsBalanced' /\ RequiredGiven'
  BY <1>1, <1>2, <1>3 DEF SearchKept, NoneSuitable, ContextsBalanced, RequiredGiven, Creating
<1>8. BestMatch' /\ NoneFromIssuer'
  BY <1>1, <1>2, <1>3 DEF IInv, BestMatch, NoneFromIssuer, FromIssuer, HasKey, Creating
<1> QED BY <1>4, <1>5, <1>6, <1>7, <1>8 DEF IInv

LEMMA Passes == ASSUME IInv, ServerPasses PROVE IInv'
<1>0. Typed
  BY Types DEF IInv
<1>1. /\ role = "server" /\ pc = "search" /\ current < Len(store)
      /\ ~Suitable(store[current + 1]) \/ SelfSigned(store[current + 1])
      /\ current' = current + 1
      /\ UNCHANGED <<role, pc, asked, arrived, subject, store, cert, held, container,
                     status, requests>>
  BY DEF ServerPasses, createVars
<1>2. IF Keeps(store[current + 1])
      THEN saved' = current + 1 /\ contexts' = contexts - Freed + 2
      ELSE UNCHANGED saved /\ contexts' = contexts - Freed + 1
  BY DEF ServerPasses
<1>3. current + 1 \in 1 .. Len(store) /\ saved <= current
  BY <1>0, <1>1 DEF Typed, IInv, Progress
<1>4. /\ saved' \in 0 .. Len(store) /\ saved' <= current'
      /\ contexts' = 1 + (IF saved' = 0 THEN 0 ELSE 1)
  <2>1. contexts = Freed + Kept /\ Freed \in {0, 1}
    BY <1>1 DEF IInv, ContextsCounted, Freed
  <2> HIDE DEF Freed
  <2>2. CASE Keeps(store[current + 1])
    BY <1>0, <1>1, <1>2, <1>3, <2>1, <2>2 DEF Keeps, Kept, Typed
  <2>3. CASE ~Keeps(store[current + 1])
    BY <1>0, <1>1, <1>2, <1>3, <2>1, <2>3 DEF Keeps, Kept, Typed
  <2> QED BY <2>2, <2>3
<1>5. TypeOK'
  <2>1. Typed'
    BY <1>0, <1>1, <1>3, <1>4 DEF Typed
  <2> QED BY <2>1, Untyped, PTL
<1>6. MadeHere' /\ NoSecondCertificate'
  BY <1>1, StoreKept DEF IInv
<1>7. Progress' /\ ContextsCounted'
  BY <1>0, <1>1, <1>3, <1>4 DEF IInv, Progress, ContextsCounted, Creating, Freed, Kept, Typed
<1>8. SearchKept'
  <2>1. /\ \A j \in 1 .. current : Suitable(store[j]) =>
              SelfSigned(store[j]) /\ saved # 0 /\ saved <= j
        /\ saved # 0 => Suitable(store[saved])
    BY <1>1 DEF IInv, SearchKept
  <2>2. saved' # 0 => Suitable(store[saved'])
    BY <1>2, <2>1 DEF Keeps
  <2>3. ASSUME NEW j \in 1 .. current + 1, Suitable(store[j])
        PROVE  SelfSigned(store[j]) /\ saved' # 0 /\ saved' <= j
    <3>1. CASE j = current + 1
      BY <1>0, <1>1, <1>2, <1>3, <2>3, <3>1 DEF Keeps, Typed
    <3>2. CASE j \in 1 .. current
      BY <1>0, <1>1, <1>2, <1>3, <2>1, <2>3, <3>2 DEF Keeps, Typed
    <3> QED BY <1>0, <3>1, <3>2 DEF Typed
  <2> QED BY <1>1, <2>2, <2>3 DEF SearchKept, Suitable, SelfSigned
<1>9. /\ NoneSuitable' /\ ContextsBalanced' /\ RequiredGiven' /\ BestMatch'
      /\ NoneFromIssuer'
  BY <1>1 DEF IInv, Progress, NoneSuitable, ContextsBalanced, RequiredGiven, BestMatch,
              NoneFromIssuer, Creating
<1> QED BY <1>5, <1>6, <1>7, <1>8, <1>9 DEF IInv

LEMMA Accepts == ASSUME IInv, ServerAccepts PROVE IInv'
<1>0. Typed
  BY Types DEF IInv
<1>1. /\ role = "server" /\ pc = "search" /\ current < Len(store)
      /\ Suitable(store[current + 1]) /\ ~SelfSigned(store[current + 1])
      /\ cert' = store[current + 1] /\ current' = current + 1 /\ saved' = 0
      /\ contexts' = contexts - Freed + 1 - Kept
      /\ pc' = "done" /\ status' = "ok"
      /\ UNCHANGED <<role, asked, arrived, subject, store, held, container, requests>>
  BY DEF ServerAccepts, Return, createVars, Kept
<1>2. contexts' = 1 /\ current + 1 \in 1 .. Len(store) /\ held = {}
  <2>1. contexts = Freed + Kept /\ Freed \in {0, 1} /\ Kept \in {0, 1} /\ held = {}
    BY <1>1 DEF IInv, Progress, ContextsCounted, Freed, Kept
  <2> HIDE DEF Freed, Kept
  <2> QED BY <1>0, <1>1, <2>1 DEF Typed
<1>3. TypeOK'
  <2>1. Typed'
    BY <1>0, <1>1, <1>2 DEF Typed
  <2> QED BY <2>1, Untyped, PTL
<1>4. MadeHere' /\ NoSecondCertificate'
  BY <1>1, StoreKept DEF IInv
<1>5. Progress' /\ ContextsCounted'
  BY <1>0, <1>1, <1>2 DEF Progress, ContextsCounted, Creating, Typed
<1>6. SearchKept' /\ NoneSuitable' /\ RequiredGiven' /\ NoneFromIssuer'
  BY <1>1 DEF SearchKept, NoneSuitable, RequiredGiven, NoneFromIssuer, Creating
<1>7. ContextsBalanced'
  <2>1. cert' # NoCert
    BY <1>1, NoCertUnnamed DEF Suitable
  <2> QED BY <1>1, <1>2, <2>1 DEF ContextsBalanced
<1>8. BestMatch'
  <2>1. \A j \in 1 .. current : Suitable(store[j]) => SelfSigned(store[j])
    BY <1>1 DEF IInv, SearchKept
  <2>2. \A j \in DOMAIN store :
          Suitable(store[j]) =>
            \/ j >= current + 1 /\ (SelfSigned(cert') => SelfSigned(store[j]))
            \/ SelfSigned(store[j]) /\ ~SelfSigned(cert')
    BY <1>0, <1>1, <2>1 DEF Typed
  <2>3. current + 1 \in DOMAIN store
    BY <1>0, <1>2 DEF Typed
  <2> QED BY <1>1, <2>2, <2>3 DEF BestMatch, Suitable, SelfSigned
<1> QED BY <1>3, <1>4, <1>5, <1>6, <1>7, <1>8 DEF IInv

LEMMA Searched == ASSUME IInv, ServerSearched PROVE IInv'
<1>0. Typed
  BY Types DEF IInv
<1>1. /\ role = "server" /\ pc = "search" /\ current = Len(store)
      /\ contexts' = contexts - Freed
      /\ UNCHANGED <<role, asked, arrived, subject, store, current, held, container,
                     requests>>
  BY DEF ServerSearched, createVars
<1>2. /\ saved # 0 => cert' = store[saved] /\ saved' = 0 /\ pc' = "done"
                      /\ status' = "ok"
      /\ saved = 0 => pc' = "container" /\ UNCHANGED <<cert, saved, status>>
  BY StepOrder DEF ServerSearched, Return
<1>3. /\ contexts' = Kept /\ held = {} /\ cert = NoCert /\ status = "none"
      /\ saved <= current
  <2>1. /\ contexts = Freed + Kept /\ Freed \in {0, 1} /\ Kept \in {0, 1}
        /\ held = {} /\ cert = NoCert /\ status = "none" /\ saved <= current
    BY <1>1 DEF IInv, Progress, ContextsCounted, Freed, Kept
  <2> HIDE DEF Freed, Kept
  <2> QED BY <1>1, <2>1
<1>4. TypeOK'
  <2>1. Typed'
    BY <1>0, <1>1, <1>2, <1>3 DEF Typed, Kept, Creating
  <2> QED BY <2>1, Untyped, PTL
<1>5. MadeHere' /\ NoSecondCertificate'
  BY <1>1, StoreKept DEF IInv
<1>6. Progress' /\ ContextsCounted'
  BY <1>0, <1>1, <1>2, <1>3 DEF Progress, ContextsCounted, Creating, Typed, Kept, Opened
<1>7. SearchKept' /\ RequiredGiven' /\ NoneFromIssuer'
  BY <1>1, <1>2 DEF SearchKept, RequiredGiven, NoneFromIssuer
<1>8. /\ \A j \in DOMAIN store : Suitable(store[j]) =>
              SelfSigned(store[j]) /\ saved # 0 /\ saved <= j
      /\ saved # 0 => Suitable(store[saved])
  BY <1>0, <1>1 DEF IInv, SearchKept, Typed
<1>9. CASE saved # 0
  <2>1. cert' # NoCert /\ Kept = 1
    BY <1>2, <1>8, <1>9, NoCertUnnamed DEF Suitable, Kept
  <2>2. ContextsBalanced' /\ NoneSuitable'
    BY <1>1, <1>2, <1>3, <1>9, <2>1 DEF ContextsBalanced, NoneSuitable, Creating
  <2>3. saved \in DOMAIN store
    BY <1>0, <1>9 DEF Typed
  <2>4. BestMatch'
    BY <1>0, <1>1, <1>2, <1>8, <1>9, <2>3 DEF BestMatch, Suitable, SelfSigned, Typed
  <2> QED BY <1>4, <1>5, <1>6, <1>7, <2>2, <2>4 DEF IInv
<1>10. CASE saved = 0
  <2>1. ContextsBalanced' /\ BestMatch'
    BY <1>2, <1>3, <1>10 DEF ContextsBalanced, BestMatch
  <2>2. NoneSuitable'
    BY <1>1, <1>2, <1>8, <1>10 DEF NoneSuitable, Suitable
  <2> QED BY <1>4, <1>5, <1>6, <1>7, <2>1, <2>2 DEF IInv
<1> QED BY <1>9, <1>10

LEMMA IssuersSearched == ASSUME IInv, CertFindFromIssuerList PROVE IInv'
<1>0. Typed
  BY Types DEF IInv
<1>1. /\ pc = "issuers" /\ role # "server"
      /\ UNCHANGED <<role, asked, arrived, subject, store, current, saved, held,
                     container, requests>>
  BY DEF CertFindFromIssuerList, createVars, IInv, Progress
<1>2. /\ current = 0 /\ contexts = 0 /\ saved = 0 /\ held = {} /\ cert = NoCert
      /\ status = "none"
  BY <1>0, <1>1 DEF IInv, Progress, Typed
<1>3. \/ /\ \E i \in DOMAIN store : FromIssuer(i) /\ cert' = store[i]
         /\ contexts' = 1 /\ pc' = "done" /\ status' = "ok"
      \/ /\ ~ \E i \in DOMAIN store : FromIssuer(i)
         /\ pc' = "search" /\ UNCHANGED <<cert, contexts, status>>
  BY DEF CertFindFromIssuerList, Return
<1>4. TypeOK'
  <2>1. Typed'
    BY <1>0, <1>1, <1>2, <1>3 DEF Typed
  <2> QED BY <2>1, Untyped, PTL
<1>5. MadeHere' /\ NoSecondCertificate'
  BY <1>1, StoreKept DEF IInv
<1>6. Progress' /\ ContextsCounted'
  BY <1>1, <1>2, <1>3 DEF Progress, ContextsCounted, Creating, Freed, Kept
<1>7. SearchKept' /\ NoneSuitable' /\ BestMatch' /\ ContextsBalanced'
  BY <1>1 DEF SearchKept, NoneSuitable, BestMatch, ContextsBalanced
<1>8. NoneFromIssuer' /\ RequiredGiven'
  <2>1. CASE /\ \E i \in DOMAIN store : FromIssuer(i) /\ cert' = store[i]
             /\ pc' = "done" /\ status' = "ok"
    BY <1>1, <2>1 DEF NoneFromIssuer, RequiredGiven, FromIssuer, HasKey, Creating
  <2>2. CASE /\ ~ \E i \in DOMAIN store : FromIssuer(i)
             /\ pc' = "search"
    BY <1>1, <2>2 DEF NoneFromIssuer, RequiredGiven, FromIssuer, HasKey, Creating
  <2> QED BY <1>3, <2>1, <2>2
<1> QED BY <1>4, <1>5, <1>6, <1>7, <1>8 DEF IInv

LEMMA ClientSearches ==
    ASSUME IInv, ClientPasses \/ ClientAccepts \/ ClientSearched
    PROVE  IInv'
<1>0. Typed
  BY Types DEF IInv
<1>1. /\ role = "client" /\ pc = "search"
      /\ UNCHANGED <<role, asked, arrived, subject, store, saved, held, container,
                     requests>>
  BY DEF ClientPasses, ClientAccepts, ClientSearched, createVars
<1>2. /\ saved = 0 /\ held = {} /\ cert = NoCert /\ status = "none"
      /\ contexts = Freed /\ Freed = (IF current = 0 THEN 0 ELSE 1)
  <2>1. saved = 0 /\ held = {} /\ cert = NoCert /\ status = "none"
    BY <1>1 DEF IInv, Progress
  <2>2. Freed = (IF current = 0 THEN 0 ELSE 1) /\ contexts = Freed + 0
    BY <1>1, <2>1 DEF IInv, ContextsCounted, Freed, Kept
  <2> QED BY <2>1, <2>2
<1>3. ~ \E i \in DOMAIN store : FromIssuer(i)
  BY <1>1 DEF IInv, NoneFromIssuer
<1>4. \/ /\ current < Len(store) /\ current' = current + 1 /\ contexts' = 1
         /\ UNCHANGED <<pc, cert, status>>
      \/ /\ current < Len(store) /\ current' = current + 1 /\ contexts' = 2
         /\ HasKey(store[current + 1]) /\ cert' = store[current + 1]
         /\ pc' = "done" /\ status' = "ok"
      \/ /\ contexts' = 0 /\ pc' = "container"
         /\ UNCHANGED <<current, cert, status>>
  <2> HIDE DEF Freed
  <2>1. CASE ClientPasses
    BY <1>2, <2>1 DEF ClientPasses
  <2>2. CASE ClientAccepts
    BY <1>2, <2>2 DEF ClientAccepts, Return
  <2>3. CASE ClientSearched
    BY <1>2, <2>3, StepOrder DEF ClientSearched
  <2> QED BY <2>1, <2>2, <2>3
<1>5. TypeOK'
  <2>1. Typed'
    BY <1>0, <1>1, <1>2, <1>4 DEF Typed, Creating
  <2> QED BY <2>1, Untyped, PTL
<1>6. MadeHere' /\ NoSecondCertificate'
  BY <1>1, StoreKept DEF IInv
<1>7. Progress' /\ ContextsCounted'
  BY <1>0, <1>1, <1>2, <1>4
     DEF Progress, ContextsCounted, Creating, Freed, Kept, Opened, Typed
<1>8. SearchKept' /\ NoneSuitable' /\ BestMatch' /\ ContextsBalanced'
  BY <1>1 DEF SearchKept, NoneSuitable, BestMatch, ContextsBalanced
<1>9. NoneFromIssuer' /\ RequiredGiven'
  <2>1. ~ \E i \in DOMAIN store' : FromIssuer(i)'
    BY <1>1, <1>3 DEF FromIssuer, HasKey
  <2>2. NoneFromIssuer'
    BY <2>1 DEF NoneFromIssuer
  <2>3. RequiredGiven'
    BY <1>1, <1>2, <1>4, <2>1 DEF RequiredGiven, HasKey
  <2> QED BY <2>2, <2>3
<1> QED BY <1>5, <1>6, <1>7, <1>8, <1>9 DEF IInv

LEMMA CreationFails == ASSUME IInv, CreateFails PROVE IInv'
<1>0. Typed
  BY Types DEF IInv
<1>1. /\ pc \in Creating /\ pc' = "done" /\ status' = "failed"
      /\ UNCHANGED <<role, asked, arrived, subject, store, current, saved, cert,
                     contexts, held, container, requests>>
  BY Steps DEF CreateFails, Return, searchVars, createVars
<1>2. cert = NoCert /\ contexts = Opened
  BY <1>1 DEF IInv, Progress, ContextsCounted, Creating
<1>3. TypeOK'
  <2>1. Typed'
    BY <1>0, <1>1 DEF Typed
  <2> QED BY <2>1, Untyped, PTL
<1>4. MadeHere' /\ NoSecondCertificate'
  BY <1>1, StoreKept DEF IInv
<1>5. Progress' /\ ContextsCounted'
  BY <1>1 DEF IInv, Progress, ContextsCounted, Creating
<1>6. SearchKept' /\ NoneSuitable' /\ BestMatch' /\ NoneFromIssuer' /\ RequiredGiven'
  BY <1>1, <1>2 DEF SearchKept, NoneSuitable, BestMatch, NoneFromIssuer,
                    RequiredGiven, Creating
<1>7. ContextsBalanced'
  BY <1>0, <1>1, <1>2 DEF ContextsBalanced, Opened, Typed
<1> QED BY <1>3, <1>4, <1>5, <1>6, <1>7 DEF IInv

\* The steps before the certificate is stored.
LEMMA Creates ==
    ASSUME IInv, AcquireContext \/ GenKey \/ StrToName \/ SelfSign \/ Label
    PROVE  IInv'
<1>0. Typed
  BY Types DEF IInv
<1>1. UNCHANGED <<role, asked, arrived, subject, store, current, saved, cert, status,
                  requests>>
  BY DEF AcquireContext, GenKey, StrToName, SelfSign, Label, Step
<1>2. \/ /\ pc = "container" /\ pc' = "genkey" /\ held' = {"provider"}
         /\ UNCHANGED <<contexts, container>>
      \/ /\ pc = "genkey" /\ pc' = "encode" /\ held' = {}
         /\ container' = requests + 1 /\ UNCHANGED contexts
      \/ /\ pc = "encode" /\ pc' = "sign" /\ held' = {"encoded"}
         /\ UNCHANGED <<contexts, container>>
      \/ /\ pc = "sign" /\ pc' = "label" /\ held' = held \cup {"context"}
         /\ contexts' = contexts + 1 /\ UNCHANGED container
      \/ /\ pc = "label" /\ pc' = "add" /\ UNCHANGED <<held, contexts, container>>
  BY StepOrder DEF AcquireContext, GenKey, StrToName, SelfSign, Label, Step
<1>3. /\ cert = NoCert /\ status = "none" /\ saved = 0 /\ contexts = Opened
      /\ pc \in {"container", "encode"} => held = {}
      /\ pc = "genkey" => held = {"provider"}
      /\ pc = "sign" => held = {"encoded"}
      /\ pc = "label" => held = {"encoded", "context"}
  BY <1>2 DEF IInv, Progress, ContextsCounted, Creating
<1>4. /\ pc \in Creating \ {"add", "check"} /\ pc' \in Creating \ {"check"}
      /\ held' \subseteq {"provider", "encoded", "context"}
      /\ contexts' = (IF "context" \in held' THEN 1 ELSE 0)
  BY <1>2, <1>3 DEF Creating, Opened
<1>5. TypeOK'
  <2>1. container' \in 1 .. MaxRequests + 1
    BY <1>0, <1>2 DEF Typed
  <2>2. Typed'
    BY <1>0, <1>1, <1>4, <2>1 DEF Typed
  <2> QED BY <2>2, Untyped, PTL
<1>6. MadeHere' /\ NoSecondCertificate'
  BY <1>1, StoreKept DEF IInv
<1>7. Progress'
  <2>1. saved' <= current'
    BY <1>1 DEF IInv, Progress
  <2>2. \/ pc' \in {"genkey"} /\ held' = {"provider"}
        \/ pc' \in {"encode"} /\ held' = {}
        \/ pc' \in {"sign"} /\ held' = {"encoded"}
        \/ pc' \in {"label", "add"} /\ held' = {"encoded", "context"}
    BY <1>2, <1>3
  <2> QED BY <1>1, <1>3, <2>1, <2>2 DEF Progress, Creating
<1>8. ContextsCounted'
  BY <1>4 DEF ContextsCounted, Opened, Creating
<1>9. SearchKept' /\ BestMatch' /\ ContextsBalanced' /\ RequiredGiven'
  BY <1>1, <1>3, <1>4 DEF SearchKept, BestMatch, ContextsBalanced, RequiredGiven, Creating
<1>10. NoneSuitable'
  BY <1>1, <1>4 DEF IInv, NoneSuitable, Suitable, Creating
<1>11. NoneFromIssuer'
  <2>1. role = "client" => ~ \E i \in DOMAIN store : FromIssuer(i)
    BY <1>4 DEF IInv, NoneFromIssuer
  <2> QED BY <1>1, <1>4, <2>1 DEF NoneFromIssuer, FromIssuer, HasKey
<1> QED BY <1>5, <1>6, <1>7, <1>8, <1>9, <1>10, <1>11 DEF IInv

LEMMA Adds == ASSUME IInv, AddToStore PROVE IInv'
<1>0. Typed
  BY Types DEF IInv
<1>1. /\ pc = "add" /\ pc' = "check" /\ store' = Append(store, Created)
      /\ UNCHANGED <<role, asked, arrived, subject, current, saved, cert, status,
                     requests, contexts, held, container>>
  BY StepOrder DEF AddToStore, Step
<1>2. /\ cert = NoCert /\ status = "none" /\ saved = 0 /\ contexts = Opened
      /\ held = {"encoded", "context"}
  BY <1>1 DEF IInv, Progress, ContextsCounted, Creating
<1>3. /\ store' \in Seq(Range(store')) /\ store' # <<>>
      /\ Len(store') = Len(store) + 1 /\ DOMAIN store' = 1 .. Len(store) + 1
      /\ \A i \in 1 .. Len(store) : store'[i] = store[i]
      /\ store'[Len(store) + 1] = Created
      /\ Len(store) \in Nat /\ DOMAIN store = 1 .. Len(store)
  <2>1. store \in Seq(Range(store))
    BY <1>0 DEF Typed
  <2> QED BY <1>1, <2>1, Added
<1> HIDE DEF Created
<1>4. TypeOK'
  <2>1. Typed'
    BY <1>0, <1>1, <1>3 DEF Typed, Creating
  <2> QED BY <2>1, Untyped, PTL
<1>5. MadeHere'
  <2>1. ASSUME NEW i \in 1 .. Len(store) + 1, store'[i].made
        PROVE  ~store'[i].san /\ store'[i].named /\ SelfSigned(store'[i])
    <3>1. CASE i \in 1 .. Len(store)
      <4>1. store'[i] = store[i]
        BY <1>3, <3>1
      <4> QED BY <1>3, <2>1, <3>1, <4>1 DEF IInv, MadeHere
    <3>2. CASE i = Len(store) + 1
      BY <1>3, <3>2, NoCertUnnamed
    <3> QED BY <1>3, <3>1, <3>2
  <2> QED BY <1>3, <2>1 DEF MadeHere, SelfSigned
<1>6. NoSecondCertificate'
  <2>1. SUFFICES ASSUME role = "server",
                        NEW i \in 1 .. Len(store) + 1, NEW j \in 1 .. Len(store) + 1,
                        store'[i].made, store'[j].made,
                        Lower(store'[i].cn) = Lower(store'[j].cn)
                 PROVE  i = j
    BY <1>1, <1>3 DEF NoSecondCertificate
  <2>2. ASSUME NEW k \in 1 .. Len(store), store[k].made PROVE Lower(store[k].cn) # Lower(subject)
    <3>1. ~Suitable(store[k])
      BY <1>1, <1>3, <2>1 DEF IInv, NoneSuitable, Creating
    <3>2. ~store[k].san /\ store[k].named
      BY <1>3, <2>2 DEF IInv, MadeHere
    <3> QED BY <3>1, <3>2, OwnName
  <2>3. Created.cn = subject
    BY NoCertUnnamed
  <2>4. CASE i \in 1 .. Len(store) /\ j \in 1 .. Len(store)
    <3>1. store'[i] = store[i] /\ store'[j] = store[j]
      BY <1>3, <2>4
    <3> QED BY <1>3, <2>1, <2>4, <3>1 DEF IInv, NoSecondCertificate
  <2>5. CASE i \in 1 .. Len(store) /\ j = Len(store) + 1
    <3>1. store'[i] = store[i] /\ store'[j] = Created
      BY <1>3, <2>5
    <3> QED BY <2>1, <2>2, <2>3, <2>5, <3>1
  <2>6. CASE i = Len(store) + 1 /\ j \in 1 .. Len(store)
    <3>1. store'[i] = Created /\ store'[j] = store[j]
      BY <1>3, <2>6
    <3> QED BY <2>1, <2>2, <2>3, <2>6, <3>1
  <2> QED BY <1>3, <2>4, <2>5, <2>6
<1>7. Progress' /\ ContextsCounted'
  <2>1. saved' <= current'
    BY <1>1 DEF IInv, Progress
  <2> QED BY <1>1, <1>2, <2>1 DEF Progress, ContextsCounted, Creating, Opened
<1>8. SearchKept' /\ BestMatch' /\ ContextsBalanced' /\ RequiredGiven'
  BY <1>1, <1>2 DEF SearchKept, BestMatch, ContextsBalanced, RequiredGiven
<1>9. NoneSuitable'
  <2>1. role = "server" => \A j \in DOMAIN store : ~Suitable(store[j])
    BY <1>1 DEF IInv, NoneSuitable, Creating
  <2>2. Created' = Created
    BY <1>1 DEF Created
  <2>3. Len(store') - 1 = Len(store) /\ store'[Len(store')] = Created
    BY <1>3
  <2> QED BY <1>1, <1>3, <2>1, <2>2, <2>3 DEF NoneSuitable, Suitable
<1>10. NoneFromIssuer'
  <2>1. role = "client" => ~ \E i \in DOMAIN store : FromIssuer(i)
    BY <1>1 DEF IInv, NoneFromIssuer, Creating
  <2>2. ASSUME role = "client", NEW i \in 1 .. Len(store) + 1, FromIssuer(i)'
        PROVE  "self" \in asked
    <3>1. CASE i \in 1 .. Len(store)
      <4>1. store'[i] = store[i]
        BY <1>3, <3>1
      <4>2. \A j \in 1 .. i - 1 : store'[j] = store[j] /\ j \in 1 .. Len(store)
        BY <1>3, <3>1
      <4>3. FromIssuer(i)
        BY <1>1, <1>3, <2>2, <3>1, <4>1, <4>2 DEF FromIssuer, HasKey
      <4> QED BY <1>3, <2>1, <2>2, <3>1, <4>3
    <3>2. CASE i = Len(store) + 1
      <4>1. Created.issuer \in asked
        BY <1>1, <1>3, <2>2, <3>2 DEF FromIssuer
      <4> QED BY <4>1, NoCertUnnamed
    <3> QED BY <1>3, <3>1, <3>2
  <2> QED BY <1>1, <1>3, <2>2 DEF NoneFromIssuer
<1> QED BY <1>4, <1>5, <1>6, <1>7, <1>8, <1>9, <1>10 DEF IInv

LEMMA Checks == ASSUME IInv, CheckKey PROVE IInv'
<1>0. Typed
  BY Types DEF IInv
<1>1. /\ pc = "check" /\ pc' = "done" /\ status' = "ok"
      /\ cert' = Created /\ held' = {}
      /\ UNCHANGED <<role, asked, arrived, subject, store, current, saved, contexts,
                     container, requests>>
  BY DEF CheckKey, Return
<1>2. contexts = 1 /\ saved <= current
  BY <1>1 DEF IInv, Progress, ContextsCounted, Creating, Opened
<1>3. TypeOK'
  <2>1. Typed'
    BY <1>0, <1>1 DEF Typed
  <2> QED BY <2>1, Untyped, PTL
<1>4. MadeHere' /\ NoSecondCertificate'
  BY <1>1, StoreKept DEF IInv
<1>5. Progress' /\ ContextsCounted'
  <2>1. role = "client" => saved = 0
    BY DEF IInv, Progress
  <2> QED BY <1>1, <1>2, <2>1 DEF Progress, ContextsCounted, Creating
<1>6. SearchKept' /\ NoneSuitable' /\ NoneFromIssuer'
  BY <1>1 DEF SearchKept, NoneSuitable, NoneFromIssuer, Creating
<1>7. ContextsBalanced'
  BY <1>1, <1>2, NoCertUnnamed DEF ContextsBalanced
<1>8. BestMatch'
  <2>1. SUFFICES ASSUME role = "server" PROVE BestMatch'
    BY <1>1 DEF BestMatch
  <2>2. /\ store # <<>> /\ store[Len(store)] = Created
        /\ \A j \in 1 .. Len(store) - 1 : ~Suitable(store[j])
    BY <1>1, <2>1 DEF IInv, NoneSuitable
  <2>3. Len(store) \in DOMAIN store
    BY <1>0, <2>2 DEF Typed
  <2>4. Suitable(Created)
    BY NoCertUnnamed, OwnName
  <2>5. \A j \in DOMAIN store : Suitable(store[j]) => j = Len(store)
    BY <1>0, <2>2 DEF Typed
  <2> HIDE DEF Created
  <2>6. \A j \in DOMAIN store : Suitable(store[j]) =>
            j >= Len(store) /\ (SelfSigned(Created) => SelfSigned(store[j]))
    BY <1>0, <2>2, <2>5 DEF Typed
  <2> QED BY <1>1, <2>2, <2>3, <2>4, <2>6 DEF BestMatch, Suitable, SelfSigned
<1>9. RequiredGiven'
  <2>1. SUFFICES ASSUME role = "client" PROVE RequiredGiven'
    BY <1>1 DEF RequiredGiven
  <2>2. HasKey(cert')
    BY <1>0, <1>1, NoCertUnnamed DEF HasKey, Typed
  <2>3. (\E i \in DOMAIN store : FromIssuer(i)) => cert'.issuer \in asked
    BY <1>1, <2>1, NoCertUnnamed DEF IInv, NoneFromIssuer, Creating
  <2>4. (\E i \in DOMAIN store' : FromIssuer(i)') => cert'.issuer \in asked'
    BY <1>1, <2>3 DEF FromIssuer, HasKey
  <2> QED BY <1>1, <2>2, <2>4 DEF RequiredGiven, HasKey
<1> QED BY <1>3, <1>4, <1>5, <1>6, <1>7, <1>8, <1>9 DEF IInv

LEMMA NextIInv == ASSUME IInv, [Next]_vars PROVE IInv'
<1>1. CASE Server
  BY <1>1, Begins, Receives, Passes, Accepts, Searched DEF Server
<1>2. CASE Client
  BY <1>2, Begins, IssuersSearched, ClientSearches DEF Client
<1>3. CASE NoStore
  BY <1>3, StoreMissing
<1>4. CASE CreateCertificate
  BY <1>4, CreationFails, Creates, Adds, Checks DEF CreateCertificate
<1>5. CASE UNCHANGED vars
  <2>1. UNCHANGED <<role, pc, asked, arrived, subject, store, current, saved, cert,
                    contexts, held, container, status, requests>>
    BY <1>5 DEF vars, searchVars, createVars
  <2>2. TypeOK' /\ MadeHere' /\ NoSecondCertificate'
    BY <2>1, StoreKept DEF IInv, TypeOK
  <2>3. Progress' /\ ContextsCounted' /\ ContextsBalanced'
    BY <2>1 DEF IInv, Progress, ContextsCounted, ContextsBalanced, Freed, Kept, Opened
  <2>4. SearchKept' /\ NoneSuitable' /\ BestMatch'
    BY <2>1 DEF IInv, SearchKept, NoneSuitable, BestMatch, Suitable, SelfSigned, Created
  <2>5. NoneFromIssuer' /\ RequiredGiven'
    BY <2>1 DEF IInv, NoneFromIssuer, RequiredGiven, FromIssuer, HasKey
  <2> QED BY <2>2, <2>3, <2>4, <2>5 DEF IInv
<1> QED BY <1>1, <1>2, <1>3, <1>4, <1>5 DEF Next

-----------------------------------------------------------------------------
(* Least numbers, in place of induction.                                    *)

\* A set of natural numbers that is not empty has a least element: what takes
\* the place of induction here.
LEMMA LeastNumber ==
    ASSUME NEW S, S \subseteq Nat, S # {}
    PROVE  \E x \in S : \A n \in S : x <= n
<1> DEFINE R == {ss \in Nat \X Nat : ss[1] < ss[2]}
<1>1. IsWellFoundedOn(R, Nat)
  BY NatLessThanWellFounded DEF OpToRel
<1>2. PICK x \in S : \A y \in S : ~ (<<y, x>> \in R)
  <2> HIDE DEF R
  <2> QED BY <1>1, WFMin
<1>3. ASSUME NEW n \in S PROVE x <= n
  <2>1. ~ (n < x)
    BY <1>2 DEF R
  <2> QED BY <2>1
<1> QED BY <1>3

\* The least of a set of numbers is what Min chooses.
LEMMA MinIsLeast ==
    ASSUME NEW S, S \subseteq Nat, S # {}
    PROVE  Min(S) \in S /\ \A n \in S : Min(S) <= n
<1>1. \E x \in S : \A n \in S : x <= n
  BY LeastNumber
<1> QED BY <1>1, Zenon DEF Min

-----------------------------------------------------------------------------
(* Host names: HostNameMatches is Covers.                                   *)

\* The position of a character is that of the first such, from 0, or -1.
LEMMA Found ==
    ASSUME NEW s \in Seq(Nat), NEW c
    PROVE  \/ Find(s, c) = -1 /\ \A i \in DOMAIN s : s[i] # c
           \/ /\ Find(s, c) \in 0 .. Len(s) - 1 /\ Find(s, c) + 1 \in DOMAIN s
              /\ s[Find(s, c) + 1] = c
              /\ \A i \in 1 .. Find(s, c) : s[i] # c
<1> DEFINE I == {i \in 1 .. Len(s) : s[i] = c}
<1>1. Find(s, c) = (IF I # {} THEN Min(I) ELSE 0) - 1
  BY DEF Find, SelectInSeq
<1>2. CASE I = {}
  BY <1>1, <1>2
<1>3. CASE I # {}
  <2>1. Min(I) \in I /\ \A n \in I : Min(I) <= n
    <3>1. I \subseteq Nat
      OBVIOUS
    <3> HIDE DEF I
    <3> QED BY <1>3, <3>1, MinIsLeast
  <2>2. Find(s, c) + 1 = Min(I) /\ Find(s, c) \in Nat
    BY <1>1, <1>3, <2>1
  <2>3. Min(I) \in 1 .. Len(s) /\ s[Min(I)] = c /\ Find(s, c) + 1 \in DOMAIN s
    BY <2>1, <2>2
  <2>5. Find(s, c) \in 0 .. Len(s) - 1
    BY <2>2, <2>3
  <2>4. ASSUME NEW i \in 1 .. Find(s, c), s[i] = c PROVE FALSE
    <3>1. i \in I
      BY <2>2, <2>3, <2>4
    <3> QED BY <2>1, <2>2, <3>1
  <2> QED BY <2>2, <2>3, <2>4, <2>5
<1> QED BY <1>2, <1>3

\* Small letters.
LEMMA Lowered ==
    ASSUME NEW s \in Seq(Nat)
    PROVE  /\ Lower(s) \in Seq(Nat) /\ Len(Lower(s)) = Len(s)
           /\ \A i \in 1 .. Len(s) : Lower(s)[i] = s[i] % 8
<1> DEFINE f == [i \in 1 .. Len(s) |-> s[i] % 8]
<1>1. f \in [1 .. Len(s) -> Nat]
  OBVIOUS
<1>2. Lower(s) = f
  BY DEF Lower
<1>3. \A i \in 1 .. Len(s) : f[i] = s[i] % 8
  OBVIOUS
<1> HIDE DEF f
<1>4. f \in Seq(Nat) /\ Len(f) = Len(s)
  BY <1>1
<1> QED BY <1>2, <1>3, <1>4

\* A part of a name.
LEMMA Part ==
    ASSUME NEW s \in Seq(Nat), NEW m \in 1 .. Len(s) + 1, NEW n \in 0 .. Len(s)
    PROVE  /\ SubSeq(s, m, n) \in Seq(Nat)
           /\ Len(SubSeq(s, m, n)) = IF m <= n THEN n - m + 1 ELSE 0
           /\ \A i \in 1 .. n - m + 1 : SubSeq(s, m, n)[i] = s[m + i - 1]
<1>1. \A i \in m .. n : s[i] \in Nat
  OBVIOUS
<1> QED BY <1>1, SubSeqProperties

\* What it is to begin with a name, character by character.
LEMMA Prefix ==
    ASSUME NEW s \in Seq(Nat), NEW t \in Seq(Nat)
    PROVE  IsPrefix(s, t) <=> /\ Len(s) <= Len(t)
                              /\ \A k \in 1 .. Len(s) : s[k] = t[k]
<1>1. CASE Len(s) <= Len(t)
  <2> DEFINE u == SubSeq(t, 1, Len(s))
  <2>1. SubSeq(s, 1, Len(s)) = s
    BY SubSeqFull
  <2>2. u \in Seq(Nat) /\ Len(u) = Len(s) /\ \A k \in 1 .. Len(s) : u[k] = t[k]
    BY <1>1, Part
  <2>3. IsPrefix(s, t) <=> s = u
    BY <1>1, <2>1 DEF IsPrefix
  <2> HIDE DEF u
  <2>4. s = u <=> \A k \in 1 .. Len(s) : s[k] = t[k]
    BY <2>2, SeqEqual
  <2> QED BY <1>1, <2>3, <2>4
<1>2. CASE ~(Len(s) <= Len(t))
  BY <1>2 DEF IsPrefix
<1> QED BY <1>1, <1>2

\* What it is to end with one.
LEMMA Suffix ==
    ASSUME NEW s \in Seq(Nat), NEW t \in Seq(Nat)
    PROVE  IsSuffix(s, t) <=>
             /\ Len(s) <= Len(t)
             /\ \A k \in 1 .. Len(s) : s[Len(s) - k + 1] = t[Len(t) - k + 1]
<1>1. \A u \in Seq(Nat) : /\ Reverse(u) \in Seq(Nat) /\ Len(Reverse(u)) = Len(u)
                         /\ \A k \in 1 .. Len(u) : Reverse(u)[k] = u[Len(u) - k + 1]
  <2>1. ASSUME NEW u \in Seq(Nat)
        PROVE  \A k \in 1 .. Len(u) : u[Len(u) - k + 1] \in Nat
    OBVIOUS
  <2> QED BY <2>1 DEF Reverse
<1>2. IsSuffix(s, t) <=>
        /\ Len(Reverse(s)) <= Len(Reverse(t))
        /\ \A k \in 1 .. Len(Reverse(s)) : Reverse(s)[k] = Reverse(t)[k]
  BY <1>1, Prefix DEF IsSuffix
<1>3. /\ Len(Reverse(s)) = Len(s) /\ Len(Reverse(t)) = Len(t)
      /\ \A k \in 1 .. Len(s) : Reverse(s)[k] = s[Len(s) - k + 1]
      /\ \A k \in 1 .. Len(t) : Reverse(t)[k] = t[Len(t) - k + 1]
  BY <1>1
<1>4. Len(s) \in Nat /\ Len(t) \in Nat
  OBVIOUS
<1>5. CASE Len(s) <= Len(t)
  <2>1. ASSUME NEW k \in 1 .. Len(s)
        PROVE  /\ Reverse(s)[k] = s[Len(s) - k + 1]
               /\ Reverse(t)[k] = t[Len(t) - k + 1]
    <3>1. k \in 1 .. Len(t)
      BY <1>4, <1>5
    <3>2. Reverse(s)[k] = s[Len(s) - k + 1]
      BY <1>3
    <3>3. Reverse(t)[k] = t[Len(t) - k + 1]
      BY <1>3, <3>1
    <3> QED BY <3>2, <3>3
  <2> QED BY <1>2, <1>3, <1>5, <2>1
<1> QED BY <1>2, <1>3, <1>5

\* What Fits means, character by character.
LEMMA Fitting ==
    ASSUME NEW label \in Seq(Nat), NEW wild \in Seq(Nat)
    PROVE  Fits(label, wild) <=>
             \E i, j \in 1 .. Len(wild) :
                /\ i <= j /\ \A k \in i .. j : wild[k] = Star
                /\ Len(label) >= Len(wild) - (j - i + 1)
                /\ \A k \in 1 .. i - 1 : wild[k] % 8 = label[k] % 8
                /\ \A k \in 1 .. Len(wild) - j :
                      wild[Len(wild) - k + 1] % 8 = label[Len(label) - k + 1] % 8
<1>0. Len(label) \in Nat /\ Len(wild) \in Nat /\ DOMAIN wild = 1 .. Len(wild)
  OBVIOUS
<1>1. ASSUME NEW i \in 1 .. Len(wild), NEW j \in 1 .. Len(wild), i <= j,
             Len(label) >= Len(wild) - (j - i + 1)
      PROVE  /\ IsPrefix(Lower(SubSeq(wild, 1, i - 1)), Lower(label)) <=>
                   \A k \in 1 .. i - 1 : wild[k] % 8 = label[k] % 8
             /\ IsSuffix(Lower(SubSeq(wild, j + 1, Len(wild))), Lower(label)) <=>
                   \A k \in 1 .. Len(wild) - j :
                      wild[Len(wild) - k + 1] % 8 = label[Len(label) - k + 1] % 8
  <2> DEFINE p == SubSeq(wild, 1, i - 1)
             q == SubSeq(wild, j + 1, Len(wild))
  <2>1. p \in Seq(Nat) /\ Len(p) = i - 1 /\ \A k \in 1 .. i - 1 : p[k] = wild[k]
    BY <1>0, Part
  <2>2. q \in Seq(Nat) /\ Len(q) = Len(wild) - j
        /\ \A k \in 1 .. Len(wild) - j : q[k] = wild[j + k]
    <3>1. j + 1 \in 1 .. Len(wild) + 1 /\ Len(wild) \in 0 .. Len(wild)
          /\ Len(wild) - (j + 1) + 1 = Len(wild) - j
      BY <1>0
    <3>2. /\ q \in Seq(Nat)
          /\ Len(q) = IF j + 1 <= Len(wild) THEN Len(wild) - (j + 1) + 1 ELSE 0
          /\ \A k \in 1 .. Len(wild) - (j + 1) + 1 : q[k] = wild[j + 1 + k - 1]
      BY <3>1, Part
    <3> HIDE DEF q
    <3>3. ASSUME NEW k \in 1 .. Len(wild) - j PROVE q[k] = wild[j + k]
      <4>1. q[k] = wild[j + 1 + k - 1]
        BY <3>1, <3>2
      <4>2. j + 1 + k - 1 = j + k
        BY <1>0
      <4> QED BY <4>1, <4>2
    <3>4. Len(q) = Len(wild) - j
      <4>1. CASE j + 1 <= Len(wild)
        BY <1>0, <3>2, <4>1
      <4>2. CASE ~(j + 1 <= Len(wild))
        <5>1. j = Len(wild)
          <6>1. \A n \in Nat : \A m \in 1 .. n : ~(m + 1 <= n) => m = n
            OBVIOUS
          <6> QED BY <1>0, <4>2, <6>1
        <5> QED BY <1>0, <3>2, <4>2, <5>1
      <4> QED BY <4>1, <4>2
    <3> QED BY <3>2, <3>3, <3>4
  <2> HIDE DEF p, q
  <2>9. /\ Lower(p) \in Seq(Nat) /\ Len(Lower(p)) = i - 1
        /\ Lower(q) \in Seq(Nat) /\ Len(Lower(q)) = Len(wild) - j
        /\ Lower(label) \in Seq(Nat) /\ Len(Lower(label)) = Len(label)
        /\ i - 1 <= Len(label) /\ Len(wild) - j <= Len(label)
    <3>1. Lower(p) \in Seq(Nat) /\ Len(Lower(p)) = i - 1
      BY <2>1, Lowered
    <3>2. Lower(q) \in Seq(Nat) /\ Len(Lower(q)) = Len(wild) - j
      BY <2>2, Lowered
    <3>3. Lower(label) \in Seq(Nat) /\ Len(Lower(label)) = Len(label)
      BY Lowered
    <3>4. i - 1 <= Len(label) /\ Len(wild) - j <= Len(label)
      BY <1>0, <1>1
    <3> QED BY <3>1, <3>2, <3>3, <3>4
  <2>3. IsPrefix(Lower(p), Lower(label)) <=>
          \A k \in 1 .. i - 1 : Lower(p)[k] = Lower(label)[k]
    <3>1. Len(Lower(p)) <= Len(Lower(label))
      BY <2>9
    <3>2. IsPrefix(Lower(p), Lower(label)) <=>
            /\ Len(Lower(p)) <= Len(Lower(label))
            /\ \A k \in 1 .. Len(Lower(p)) : Lower(p)[k] = Lower(label)[k]
      BY <2>9, Prefix
    <3> QED BY <2>9, <3>1, <3>2
  <2>4. \A k \in 1 .. i - 1 :
          Lower(p)[k] = wild[k] % 8 /\ Lower(label)[k] = label[k] % 8
    BY <1>0, <1>1, <2>1, Lowered
  <2>5. IsSuffix(Lower(q), Lower(label)) <=>
          \A k \in 1 .. Len(wild) - j :
             Lower(q)[Len(wild) - j - k + 1] = Lower(label)[Len(label) - k + 1]
    <3>1. IsSuffix(Lower(q), Lower(label)) <=>
            /\ Len(Lower(q)) <= Len(Lower(label))
            /\ \A k \in 1 .. Len(Lower(q)) :
                  Lower(q)[Len(Lower(q)) - k + 1] = Lower(label)[Len(Lower(label)) - k + 1]
      BY <2>9, Suffix
    <3> QED BY <2>9, <3>1
  <2>6. ASSUME NEW k \in 1 .. Len(wild) - j
        PROVE  /\ Lower(q)[Len(wild) - j - k + 1] = wild[Len(wild) - k + 1] % 8
               /\ Lower(label)[Len(label) - k + 1] = label[Len(label) - k + 1] % 8
    <3>1. Len(wild) - j - k + 1 \in 1 .. Len(wild) - j
          /\ j + (Len(wild) - j - k + 1) = Len(wild) - k + 1
      BY <1>0
    <3>2. Len(label) - k + 1 \in 1 .. Len(label)
      BY <1>0, <1>1
    <3>3. Lower(q)[Len(wild) - j - k + 1] = q[Len(wild) - j - k + 1] % 8
      BY <2>2, <3>1, Lowered
    <3>4. q[Len(wild) - j - k + 1] = wild[j + (Len(wild) - j - k + 1)]
      BY <2>2, <3>1
    <3> QED BY <3>1, <3>2, <3>3, <3>4, Lowered
  <2>7. IsPrefix(Lower(p), Lower(label)) <=>
          \A k \in 1 .. i - 1 : wild[k] % 8 = label[k] % 8
    BY <2>3, <2>4
  <2>8. IsSuffix(Lower(q), Lower(label)) <=>
          \A k \in 1 .. Len(wild) - j :
             wild[Len(wild) - k + 1] % 8 = label[Len(label) - k + 1] % 8
    BY <2>5, <2>6
  <2> QED BY <2>7, <2>8 DEF p, q
<1> QED BY <1>0, <1>1 DEF Fits

\* One character of a pattern stands for those of the label behind the first a
\* of them, to the first b.
Stands(label, c, a, b) ==
    IF c = Star THEN b >= a ELSE b = a + 1 /\ c % 8 = label[b] % 8

\* One step of PathMatchSpec is what Stands says.
LEMMA MatchStep ==
    ASSUME NEW label \in Seq(Nat), NEW wild \in Seq(Nat)
    PROVE  \A i \in 1 .. Len(wild) : \A a, b \in 0 .. Len(label) :
             Stands(label, wild[i], a, b) <=>
               IF wild[i] = Star THEN b >= a
               ELSE b = a + 1 /\ Lower(wild)[i] = Lower(label)[b]
<1> SUFFICES ASSUME NEW i \in 1 .. Len(wild),
                    NEW a \in 0 .. Len(label), NEW b \in 0 .. Len(label)
             PROVE  Stands(label, wild[i], a, b) <=>
                      IF wild[i] = Star THEN b >= a
                      ELSE b = a + 1 /\ Lower(wild)[i] = Lower(label)[b]
  OBVIOUS
<1>1. Lower(wild)[i] = wild[i] % 8
  BY Lowered
<1>2. ASSUME b = a + 1 PROVE Lower(label)[b] = label[b] % 8
  <2>1. b \in 1 .. Len(label)
    BY <1>2
  <2> QED BY <2>1, Lowered
<1> QED BY <1>1, <1>2 DEF Stands

\* PathMatchSpec for a pattern of no character, of one and of two.
LEMMA MatchNone ==
    ASSUME NEW label \in Seq(Nat), NEW wild \in Seq(Nat), Len(wild) = 0
    PROVE  PathMatchSpec(label, wild) => Len(label) = 0
BY DEF PathMatchSpec

LEMMA MatchOne ==
    ASSUME NEW label \in Seq(Nat), NEW wild \in Seq(Nat), Len(wild) = 1
    PROVE  PathMatchSpec(label, wild) <=> Stands(label, wild[1], 0, Len(label))
<1>0. Len(label) \in Nat /\ DOMAIN wild = {1} /\ 1 \in 1 .. Len(wild)
      /\ 0 .. Len(wild) = {0, 1}
  OBVIOUS
<1>1. ASSUME PathMatchSpec(label, wild) PROVE Stands(label, wild[1], 0, Len(label))
  BY <1>0, <1>1, MatchStep DEF PathMatchSpec
<1>2. ASSUME Stands(label, wild[1], 0, Len(label)) PROVE PathMatchSpec(label, wild)
  <2> DEFINE end == [k \in 0 .. Len(wild) |-> IF k = 0 THEN 0 ELSE Len(label)]
  <2>1. end \in [0 .. Len(wild) -> 0 .. Len(label)] /\ end[0] = 0 /\ end[1] = Len(label)
    BY <1>0
  <2> HIDE DEF end
  <2>2. IF wild[1] = Star THEN end[1] >= end[0]
        ELSE end[1] = end[0] + 1 /\ Lower(wild)[1] = Lower(label)[end[1]]
    <3>1. 0 \in 0 .. Len(label) /\ Len(label) \in 0 .. Len(label)
      BY <1>0
    <3>2. Stands(label, wild[1], 0, Len(label)) <=>
            IF wild[1] = Star THEN Len(label) >= 0
            ELSE Len(label) = 0 + 1 /\ Lower(wild)[1] = Lower(label)[Len(label)]
      BY <1>0, <3>1, MatchStep
    <3> QED BY <1>2, <2>1, <3>2
  <2> QED BY <1>0, <2>1, <2>2 DEF PathMatchSpec
<1> QED BY <1>1, <1>2

LEMMA MatchTwo ==
    ASSUME NEW label \in Seq(Nat), NEW wild \in Seq(Nat), Len(wild) = 2
    PROVE  PathMatchSpec(label, wild) <=>
             \E b \in 0 .. Len(label) :
                Stands(label, wild[1], 0, b) /\ Stands(label, wild[2], b, Len(label))
<1>0. Len(label) \in Nat /\ DOMAIN wild = {1, 2} /\ 1 \in 1 .. Len(wild)
      /\ 2 \in 1 .. Len(wild) /\ 0 .. Len(wild) = {0, 1, 2}
  OBVIOUS
<1>9. 0 \in 0 .. Len(label) /\ Len(label) \in 0 .. Len(label)
  BY <1>0
<1>8. \A i \in {1, 2} : \A a, b \in 0 .. Len(label) :
        Stands(label, wild[i], a, b) <=>
          IF wild[i] = Star THEN b >= a
          ELSE b = a + 1 /\ Lower(wild)[i] = Lower(label)[b]
  <2>1. 1 \in 1 .. Len(wild) /\ 2 \in 1 .. Len(wild)
    BY <1>0
  <2>2. \A i \in 1 .. Len(wild) : \A a, b \in 0 .. Len(label) :
             Stands(label, wild[i], a, b) <=>
               IF wild[i] = Star THEN b >= a
               ELSE b = a + 1 /\ Lower(wild)[i] = Lower(label)[b]
    BY MatchStep, Zenon
  <2>3. \A i \in {1,2} : i \in 1 .. Len(wild)
    BY <2>1
  <2> QED BY <2>2, <2>3, Zenon
<1>1. ASSUME PathMatchSpec(label, wild)
      PROVE  \E b \in 0 .. Len(label) :
                Stands(label, wild[1], 0, b) /\ Stands(label, wild[2], b, Len(label))
  <2>1. PICK end \in [0 .. Len(wild) -> 0 .. Len(label)] :
          /\ end[0] = 0 /\ end[Len(wild)] = Len(label)
          /\ \A i \in DOMAIN wild :
                IF wild[i] = Star THEN end[i] >= end[i - 1]
                ELSE /\ end[i] = end[i - 1] + 1
                     /\ Lower(wild)[i] = Lower(label)[end[i]]
    BY <1>1 DEF PathMatchSpec
  <2>2. end[1] \in 0 .. Len(label) /\ end[2] = Len(label) /\ end[0] = 0
    BY <1>0, <2>1
  <2>3. Stands(label, wild[1], 0, end[1])
    <3>1. Stands(label, wild[1], 0, end[1]) <=>
            IF wild[1] = Star THEN end[1] >= 0
            ELSE end[1] = 0 + 1 /\ Lower(wild)[1] = Lower(label)[end[1]]
      BY <1>8, <1>9, <2>2
    <3>2. IF wild[1] = Star THEN end[1] >= end[1 - 1]
          ELSE end[1] = end[1 - 1] + 1 /\ Lower(wild)[1] = Lower(label)[end[1]]
      BY <1>0, <2>1
    <3> QED BY <2>2, <3>1, <3>2
  <2>4. Stands(label, wild[2], end[1], Len(label))
    <3>1. Stands(label, wild[2], end[1], Len(label)) <=>
            IF wild[2] = Star THEN Len(label) >= end[1]
            ELSE Len(label) = end[1] + 1 /\ Lower(wild)[2] = Lower(label)[Len(label)]
      BY <1>8, <1>9, <2>2
    <3>2. IF wild[2] = Star THEN end[2] >= end[2 - 1]
          ELSE end[2] = end[2 - 1] + 1 /\ Lower(wild)[2] = Lower(label)[end[2]]
      BY <1>0, <2>1
    <3> QED BY <2>2, <3>1, <3>2
  <2> QED BY <2>2, <2>3, <2>4
<1>2. ASSUME NEW b \in 0 .. Len(label),
             Stands(label, wild[1], 0, b), Stands(label, wild[2], b, Len(label))
      PROVE  PathMatchSpec(label, wild)
  <2> DEFINE end == [k \in 0 .. Len(wild) |->
                        IF k = 0 THEN 0 ELSE IF k = 1 THEN b ELSE Len(label)]
  <2>1. /\ end \in [0 .. Len(wild) -> 0 .. Len(label)]
        /\ end[0] = 0 /\ end[1] = b /\ end[2] = Len(label)
    BY <1>0
  <2> HIDE DEF end
  <2>2. IF wild[1] = Star THEN end[1] >= end[1 - 1]
        ELSE end[1] = end[1 - 1] + 1 /\ Lower(wild)[1] = Lower(label)[end[1]]
    <3>1. Stands(label, wild[1], 0, b) <=>
            IF wild[1] = Star THEN b >= 0
            ELSE b = 0 + 1 /\ Lower(wild)[1] = Lower(label)[b]
      BY <1>8, <1>9
    <3> QED BY <1>2, <2>1, <3>1
  <2>3. IF wild[2] = Star THEN end[2] >= end[2 - 1]
        ELSE end[2] = end[2 - 1] + 1 /\ Lower(wild)[2] = Lower(label)[end[2]]
    <3>1. Stands(label, wild[2], b, Len(label)) <=>
            IF wild[2] = Star THEN Len(label) >= b
            ELSE Len(label) = b + 1 /\ Lower(wild)[2] = Lower(label)[Len(label)]
      BY <1>8, <1>9
    <3> QED BY <1>2, <2>1, <3>1
  <2> QED BY <1>0, <2>1, <2>2, <2>3 DEF PathMatchSpec
<1> QED BY <1>1, <1>2

\* A star in the first label leaves room for one more character.
LEMMA AtMostTwo == \A n \in Nat : n <= 2 => n = 0 \/ n = 1 \/ n = 2
OBVIOUS

\* A pattern of at most two characters, one of them a star.
LEMMA StarFits ==
    ASSUME NEW label \in Seq(Nat), NEW wild \in Seq(Nat), Len(wild) <= 2,
           NEW s \in 1 .. Len(wild), wild[s] = Star
    PROVE  PathMatchSpec(label, wild) <=> Fits(label, wild)
<1> DEFINE FitsAt(i, j) ==
             /\ i <= j /\ \A k \in i .. j : wild[k] = Star
             /\ Len(label) >= Len(wild) - (j - i + 1)
             /\ \A k \in 1 .. i - 1 : wild[k] % 8 = label[k] % 8
             /\ \A k \in 1 .. Len(wild) - j :
                   wild[Len(wild) - k + 1] % 8 = label[Len(label) - k + 1] % 8
<1>0. Len(label) \in Nat
  OBVIOUS
<1>1. Fits(label, wild) <=> \E i, j \in 1 .. Len(wild) : FitsAt(i, j)
  BY Fitting, Zenon
<1>2. CASE Len(wild) = 1
  <2>1. s = 1
    BY <1>2
  <2>2. PathMatchSpec(label, wild)
    BY <1>0, <1>2, <2>1, MatchOne DEF Stands
  <2>3. FitsAt(1, 1)
    BY <1>0, <1>2, <2>1
  <2> QED BY <1>1, <1>2, <2>2, <2>3
<1>3. CASE Len(wild) = 2 /\ wild[1] = Star /\ wild[2] = Star
  <2>1. PathMatchSpec(label, wild)
    <3>1. /\ 0 \in 0 .. Len(label)
          /\ Stands(label, wild[1], 0, 0) /\ Stands(label, wild[2], 0, Len(label))
      BY <1>0, <1>3 DEF Stands
    <3> QED BY <1>3, <3>1, MatchTwo
  <2>2. FitsAt(1, 2)
    BY <1>0, <1>3
  <2> QED BY <1>1, <1>3, <2>1, <2>2
<1>4. CASE Len(wild) = 2 /\ wild[1] = Star /\ wild[2] # Star
  <2>1. PathMatchSpec(label, wild) <=>
          Len(label) >= 1 /\ wild[2] % 8 = label[Len(label)] % 8
    <3>1. PathMatchSpec(label, wild) <=>
            \E b \in 0 .. Len(label) :
               Stands(label, wild[1], 0, b) /\ Stands(label, wild[2], b, Len(label))
      BY <1>4, MatchTwo
    <3>2. ASSUME Len(label) >= 1, wild[2] % 8 = label[Len(label)] % 8
          PROVE  \E b \in 0 .. Len(label) :
                    Stands(label, wild[1], 0, b) /\ Stands(label, wild[2], b, Len(label))
      <4>1. /\ Len(label) - 1 \in 0 .. Len(label)
            /\ Stands(label, wild[1], 0, Len(label) - 1)
            /\ Stands(label, wild[2], Len(label) - 1, Len(label))
        BY <1>0, <1>4, <3>2 DEF Stands
      <4> QED BY <4>1
    <3>3. ASSUME NEW b \in 0 .. Len(label),
                 Stands(label, wild[1], 0, b), Stands(label, wild[2], b, Len(label))
          PROVE  Len(label) >= 1 /\ wild[2] % 8 = label[Len(label)] % 8
      BY <1>0, <1>4, <3>3 DEF Stands
    <3> QED BY <3>1, <3>2, <3>3
  <2>2. FitsAt(1, 1) <=> Len(label) >= 1 /\ wild[2] % 8 = label[Len(label)] % 8
    <3>1. FitsAt(1, 1) <=>
            /\ Len(label) >= 1
            /\ \A k \in {1} : wild[2 - k + 1] % 8 = label[Len(label) - k + 1] % 8
      BY <1>0, <1>4
    <3> QED BY <1>0, <3>1
  <2>3. ~FitsAt(1, 2) /\ ~FitsAt(2, 2) /\ ~FitsAt(2, 1)
    BY <1>4
  <2> HIDE DEF FitsAt
  <2>4. \A i, j \in 1 .. 2 : FitsAt(i, j) => i = 1 /\ j = 1
    BY <2>3
  <2> QED BY <1>1, <1>4, <2>1, <2>2, <2>4
<1>5. CASE Len(wild) = 2 /\ wild[1] # Star /\ wild[2] = Star
  <2>1. PathMatchSpec(label, wild) <=>
          Len(label) >= 1 /\ wild[1] % 8 = label[1] % 8
    <3>1. PathMatchSpec(label, wild) <=>
            \E b \in 0 .. Len(label) :
               Stands(label, wild[1], 0, b) /\ Stands(label, wild[2], b, Len(label))
      BY <1>5, MatchTwo
    <3>2. ASSUME Len(label) >= 1, wild[1] % 8 = label[1] % 8
          PROVE  \E b \in 0 .. Len(label) :
                    Stands(label, wild[1], 0, b) /\ Stands(label, wild[2], b, Len(label))
      <4>1. /\ 1 \in 0 .. Len(label)
            /\ Stands(label, wild[1], 0, 1) /\ Stands(label, wild[2], 1, Len(label))
        BY <1>0, <1>5, <3>2 DEF Stands
      <4> QED BY <4>1
    <3>3. ASSUME NEW b \in 0 .. Len(label),
                 Stands(label, wild[1], 0, b), Stands(label, wild[2], b, Len(label))
          PROVE  Len(label) >= 1 /\ wild[1] % 8 = label[1] % 8
      BY <1>0, <1>5, <3>3 DEF Stands
    <3> QED BY <3>1, <3>2, <3>3
  <2>2. FitsAt(2, 2) <=> Len(label) >= 1 /\ wild[1] % 8 = label[1] % 8
    BY <1>0, <1>5
  <2>3. ~FitsAt(1, 2) /\ ~FitsAt(1, 1) /\ ~FitsAt(2, 1)
    BY <1>5
  <2> HIDE DEF FitsAt
  <2>4. \A i, j \in 1 .. 2 : FitsAt(i, j) => i = 2 /\ j = 2
    BY <2>3
  <2> QED BY <1>1, <1>5, <2>1, <2>2, <2>4
<1> QED
  <2>1. Len(wild) \in Nat /\ s \in Nat /\ 1 <= s /\ s <= Len(wild) /\ Len(wild) <= 2
    OBVIOUS
  <2>2. /\ Len(wild) = 0 \/ Len(wild) = 1 \/ Len(wild) = 2
        /\ s = 0 \/ s = 1 \/ s = 2
    <3>1. s <= 2
      BY <2>1
    <3> QED BY <2>1, <3>1, AtMostTwo
  <2>3. Len(wild) # 0 /\ s # 0
    BY <2>1
  <2> QED BY <1>2, <1>3, <1>4, <1>5, <2>2, <2>3

\* A pattern of at most two characters without a star.
LEMMA NoStarSame ==
    ASSUME NEW label \in Seq(Nat), NEW wild \in Seq(Nat), Len(wild) <= 2,
           \A i \in 1 .. Len(wild) : wild[i] # Star, PathMatchSpec(label, wild)
    PROVE  /\ Len(label) = Len(wild)
           /\ \A i \in 1 .. Len(wild) : wild[i] % 8 = label[i] % 8
<1>0. Len(label) \in Nat /\ (Len(wild) = 0 \/ Len(wild) = 1 \/ Len(wild) = 2)
  <2>1. Len(label) \in Nat /\ Len(wild) \in Nat
    OBVIOUS
  <2> QED BY <2>1, AtMostTwo
<1>1. CASE Len(wild) = 0
  <2>1. Len(label) = 0
    BY <1>1, MatchNone
  <2>2. \A i \in 1 .. Len(wild) : FALSE
    BY <1>1
  <2> QED BY <1>1, <2>1, <2>2
<1>2. CASE Len(wild) = 1
  <2>1. 1 .. Len(wild) = {1}
    BY <1>2
  <2>2. Stands(label, wild[1], 0, Len(label)) /\ wild[1] # Star
    BY <1>2, <2>1, MatchOne
  <2>3. Len(label) = 0 + 1 /\ wild[1] % 8 = label[Len(label)] % 8
    BY <2>2 DEF Stands
  <2>4. Len(label) = 1 /\ wild[1] % 8 = label[1] % 8
    BY <2>3
  <2> QED BY <1>2, <2>1, <2>4
<1>3. CASE Len(wild) = 2
  <2>1. PICK b \in 0 .. Len(label) :
          Stands(label, wild[1], 0, b) /\ Stands(label, wild[2], b, Len(label))
    BY <1>3, MatchTwo
  <2>2. 1 .. Len(wild) = {1, 2}
    BY <1>3
  <2>3. wild[1] # Star /\ wild[2] # Star
    BY <2>2
  <2>4. /\ b = 0 + 1 /\ wild[1] % 8 = label[b] % 8
        /\ Len(label) = b + 1 /\ wild[2] % 8 = label[Len(label)] % 8
    BY <2>1, <2>3 DEF Stands
  <2>5. b = 1 /\ Len(label) = 2
    BY <2>4
  <2> QED BY <1>3, <2>2, <2>4, <2>5
<1> QED BY <1>0, <1>1, <1>2, <1>3

\* The first dot of a name, and what is in front of it and behind.
LEMMA FirstDot ==
    ASSUME NEW s \in Seq(Nat), NEW j \in 1 .. Len(s), s[j] = Dot
    PROVE  IsLabel(SubSeq(s, 1, j - 1)) <=> j = Find(s, Dot) + 1
<1> DEFINE t == SubSeq(s, 1, j - 1)
<1>1. t \in Seq(Nat) /\ Len(t) = j - 1 /\ \A i \in 1 .. j - 1 : t[i] = s[i]
  BY Part
<1>2. /\ Find(s, Dot) \in Nat
      /\ Find(s, Dot) + 1 \in 1 .. Len(s) /\ s[Find(s, Dot) + 1] = Dot
      /\ \A i \in 1 .. Find(s, Dot) : s[i] # Dot
  BY Found
<1>3. IsLabel(t) <=> \A i \in 1 .. j - 1 : s[i] # Dot
  <2>1. DOMAIN t = 1 .. j - 1
    BY <1>1
  <2> HIDE DEF t
  <2> QED BY <1>1, <2>1 DEF IsLabel, Range
<1>4. ASSUME \A i \in 1 .. j - 1 : s[i] # Dot PROVE j = Find(s, Dot) + 1
  <2>1. ~ (Find(s, Dot) + 1 < j)
    <3>1. ASSUME Find(s, Dot) + 1 < j PROVE Find(s, Dot) + 1 \in 1 .. j - 1
      BY <1>2, <3>1
    <3> QED BY <1>2, <1>4, <3>1
  <2>2. ~ (j < Find(s, Dot) + 1)
    <3>1. ASSUME j < Find(s, Dot) + 1 PROVE j \in 1 .. Find(s, Dot)
      BY <1>2, <3>1
    <3> QED BY <1>2, <3>1
  <2>3. \A m, n \in Nat : ~(m < n) /\ ~(n < m) => m = n
    OBVIOUS
  <2>4. j \in Nat /\ Find(s, Dot) + 1 \in Nat
    BY <1>2
  <2> HIDE DEF Dot
  <2> QED BY <2>1, <2>2, <2>3, <2>4
<1>5. ASSUME j = Find(s, Dot) + 1 PROVE \A i \in 1 .. j - 1 : s[i] # Dot
  <2>1. j - 1 = Find(s, Dot)
    BY <1>2, <1>5
  <2> QED BY <1>2, <2>1
<1> QED BY <1>3, <1>4, <1>5

\* A name with a dot falls into what is in front and what is from it on.
LEMMA WithDot ==
    ASSUME NEW s \in Seq(Nat), Find(s, Dot) >= 0
    PROVE  /\ Find(s, Dot) + 1 \in 1 .. Len(s) /\ s[Find(s, Dot) + 1] = Dot
           /\ suffixLen(s) = Len(s) - Find(s, Dot)
           /\ Right(s, suffixLen(s)) = SubSeq(s, Find(s, Dot) + 1, Len(s))
           /\ SpanExcluding(s) = SubSeq(s, 1, Find(s, Dot))
<1>1. Find(s, Dot) + 1 \in 1 .. Len(s) /\ s[Find(s, Dot) + 1] = Dot
  BY Found
<1>2. Find(s, Dot) \in 0 .. Len(s) - 1 /\ Len(s) \in Nat
  BY Found
<1>3. suffixLen(s) = Len(s) - Find(s, Dot)
  BY DEF suffixLen
<1>4. SpanExcluding(s) = SubSeq(s, 1, Find(s, Dot))
  BY <1>2 DEF SpanExcluding
<1>5. Right(s, suffixLen(s)) = SubSeq(s, Find(s, Dot) + 1, Len(s))
  <2>1. CASE Find(s, Dot) = 0
    BY <1>2, <1>3, <2>1, SubSeqFull DEF Right
  <2>2. CASE Find(s, Dot) # 0
    <3>1. ~(suffixLen(s) >= Len(s)) /\ Len(s) - suffixLen(s) + 1 = Find(s, Dot) + 1
      BY <1>2, <1>3, <2>2
    <3> QED BY <3>1 DEF Right
  <2> QED BY <2>1, <2>2
<1> QED BY <1>1, <1>3, <1>4, <1>5

\* A name without one is all suffix.
LEMMA WithoutDot ==
    ASSUME NEW s \in Seq(Nat), ~(Find(s, Dot) >= 0)
    PROVE  suffixLen(s) = Len(s) + 1 /\ Right(s, suffixLen(s)) = s
<1>1. Find(s, Dot) = -1
  BY Found
<1>2. suffixLen(s) = Len(s) + 1 /\ Len(s) + 1 >= Len(s)
  BY <1>1 DEF suffixLen
<1> QED BY <1>2 DEF Right

\* Two names differ in capitals only.
LEMMA SameLowered ==
    ASSUME NEW s \in Seq(Nat), NEW t \in Seq(Nat)
    PROVE  Lower(s) = Lower(t) <=> /\ Len(s) = Len(t)
                                   /\ \A i \in 1 .. Len(s) : s[i] % 8 = t[i] % 8
<1>1. /\ Lower(s) \in Seq(Nat) /\ Len(Lower(s)) = Len(s)
      /\ \A i \in 1 .. Len(s) : Lower(s)[i] = s[i] % 8
      /\ Lower(t) \in Seq(Nat) /\ Len(Lower(t)) = Len(t)
      /\ \A i \in 1 .. Len(t) : Lower(t)[i] = t[i] % 8
  BY Lowered
<1>2. ASSUME Len(s) = Len(t), \A i \in 1 .. Len(s) : s[i] % 8 = t[i] % 8
      PROVE  Lower(s) = Lower(t)
  <2>1. \A i \in 1 .. Len(Lower(s)) : Lower(s)[i] = Lower(t)[i]
    BY <1>1, <1>2
  <2> QED BY <1>1, <1>2, <2>1, SeqEqual
<1>3. ASSUME Lower(s) = Lower(t)
      PROVE  Len(s) = Len(t) /\ \A i \in 1 .. Len(s) : s[i] % 8 = t[i] % 8
  <2>1. Len(s) = Len(t)
    BY <1>1, <1>3
  <2>2. ASSUME NEW i \in 1 .. Len(s) PROVE s[i] % 8 = t[i] % 8
    <3>1. i \in 1 .. Len(t)
      BY <2>1
    <3> QED BY <1>1, <1>3, <3>1
  <2> QED BY <2>1, <2>2
<1> QED BY <1>2, <1>3


\* The first n characters of a name, and the others.
LEMMA FrontPart ==
    ASSUME NEW s \in Seq(Nat), NEW n \in 0 .. Len(s)
    PROVE  /\ SubSeq(s, 1, n) \in Seq(Nat) /\ Len(SubSeq(s, 1, n)) = n
           /\ \A k \in 1 .. n : SubSeq(s, 1, n)[k] = s[k]
<1>0. Len(s) \in Nat /\ n \in Nat /\ 1 \in 1 .. Len(s) + 1
  OBVIOUS
<1>1. /\ SubSeq(s, 1, n) \in Seq(Nat)
      /\ Len(SubSeq(s, 1, n)) = IF 1 <= n THEN n - 1 + 1 ELSE 0
      /\ \A k \in 1 .. n - 1 + 1 : SubSeq(s, 1, n)[k] = s[1 + k - 1]
  BY <1>0, Part
<1>2. Len(SubSeq(s, 1, n)) = n
  <2>1. CASE 1 <= n
    BY <1>0, <1>1, <2>1
  <2>2. CASE ~(1 <= n)
    <3>1. n = 0
      BY <1>0, <2>2
    <3> QED BY <1>1, <3>1
  <2> QED BY <2>1, <2>2
<1>3. ASSUME NEW k \in 1 .. n PROVE SubSeq(s, 1, n)[k] = s[k]
  <2>1. k \in 1 .. n - 1 + 1 /\ 1 + k - 1 = k
    BY <1>0
  <2>2. SubSeq(s, 1, n)[k] = s[1 + k - 1]
    BY <1>1, <2>1
  <2> QED BY <2>1, <2>2
<1> QED BY <1>1, <1>2, <1>3

LEMMA BackPart ==
    ASSUME NEW s \in Seq(Nat), NEW n \in 0 .. Len(s)
    PROVE  /\ SubSeq(s, n + 1, Len(s)) \in Seq(Nat)
           /\ Len(SubSeq(s, n + 1, Len(s))) = Len(s) - n
           /\ \A k \in 1 .. Len(s) - n : SubSeq(s, n + 1, Len(s))[k] = s[n + k]
<1>0. Len(s) \in Nat /\ n \in Nat /\ n + 1 \in 1 .. Len(s) + 1 /\ Len(s) \in 0 .. Len(s)
  OBVIOUS
<1>1. /\ SubSeq(s, n + 1, Len(s)) \in Seq(Nat)
      /\ Len(SubSeq(s, n + 1, Len(s))) =
           IF n + 1 <= Len(s) THEN Len(s) - (n + 1) + 1 ELSE 0
      /\ \A k \in 1 .. Len(s) - (n + 1) + 1 :
           SubSeq(s, n + 1, Len(s))[k] = s[n + 1 + k - 1]
  BY <1>0, Part
<1>2. Len(SubSeq(s, n + 1, Len(s))) = Len(s) - n
  <2>1. CASE n + 1 <= Len(s)
    BY <1>0, <1>1, <2>1
  <2>2. CASE ~(n + 1 <= Len(s))
    <3>1. Len(s) - n = 0
      BY <1>0, <2>2
    <3> QED BY <1>1, <2>2, <3>1
  <2> QED BY <2>1, <2>2
<1>3. ASSUME NEW k \in 1 .. Len(s) - n PROVE SubSeq(s, n + 1, Len(s))[k] = s[n + k]
  <2>1. k \in 1 .. Len(s) - (n + 1) + 1 /\ n + 1 + k - 1 = n + k
    BY <1>0
  <2>2. SubSeq(s, n + 1, Len(s))[k] = s[n + 1 + k - 1]
    BY <1>1, <2>1
  <2> QED BY <2>1, <2>2
<1> QED BY <1>1, <1>2, <1>3

\* Two names with the same further labels, of which the first is matched.
LEMMA LabelMatches ==
    ASSUME NEW host \in Seq(Nat), NEW dns \in Seq(Nat),
           NEW h \in 0 .. Len(host) - 1, NEW d \in 0 .. Len(dns) - 1,
           host[h + 1] = Dot, dns[d + 1] = Dot,
           IsLabel(SubSeq(host, 1, h)), IsLabel(SubSeq(dns, 1, d)), d <= 2,
           SubSeq(dns, d + 1, Len(dns)) = SubSeq(host, h + 1, Len(host)),
           PathMatchSpec(SubSeq(host, 1, h), SubSeq(dns, 1, d))
    PROVE  Covers(dns, host)
<1> DEFINE label == SubSeq(host, 1, h)
           wild  == SubSeq(dns, 1, d)
<1>0. /\ Len(host) \in Nat /\ Len(dns) \in Nat /\ h \in Nat /\ d \in Nat
      /\ h \in 0 .. Len(host) /\ d \in 0 .. Len(dns)
  <2>1. Len(host) \in Nat /\ Len(dns) \in Nat
    OBVIOUS
  <2> QED BY <2>1
<1>1. label \in Seq(Nat) /\ Len(label) = h /\ \A k \in 1 .. h : label[k] = host[k]
  BY <1>0, FrontPart
<1>2. wild \in Seq(Nat) /\ Len(wild) = d /\ \A k \in 1 .. d : wild[k] = dns[k]
  BY <1>0, FrontPart
<1>3. CASE \E k \in 1 .. d : wild[k] = Star
  <2>1. Fits(label, wild)
    <3>1. PICK k \in 1 .. Len(wild) : wild[k] = Star
      BY <1>2, <1>3
    <3>2. Len(wild) <= 2
      BY <1>2
    <3> HIDE DEF label, wild
    <3>3. PathMatchSpec(label, wild)
      BY DEF label, wild
    <3> QED BY <1>1, <1>2, <3>1, <3>2, <3>3, StarFits
  <2>2. d + 1 \in DOMAIN dns /\ h + 1 \in DOMAIN host
        /\ d + 1 - 1 = d /\ h + 1 - 1 = h /\ d + 1 <= 3
    BY <1>0
  <2>3. PICK i, j : i = d + 1 /\ j = h + 1
    OBVIOUS
  <2>4. /\ i \in DOMAIN dns /\ j \in DOMAIN host /\ i - 1 = d /\ j - 1 = h /\ i <= 3
        /\ dns[i] = Dot /\ host[j] = Dot
        /\ SubSeq(dns, i, Len(dns)) = SubSeq(host, j, Len(host))
    BY <2>2, <2>3
  <2>5. /\ IsLabel(SubSeq(dns, 1, i - 1)) /\ IsLabel(SubSeq(host, 1, j - 1))
        /\ Fits(SubSeq(host, 1, j - 1), SubSeq(dns, 1, i - 1))
    BY <2>1, <2>4
  <2> QED BY <2>4, <2>5 DEF Covers
<1>4. CASE \A k \in 1 .. d : wild[k] # Star
  <2>1. Len(label) = Len(wild) /\ \A k \in 1 .. d : wild[k] % 8 = label[k] % 8
    <3>1. Len(wild) <= 2 /\ \A k \in 1 .. Len(wild) : wild[k] # Star
      BY <1>2, <1>4
    <3> HIDE DEF label, wild
    <3>2. PathMatchSpec(label, wild)
      BY DEF label, wild
    <3> QED BY <1>1, <1>2, <3>1, <3>2, NoStarSame
  <2> HIDE DEF label, wild
  <2>2. h = d
    BY <1>1, <1>2, <2>1
  <2>3. /\ Len(SubSeq(dns, d + 1, Len(dns))) = Len(dns) - d
        /\ \A k \in 1 .. Len(dns) - d : SubSeq(dns, d + 1, Len(dns))[k] = dns[d + k]
    BY <1>0, BackPart
  <2>4. /\ Len(SubSeq(host, h + 1, Len(host))) = Len(host) - h
        /\ \A k \in 1 .. Len(host) - h : SubSeq(host, h + 1, Len(host))[k] = host[h + k]
    BY <1>0, BackPart
  <2>5. Len(dns) - d = Len(host) - d
    BY <2>2, <2>3, <2>4
  <2>6. Len(dns) = Len(host)
    BY <1>0, <2>5
  <2>7. ASSUME NEW k \in 1 .. Len(dns) PROVE dns[k] % 8 = host[k] % 8
    <3>1. CASE k <= d
      <4>1. k \in 1 .. d
        BY <1>0, <3>1
      <4> QED BY <1>1, <1>2, <2>1, <2>2, <4>1
    <3>2. CASE ~(k <= d)
      <4>1. k - d \in 1 .. Len(dns) - d /\ d + (k - d) = k
        BY <1>0, <3>2
      <4>2. SubSeq(dns, d + 1, Len(dns))[k - d] = dns[d + (k - d)]
        BY <2>3, <4>1
      <4>3. SubSeq(host, h + 1, Len(host))[k - d] = host[d + (k - d)]
        BY <2>2, <2>4, <2>5, <4>1
      <4>4. dns[k] = host[k]
        BY <4>1, <4>2, <4>3
      <4> QED BY <4>4
    <3> QED BY <3>1, <3>2
  <2> QED BY <2>6, <2>7, SameLowered DEF Covers
<1> QED BY <1>3, <1>4

\* Why HostNameMatches may compare lengths first: names that differ in where
\* the dot is, or whether there is one, do not have the same suffix.
LEMMA WildMatches ==
    ASSUME NEW host \in Seq(Nat), NEW dns \in Seq(Nat),
           Len(dns) <= suffixLen(host) + 2,
           suffixLen(dns) = suffixLen(host),
           Right(host, suffixLen(host)) = Right(dns, suffixLen(host)),
           PathMatchSpec(SpanExcluding(host), SpanExcluding(dns))
    PROVE  Covers(dns, host)
<1>0. Len(host) \in Nat /\ Len(dns) \in Nat
  OBVIOUS
<1>1. CASE ~(Find(host, Dot) >= 0) /\ ~(Find(dns, Dot) >= 0)
  <2>1. Right(host, suffixLen(host)) = host /\ Right(dns, suffixLen(dns)) = dns
    BY <1>1, WithoutDot
  <2> QED BY <2>1 DEF Covers
<1>2. CASE Find(host, Dot) >= 0 /\ ~(Find(dns, Dot) >= 0)
  <2>1. /\ Find(host, Dot) \in 0 .. Len(host) - 1
        /\ suffixLen(host) = Len(host) - Find(host, Dot)
        /\ Right(host, suffixLen(host)) = SubSeq(host, Find(host, Dot) + 1, Len(host))
    BY <1>2, WithDot, Found
  <2>2. suffixLen(dns) = Len(dns) + 1 /\ Right(dns, suffixLen(dns)) = dns
    BY <1>2, WithoutDot
  <2>3. Len(SubSeq(host, Find(host, Dot) + 1, Len(host))) = Len(host) - Find(host, Dot)
    BY <1>0, <2>1
  <2>4. Len(dns) = Len(dns) + 1
    BY <2>1, <2>2, <2>3
  <2> QED BY <1>0, <2>4
<1>3. CASE ~(Find(host, Dot) >= 0) /\ Find(dns, Dot) >= 0
  <2>1. /\ Find(dns, Dot) \in 0 .. Len(dns) - 1
        /\ suffixLen(dns) = Len(dns) - Find(dns, Dot)
        /\ Right(dns, suffixLen(dns)) = SubSeq(dns, Find(dns, Dot) + 1, Len(dns))
    BY <1>3, WithDot, Found
  <2>2. suffixLen(host) = Len(host) + 1 /\ Right(host, suffixLen(host)) = host
    BY <1>3, WithoutDot
  <2>3. Len(SubSeq(dns, Find(dns, Dot) + 1, Len(dns))) = Len(dns) - Find(dns, Dot)
    BY <1>0, <2>1
  <2>4. Len(host) = Len(host) + 1
    BY <2>1, <2>2, <2>3
  <2> QED BY <1>0, <2>4
<1>4. CASE Find(host, Dot) >= 0 /\ Find(dns, Dot) >= 0
  <2>1. PICK h : h = Find(host, Dot)
    OBVIOUS
  <2>2. PICK d : d = Find(dns, Dot)
    OBVIOUS
  <2>3. /\ h \in 0 .. Len(host) - 1 /\ host[h + 1] = Dot /\ h + 1 \in 1 .. Len(host)
        /\ suffixLen(host) = Len(host) - h
        /\ Right(host, suffixLen(host)) = SubSeq(host, h + 1, Len(host))
        /\ SpanExcluding(host) = SubSeq(host, 1, h)
    <3>1. Find(host, Dot) \in 0 .. Len(host) - 1
      BY <1>4, Found
    <3> QED BY <1>4, <2>1, <3>1, WithDot
  <2>4. /\ d \in 0 .. Len(dns) - 1 /\ dns[d + 1] = Dot /\ d + 1 \in 1 .. Len(dns)
        /\ suffixLen(dns) = Len(dns) - d
        /\ Right(dns, suffixLen(dns)) = SubSeq(dns, d + 1, Len(dns))
        /\ SpanExcluding(dns) = SubSeq(dns, 1, d)
    <3>1. Find(dns, Dot) \in 0 .. Len(dns) - 1
      BY <1>4, Found
    <3> QED BY <1>4, <2>2, <3>1, WithDot
  <2>5. h + 1 - 1 = h /\ d + 1 - 1 = d
    BY <2>3, <2>4
  <2>6. IsLabel(SubSeq(host, 1, h)) /\ IsLabel(SubSeq(dns, 1, d))
    <3>1. PICK i, j : i = h + 1 /\ j = d + 1
      OBVIOUS
    <3>2. IsLabel(SubSeq(host, 1, i - 1))
      BY <2>1, <2>3, <3>1, FirstDot
    <3>3. IsLabel(SubSeq(dns, 1, j - 1))
      BY <2>2, <2>4, <3>1, FirstDot
    <3>4. i - 1 = h /\ j - 1 = d
      BY <2>3, <2>4, <3>1
    <3> QED BY <3>2, <3>3, <3>4
  <2>7. d <= 2
    BY <1>0, <2>3, <2>4
  <2>8. SubSeq(dns, d + 1, Len(dns)) = SubSeq(host, h + 1, Len(host))
    BY <2>3, <2>4
  <2>9. PathMatchSpec(SubSeq(host, 1, h), SubSeq(dns, 1, d))
    BY <2>3, <2>4
  <2> QED BY <2>3, <2>4, <2>6, <2>7, <2>8, <2>9, LabelMatches
<1> QED BY <1>1, <1>2, <1>3, <1>4

\* HostNameMatches, which compares lengths, suffixes and a pattern, accepts a
\* certificate's name for a host exactly when the name covers the host, label by
\* label: for names of every length and with stars anywhere.
THEOREM HostNames ==
    ASSUME NEW host \in Seq(Nat), NEW dns \in Seq(Nat)
    PROVE  HostNameMatches(host, dns) <=> Covers(dns, host)
<1>1. ASSUME HostNameMatches(host, dns) PROVE Covers(dns, host)
  <2>1. CASE DnsNameCompare(host, dns)
    BY <2>1 DEF DnsNameCompare, Covers
  <2>2. CASE ~DnsNameCompare(host, dns)
    BY <1>1, <2>2, WildMatches DEF HostNameMatches
  <2> QED BY <2>1, <2>2
<1>2. ASSUME Covers(dns, host) PROVE HostNameMatches(host, dns)
  <2>1. CASE Lower(dns) = Lower(host)
    BY <2>1 DEF HostNameMatches, DnsNameCompare
  <2>2. CASE Lower(dns) # Lower(host)
    <3>1. PICK i \in DOMAIN dns, j \in DOMAIN host :
            /\ dns[i] = Dot /\ host[j] = Dot
            /\ IsLabel(SubSeq(dns, 1, i - 1)) /\ IsLabel(SubSeq(host, 1, j - 1))
            /\ i <= 3 /\ Fits(SubSeq(host, 1, j - 1), SubSeq(dns, 1, i - 1))
            /\ SubSeq(dns, i, Len(dns)) = SubSeq(host, j, Len(host))
      BY <1>2, <2>2 DEF Covers
    <3>2. i \in 1 .. Len(dns) /\ j \in 1 .. Len(host) /\ Len(dns) \in Nat /\ Len(host) \in Nat
      OBVIOUS
    <3>3. i = Find(dns, Dot) + 1 /\ j = Find(host, Dot) + 1
      BY <3>1, <3>2, FirstDot
    <3>4. Find(dns, Dot) \in 0 .. Len(dns) - 1 /\ Find(host, Dot) \in 0 .. Len(host) - 1
      BY <3>1, <3>2, Found
    <3>5. /\ Find(dns, Dot) >= 0 /\ Find(host, Dot) >= 0
          /\ i - 1 = Find(dns, Dot) /\ j - 1 = Find(host, Dot)
      <4>1. \A m, n \in Int : m = n + 1 => m - 1 = n
        OBVIOUS
      <4>2. /\ Find(dns, Dot) \in Int /\ Find(host, Dot) \in Int /\ i \in Int /\ j \in Int
            /\ Find(dns, Dot) >= 0 /\ Find(host, Dot) >= 0
        BY <3>2, <3>4
      <4> QED BY <3>3, <4>1, <4>2
    <3>6. /\ suffixLen(dns) = Len(dns) - (i - 1) /\ suffixLen(host) = Len(host) - (j - 1)
          /\ Right(dns, suffixLen(dns)) = SubSeq(dns, i, Len(dns))
          /\ Right(host, suffixLen(host)) = SubSeq(host, j, Len(host))
          /\ SpanExcluding(dns) = SubSeq(dns, 1, i - 1)
          /\ SpanExcluding(host) = SubSeq(host, 1, j - 1)
      BY <3>3, <3>5, WithDot
    <3>7. i - 1 \in 0 .. Len(dns) /\ j - 1 \in 0 .. Len(host)
      BY <3>2
    <3>8. /\ Len(SubSeq(dns, i - 1 + 1, Len(dns))) = Len(dns) - (i - 1)
          /\ Len(SubSeq(host, j - 1 + 1, Len(host))) = Len(host) - (j - 1)
      BY <3>7, BackPart
    <3>9. suffixLen(dns) = suffixLen(host)
      <4>1. i - 1 + 1 = i /\ j - 1 + 1 = j
        BY <3>2
      <4> QED BY <3>1, <3>6, <3>8, <4>1
    <3>10. Right(host, suffixLen(host)) = Right(dns, suffixLen(host))
      BY <3>1, <3>6, <3>9
    <3>11. Len(dns) <= suffixLen(host) + 2
      <4>1. suffixLen(host) = Len(dns) - (i - 1)
        BY <3>6, <3>9
      <4> QED BY <3>1, <3>2, <4>1
    <3>12. PICK label : label = SubSeq(host, 1, j - 1)
      OBVIOUS
    <3>13. PICK wild : wild = SubSeq(dns, 1, i - 1)
      OBVIOUS
    <3>14. /\ label \in Seq(Nat)
           /\ wild \in Seq(Nat) /\ Len(wild) = i - 1
           /\ \A k \in 1 .. i - 1 : wild[k] = dns[k]
      BY <3>7, <3>12, <3>13, FrontPart
    <3>15. PICK k \in 1 .. Len(wild) : wild[k] = Star
      <4>1. Fits(label, wild)
        BY <3>1, <3>12, <3>13
      <4>2. PICK a, b \in DOMAIN wild : a <= b /\ \A k \in a .. b : wild[k] = Star
        BY <4>1 DEF Fits
      <4>3. a \in a .. b /\ a \in 1 .. Len(wild)
        BY <3>14, <4>2
      <4> QED BY <4>2, <4>3
    <3>16. Find(dns, Star) >= 0
      <4>1. k \in 1 .. i - 1 /\ k \in DOMAIN dns
        BY <3>2, <3>14
      <4>2. dns[k] = Star
        BY <3>14, <3>15, <4>1
      <4> QED BY <4>1, <4>2, Found
    <3>17. Len(wild) <= 2
      BY <3>1, <3>2, <3>14
    <3>18. PathMatchSpec(label, wild)
      BY <3>1, <3>12, <3>13, <3>14, <3>15, <3>17, StarFits
    <3> QED BY <3>6, <3>9, <3>10, <3>11, <3>12, <3>13, <3>16, <3>18 DEF HostNameMatches
  <2> QED BY <2>1, <2>2
<1> QED BY <1>1, <1>2

-----------------------------------------------------------------------------
(* Sequences put together from parts.                                       *)

\* Two sequences joined.
LEMMA Joins ==
    ASSUME NEW S, NEW a \in Seq(S), NEW b \in Seq(S)
    PROVE  /\ a \o b \in Seq(S) /\ Len(a \o b) = Len(a) + Len(b)
           /\ \A k \in 1 .. Len(a) : (a \o b)[k] = a[k]
           /\ \A k \in 1 .. Len(b) : (a \o b)[Len(a) + k] = b[k]
OBVIOUS

\* What a sequence is made of.
LEMMA Elements ==
    ASSUME NEW S, NEW s \in Seq(S)
    PROVE  /\ Len(s) \in Nat /\ DOMAIN s = 1 .. Len(s)
           /\ \A i \in 1 .. Len(s) : s[i] \in S
OBVIOUS

\* A flattened sequence, part by part.
LEMMA Flattening ==
    ASSUME NEW S, NEW s \in Seq(Seq(S)), Len(s) # 0
    PROVE  \E F \in [1 .. Len(s) -> Seq(S)] :
              /\ FlattenSeq(s) = F[Len(s)] /\ F[1] = s[1]
              /\ \A i \in 2 .. Len(s) : F[i] = F[i - 1] \o s[i]
<1> DEFINE N == Len(s)
           Is(f, m) == f = [i \in 1 .. m |-> IF i = 1 THEN s[i] ELSE f[i - 1] \o s[i]]
           F == CHOOSE f : Is(f, N)
<1>1. N \in Nat \ {0} /\ \A i \in 1 .. N : s[i] \in Seq(S)
  OBVIOUS
<1>2. FlattenSeq(s) = F[N]
  BY Zenon DEF FlattenSeq
<1> HIDE DEF N
<1>3. \A m \in 1 .. N : \E f \in [1 .. m -> Seq(S)] : Is(f, m)
  <2> DEFINE B == {m \in 1 .. N : ~ \E f \in [1 .. m -> Seq(S)] : Is(f, m)}
  <2>1. SUFFICES ASSUME B # {} PROVE FALSE
    OBVIOUS
  <2>2. B \subseteq Nat
    <3>1. \A k \in 1 .. N : k \in Nat
      BY <1>1
    <3> QED BY <3>1, Zenon
  <2>3. PICK m \in B : \A k \in B : m <= k
    <3> HIDE DEF B
    <3> QED BY <2>1, <2>2, LeastNumber
  <2>4. m \in 1 .. N /\ ~ \E f \in [1 .. m -> Seq(S)] : Is(f, m)
    OBVIOUS
  <2>5. CASE m = 1
    <3> DEFINE g == [i \in 1 .. 1 |-> s[i]]
    <3>1. g \in [1 .. 1 -> Seq(S)] /\ Is(g, 1)
      BY <1>1
    <3> QED BY <2>4, <2>5, <3>1
  <2>6. CASE m # 1
    <3>1. m - 1 \in 1 .. N /\ ~ (m <= m - 1)
      BY <1>1, <2>4, <2>6
    <3>2. PICK f \in [1 .. m - 1 -> Seq(S)] : Is(f, m - 1)
      BY <2>3, <3>1
    <3> DEFINE g == [i \in 1 .. m |-> IF i = m THEN f[m - 1] \o s[m] ELSE f[i]]
    <3>3. f[m - 1] \o s[m] \in Seq(S)
      BY <1>1, <2>4, <3>1
    <3>4. g \in [1 .. m -> Seq(S)]
      BY <1>1, <2>4, <3>3
    <3>5. ASSUME NEW i \in 1 .. m
          PROVE  g[i] = IF i = 1 THEN s[i] ELSE g[i - 1] \o s[i]
      <4>1. CASE i = m
        <5>1. m \in 1 .. m /\ m - 1 \in 1 .. m /\ m - 1 # m
          BY <1>1, <2>4, <3>1
        <5>2. g[m] = f[m - 1] \o s[m] /\ g[m - 1] = f[m - 1]
          BY <5>1
        <5> HIDE DEF g
        <5> QED BY <2>6, <4>1, <5>2
      <4>2. CASE i # m
        <5>1. i \in 1 .. m - 1 /\ (i # 1 => i - 1 \in 1 .. m /\ i - 1 # m)
          BY <1>1, <2>4, <4>2
        <5>2. g[i] = f[i] /\ (i # 1 => g[i - 1] = f[i - 1])
          BY <4>2, <5>1
        <5>3. f[i] = IF i = 1 THEN s[i] ELSE f[i - 1] \o s[i]
          BY <3>2, <5>1
        <5> QED BY <5>2, <5>3
      <4> QED BY <4>1, <4>2
    <3>6. Is(g, m)
      <4>1. g = [i \in 1 .. m |-> g[i]]
        OBVIOUS
      <4> HIDE DEF g
      <4> QED BY <3>5, <4>1
    <3> HIDE DEF g, Is
    <3> QED BY <2>4, <3>4, <3>6
  <2> QED BY <2>5, <2>6
<1>4. Is(F, N)
  <2>1. \E f : Is(f, N)
    <3>1. N \in 1 .. N
      BY <1>1
    <3> HIDE DEF Is
    <3> QED BY <1>3, <3>1
  <2> HIDE DEF Is
  <2> QED BY <2>1
<1> HIDE DEF F
<1>5. \A i \in 1 .. N : F[i] = IF i = 1 THEN s[i] ELSE F[i - 1] \o s[i]
  BY <1>4
<1>6. \A i \in 1 .. N : F[i] \in Seq(S)
  <2> DEFINE B == {m \in 1 .. N : F[m] \notin Seq(S)}
  <2>1. SUFFICES ASSUME B # {} PROVE FALSE
    OBVIOUS
  <2>2. B \subseteq Nat
    BY <1>1
  <2>3. PICK m \in B : \A k \in B : m <= k
    <3> HIDE DEF B
    <3> QED BY <2>1, <2>2, LeastNumber
  <2>4. m # 1 => m - 1 \in 1 .. N /\ ~ (m <= m - 1)
    BY <1>1, <2>2
  <2>5. m # 1 => F[m - 1] \in Seq(S)
    BY <2>3, <2>4
  <2>6. m \in 1 .. N /\ F[m] \notin Seq(S) /\ s[m] \in Seq(S)
    BY <1>1
  <2>7. m # 1 => F[m - 1] \o s[m] \in Seq(S)
    BY <2>5, <2>6, Joins
  <2> QED BY <1>5, <2>6, <2>7
<1>7. F \in [1 .. N -> Seq(S)]
  <2>1. F = [i \in 1 .. N |-> F[i]]
    BY <1>4
  <2> QED BY <1>6, <2>1
<1>8. F[1] = s[1] /\ \A i \in 2 .. N : F[i] = F[i - 1] \o s[i]
  <2>1. 1 \in 1 .. N /\ \A i \in 2 .. N : i \in 1 .. N /\ i # 1
    BY <1>1
  <2> QED BY <1>5, <2>1
<1> QED BY <1>2, <1>7, <1>8 DEF N

\* The parts of a flattened sequence: part i ends at P[i].
Splits(s, t, P) ==
    /\ P \in [0 .. Len(s) -> Nat] /\ P[0] = 0 /\ P[Len(s)] = Len(t)
    /\ \A i \in 1 .. Len(s) :
          /\ P[i] = P[i - 1] + Len(s[i])
          /\ \A k \in 1 .. Len(s[i]) : t[P[i - 1] + k] = s[i][k]

\* Every flattened sequence has its parts one behind the other.
LEMMA Flattened ==
    ASSUME NEW S, NEW s \in Seq(Seq(S))
    PROVE  /\ FlattenSeq(s) \in Seq(S)
           /\ \E P : Splits(s, FlattenSeq(s), P)
<1>1. CASE Len(s) = 0
  <2>1. s = <<>> /\ FlattenSeq(s) = <<>>
    BY <1>1 DEF FlattenSeq
  <2> DEFINE P == [i \in 0 .. 0 |-> 0]
  <2>2. Splits(s, <<>>, P)
    BY <2>1 DEF Splits
  <2> QED BY <2>1, <2>2
<1>2. CASE Len(s) # 0
  <2>1. PICK F \in [1 .. Len(s) -> Seq(S)] :
              /\ FlattenSeq(s) = F[Len(s)] /\ F[1] = s[1]
              /\ \A i \in 2 .. Len(s) : F[i] = F[i - 1] \o s[i]
    BY <1>2, Flattening
  <2> DEFINE N == Len(s)
             P == [i \in 0 .. N |-> IF i = 0 THEN 0 ELSE Len(F[i])]
  <2>2. N \in Nat \ {0} /\ \A i \in 1 .. N : s[i] \in Seq(S) /\ F[i] \in Seq(S)
    BY <1>2, Elements
  <2> HIDE DEF N
  <2>3. /\ P \in [0 .. N -> Nat] /\ P[0] = 0
        /\ \A i \in 1 .. N : P[i] = Len(F[i])
    BY <2>2
  <2> HIDE DEF P
  <2>4. ASSUME NEW i \in 1 .. N
        PROVE  /\ P[i] = P[i - 1] + Len(s[i])
               /\ \A k \in 1 .. Len(s[i]) : F[i][P[i - 1] + k] = s[i][k]
               /\ i # 1 => \A q \in 1 .. P[i - 1] : F[i][q] = F[i - 1][q]
    <3>1. CASE i = 1
      BY <2>1, <2>2, <2>3, <3>1
    <3>2. CASE i # 1
      <4>1. i \in 2 .. N /\ i - 1 \in 1 .. N
        BY <2>2, <3>2
      <4>2. F[i] = F[i - 1] \o s[i] /\ P[i - 1] = Len(F[i - 1]) /\ P[i] = Len(F[i])
        BY <2>1, <2>3, <4>1 DEF N
      <4>3. /\ Len(F[i - 1] \o s[i]) = Len(F[i - 1]) + Len(s[i])
            /\ \A k \in 1 .. Len(F[i - 1]) : (F[i - 1] \o s[i])[k] = F[i - 1][k]
            /\ \A k \in 1 .. Len(s[i]) :
                  (F[i - 1] \o s[i])[Len(F[i - 1]) + k] = s[i][k]
        <5>1. F[i - 1] \in Seq(S) /\ s[i] \in Seq(S)
          BY <2>2, <4>1
        <5>2. PICK a \in Seq(S) : a = F[i - 1]
          BY <5>1
        <5>3. PICK b \in Seq(S) : b = s[i]
          BY <5>1
        <5>4. /\ Len(a \o b) = Len(a) + Len(b)
              /\ \A k \in 1 .. Len(a) : (a \o b)[k] = a[k]
              /\ \A k \in 1 .. Len(b) : (a \o b)[Len(a) + k] = b[k]
          BY Joins
        <5> QED BY <5>2, <5>3, <5>4
      <4> QED BY <4>2, <4>3
    <3> QED BY <3>1, <3>2
  <2>5. ASSUME NEW i \in 1 .. N, NEW k \in 1 .. Len(s[i])
        PROVE  F[N][P[i - 1] + k] = s[i][k]
    <3> DEFINE q == P[i - 1] + k
               B == {m \in i .. N : ~ (q \in 1 .. P[m] /\ F[m][q] = s[i][k])}
    <3>1. i - 1 \in 0 .. N /\ P[i - 1] \in Nat /\ Len(s[i]) \in Nat
      <4>1. Len(s[i]) \in Nat
        BY <2>2, Elements
      <4> QED BY <2>2, <2>3, <4>1
    <3>2. q \in 1 .. P[i] /\ F[i][q] = s[i][k]
      <4>1. P[i] = P[i - 1] + Len(s[i])
        BY <2>4
      <4> QED BY <2>4, <3>1, <4>1
    <3>3. SUFFICES ASSUME B # {} PROVE FALSE
      <4>1. N \in i .. N
        BY <2>2
      <4> QED BY <4>1
    <3>4. B \subseteq Nat
      BY <2>2
    <3>5. PICK m \in B : \A j \in B : m <= j
      <4> HIDE DEF B
      <4> QED BY <3>3, <3>4, LeastNumber
    <3>6. m # i
      BY <3>2
    <3>7. m - 1 \in i .. N /\ m \in 1 .. N /\ m # 1 /\ ~ (m <= m - 1)
      BY <2>2, <3>4, <3>6
    <3>8. q \in 1 .. P[m - 1] /\ F[m - 1][q] = s[i][k]
      BY <3>5, <3>7
    <3>9. F[m][q] = F[m - 1][q] /\ P[m] = P[m - 1] + Len(s[m])
      BY <2>4, <3>7, <3>8
    <3>10. Len(s[m]) \in Nat /\ P[m - 1] \in Nat
      <4>1. s[m] \in Seq(S) /\ m - 1 \in 0 .. N
        BY <2>2, <3>7
      <4> QED BY <2>3, <4>1, Elements
    <3>11. q \in 1 .. P[m]
      BY <3>8, <3>9, <3>10
    <3> QED BY <3>8, <3>9, <3>11
  <2>6. P[N] = Len(F[N]) /\ FlattenSeq(s) = F[N] /\ F[N] \in Seq(S)
    BY <2>1, <2>2, <2>3 DEF N
  <2>7. Splits(s, FlattenSeq(s), P)
    BY <2>3, <2>4, <2>5, <2>6 DEF Splits, N
  <2> QED BY <2>6, <2>7
<1> QED BY <1>1, <1>2

\* The ends of the parts go up, and every place is in some part.
LEMMA PartsInOrder ==
    ASSUME NEW S, NEW s \in Seq(Seq(S)), NEW t \in Seq(S), NEW P, Splits(s, t, P)
    PROVE  /\ \A i, j \in 0 .. Len(s) : i <= j => P[i] <= P[j]
           /\ \A q \in 1 .. Len(t) : \E i \in 1 .. Len(s) :
                 P[i - 1] < q /\ q <= P[i]
<1> DEFINE N == Len(s)
<1>1. /\ N \in Nat /\ P \in [0 .. N -> Nat] /\ P[0] = 0 /\ P[N] = Len(t)
      /\ \A i \in 1 .. N : P[i] = P[i - 1] + Len(s[i]) /\ Len(s[i]) \in Nat
  BY DEF Splits
<1> HIDE DEF N
<1>2. ASSUME NEW i \in 0 .. N, NEW j \in 0 .. N, i <= j, P[i] > P[j] PROVE FALSE
  <2> DEFINE B == {m \in i .. N : P[i] > P[m]}
  <2>1. j \in B /\ B \subseteq Nat
    BY <1>1, <1>2
  <2>2. PICK m \in B : \A k \in B : m <= k
    <3> HIDE DEF B
    <3> QED BY <2>1, LeastNumber
  <2>3. m # i /\ m \in i .. N
    BY <1>1
  <2>4. m - 1 \in i .. N /\ m \in 1 .. N /\ ~ (m <= m - 1)
    BY <1>1, <2>3
  <2>5. ~ (P[i] > P[m - 1])
    BY <2>2, <2>4
  <2>6. P[m] = P[m - 1] + Len(s[m]) /\ Len(s[m]) \in Nat /\ P[m - 1] \in Nat
    BY <1>1, <2>4
  <2>7. P[i] > P[m] /\ P[i] \in Nat
    BY <1>1
  <2>8. \A a, b, c \in Nat : a > b + c => a > b
    OBVIOUS
  <2> QED BY <2>5, <2>6, <2>7, <2>8
<1>3. ASSUME NEW q \in 1 .. Len(t)
      PROVE  \E i \in 1 .. N : P[i - 1] < q /\ q <= P[i]
  <2> DEFINE B == {m \in 0 .. N : q <= P[m]}
  <2>1. N \in B /\ B \subseteq Nat
    BY <1>1
  <2>2. PICK m \in B : \A k \in B : m <= k
    <3> HIDE DEF B
    <3> QED BY <2>1, LeastNumber
  <2>3. m \in 1 .. N /\ m - 1 \in 0 .. N /\ ~ (m <= m - 1)
    BY <1>1
  <2>4. ~ (q <= P[m - 1]) /\ P[m - 1] \in Nat
    BY <1>1, <2>2, <2>3
  <2> QED BY <2>2, <2>3, <2>4
<1>4. \A i, j \in 0 .. N : i <= j => P[i] <= P[j]
  <2>1. \A i \in 0 .. N : P[i] \in Nat
    BY <1>1
  <2> QED BY <1>2, <2>1
<1> QED BY <1>3, <1>4 DEF N

-----------------------------------------------------------------------------
(* How a hello is laid out, and what is read from it.                       *)

\* Arithmetic of the bytes of a length.
LEMMA Times ==
    ASSUME NEW a \in Nat, NEW b \in Nat
    PROVE  a * b = b * a /\ a * b \in Nat
OBVIOUS

LEMMA Divided ==
    ASSUME NEW n \in Nat, NEW d \in Nat \ {0}
    PROVE  n \div d \in Nat /\ n % d \in Nat /\ (n \div d) * d + (n % d) = n
<1> DEFINE q == n \div d
           r == n % d
<1>1. n = d * q + r
  OBVIOUS
<1>2. q \in Nat /\ r \in Nat
  OBVIOUS
<1> HIDE DEF q, r
<1>3. d * q = q * d
  BY <1>2, Times
<1>4. q * d + r = n
  BY <1>1, <1>3
<1> QED BY <1>2, <1>4 DEF q, r

\* Two sequences joined, of numbers.
LEMMA Joined ==
    ASSUME NEW a \in Seq(Nat), NEW b \in Seq(Nat)
    PROVE  /\ a \o b \in Seq(Nat) /\ Len(a \o b) = Len(a) + Len(b)
           /\ \A k \in 1 .. Len(a) : (a \o b)[k] = a[k]
           /\ \A k \in 1 .. Len(b) : (a \o b)[Len(a) + k] = b[k]
OBVIOUS

\* A length of two bytes, and one of three, says what it was made from.
LEMMA Numbers ==
    ASSUME NEW n \in Nat
    PROVE  /\ Number2(n) \in Seq(Nat) /\ Len(Number2(n)) = 2
           /\ Number2(n)[1] * Byte + Number2(n)[2] = n
<1> DEFINE q == n \div Byte
           r == n % Byte
<1>1. q \in Nat /\ r \in Nat /\ q * Byte + r = n
  BY Divided, HelloAssumption
<1>2. Number2(n) = <<q, r>>
  BY DEF Number2
<1> HIDE DEF q, r
<1> QED BY <1>1, <1>2

LEMMA Numbers3 ==
    ASSUME NEW n \in Nat
    PROVE  /\ Number3(n) \in Seq(Nat) /\ Len(Number3(n)) = 3
           /\ Number3(n)[1] * Byte * Byte + (Number3(n)[2] * Byte + Number3(n)[3]) = n
<1>1. Byte * Byte \in Nat \ {0}
  BY HelloAssumption
<1> DEFINE r == n % (Byte * Byte)
           q == n \div (Byte * Byte)
           u == Number2(r)
<1>2. q \in Nat /\ r \in Nat /\ q * (Byte * Byte) + r = n
  BY Divided, <1>1
<1>4. Number3(n) = <<q>> \o u
  BY DEF Number3
<1> HIDE DEF q, r
<1>3. u \in Seq(Nat) /\ Len(u) = 2 /\ u[1] * Byte + u[2] = r
  BY <1>2, Numbers
<1> HIDE DEF u
<1>5. PICK a : a = <<q>>
  OBVIOUS
<1>6. a \in Seq(Nat) /\ Len(a) = 1 /\ a[1] = q /\ Number3(n) = a \o u
  BY <1>2, <1>4, <1>5
<1>8. /\ Number3(n) \in Seq(Nat) /\ Len(Number3(n)) = Len(a) + Len(u)
      /\ \A k \in 1 .. Len(a) : Number3(n)[k] = a[k]
      /\ \A k \in 1 .. Len(u) : Number3(n)[Len(a) + k] = u[k]
  <2>1. /\ a \o u \in Seq(Nat) /\ Len(a \o u) = Len(a) + Len(u)
        /\ \A k \in 1 .. Len(a) : (a \o u)[k] = a[k]
        /\ \A k \in 1 .. Len(u) : (a \o u)[Len(a) + k] = u[k]
    BY <1>3, <1>6, Joined
  <2> QED BY <1>6, <2>1
<1>9. /\ Len(Number3(n)) = 3 /\ Number3(n)[1] = q
      /\ Number3(n)[1 + 1] = u[1] /\ Number3(n)[1 + 2] = u[2]
  BY <1>3, <1>6, <1>8
<1>7. q * Byte * Byte = q * (Byte * Byte)
  BY <1>2, HelloAssumption
<1>10. Number3(n)[2] = u[1] /\ Number3(n)[3] = u[2]
  BY <1>9
<1>11. q * Byte * Byte + (u[1] * Byte + u[2]) = n
  BY <1>2, <1>3, <1>7
<1> QED BY <1>8, <1>9, <1>10, <1>11

\* x sits in t from offset o on.
Holds(t, o, x) == \A k \in 1 .. Len(x) : t[o + k] = x[k]

\* Where two sequences joined are in the whole.
LEMMA JoinHolds ==
    ASSUME NEW a \in Seq(Nat), NEW b \in Seq(Nat)
    PROVE  Holds(a \o b, 0, a) /\ Holds(a \o b, Len(a), b)
<1>1. \A k \in 1 .. Len(a) : 0 + k = k
  OBVIOUS
<1> QED BY <1>1, Joined DEF Holds

\* What sits in a part sits in the whole.
LEMMA HoldsInside ==
    ASSUME NEW x \in Seq(Nat), NEW y \in Seq(Nat), NEW t, NEW o \in Nat, NEW q \in Nat,
           Holds(t, o, x), Holds(x, q, y), q + Len(y) <= Len(x)
    PROVE  Holds(t, o + q, y)
<1> SUFFICES ASSUME NEW k \in 1 .. Len(y) PROVE t[(o + q) + k] = y[k]
  BY DEF Holds
<1>1. Len(x) \in Nat /\ Len(y) \in Nat
  OBVIOUS
<1>2. q + k \in 1 .. Len(x) /\ o + (q + k) = (o + q) + k
  BY <1>1
<1>3. t[o + (q + k)] = x[q + k] /\ x[q + k] = y[k]
  BY <1>2 DEF Holds
<1> QED BY <1>2, <1>3

\* Where the two halves of a part are.
LEMMA HoldsJoined ==
    ASSUME NEW a \in Seq(Nat), NEW b \in Seq(Nat), NEW t, NEW o \in Nat,
           Holds(t, o, a \o b)
    PROVE  Holds(t, o, a) /\ Holds(t, o + Len(a), b)
<1>1. PICK x : x = a \o b
  OBVIOUS
<1>2. x \in Seq(Nat) /\ Len(x) = Len(a) + Len(b) /\ Len(a) \in Nat /\ Len(b) \in Nat
  BY <1>1
<1>3. Holds(x, 0, a) /\ Holds(x, Len(a), b) /\ Holds(t, o, x)
  BY <1>1, JoinHolds
<1>4. Holds(t, o + 0, a)
  <2>1. 0 + Len(a) <= Len(x)
    BY <1>2
  <2> QED BY <1>2, <1>3, <2>1, HoldsInside
<1>5. Holds(t, o + Len(a), b)
  <2>1. Len(a) + Len(b) <= Len(x)
    BY <1>2
  <2> QED BY <1>2, <1>3, <2>1, HoldsInside
<1>6. o + 0 = o
  OBVIOUS
<1> QED BY <1>4, <1>5, <1>6

\* Reading a length, and a byte, that sits somewhere.
LEMMA HoldsNumber ==
    ASSUME NEW n \in Nat, NEW t, NEW o \in Nat, Holds(t, o, Number2(n))
    PROVE  UINT16(t, o) = n
<1>1. PICK x : x = Number2(n)
  OBVIOUS
<1>2. Len(x) = 2 /\ x[1] * Byte + x[2] = n
  BY <1>1, Numbers
<1>3. t[o + 1] = x[1] /\ t[o + 2] = x[2]
  BY <1>1, <1>2 DEF Holds
<1>4. (o + 1) + 1 = o + 2
  OBVIOUS
<1> QED BY <1>2, <1>3, <1>4 DEF UINT16, At

LEMMA HoldsOne ==
    ASSUME NEW n \in Nat, NEW t, NEW o \in Nat, Holds(t, o, <<n>>)
    PROVE  At(t, o) = n
<1>1. PICK x : x = <<n>>
  OBVIOUS
<1>2. Len(x) = 1 /\ x[1] = n
  BY <1>1
<1> QED BY <1>1, <1>2 DEF Holds, At

\* Sequences a hello is put together from.
LEMMA Fillers ==
    ASSUME NEW n \in Nat
    PROVE  Filler(n) \in Seq(Nat) /\ Len(Filler(n)) = n
BY DEF Filler

LEMMA One ==
    ASSUME NEW n \in Nat
    PROVE  <<n>> \in Seq(Nat) /\ Len(<<n>>) = 1
OBVIOUS

\* What is read where a name is.
LEMMA NameEntries ==
    ASSUME NEW n \in ServerNames
    PROVE  /\ NameEntry(n) \in Seq(Nat) /\ Len(NameEntry(n)) = 3 + Len(n.name)
           /\ \A t : \A o \in Nat : Holds(t, o, NameEntry(n)) =>
                 /\ At(t, o) = n.type /\ UINT16(t, o + 1) = Len(n.name)
                 /\ Holds(t, o + 3, n.name)
<1>1. PICK y : y = n.name
  OBVIOUS
<1>2. y \in Seq(Nat) /\ n.type \in Nat /\ Len(y) \in Nat
  BY <1>1 DEF ServerNames
<1>3. PICK a : a = <<n.type>>
  OBVIOUS
<1>4. PICK b : b = Number2(Len(y))
  OBVIOUS
<1>5. a \in Seq(Nat) /\ Len(a) = 1 /\ b \in Seq(Nat) /\ Len(b) = 2
  BY <1>2, <1>3, <1>4, One, Numbers
<1>6. PICK ab : ab = a \o b
  OBVIOUS
<1>7. ab \in Seq(Nat) /\ Len(ab) = 3
  <2>1. ab \in Seq(Nat) /\ Len(ab) = Len(a) + Len(b)
    BY <1>5, <1>6, Joined
  <2> QED BY <1>5, <2>1
<1>8. NameEntry(n) = ab \o y
  BY <1>1, <1>3, <1>4, <1>6 DEF NameEntry
<1>9. NameEntry(n) \in Seq(Nat) /\ Len(NameEntry(n)) = 3 + Len(n.name)
  <2>1. ab \o y \in Seq(Nat) /\ Len(ab \o y) = 3 + Len(y)
    <3>1. ab \o y \in Seq(Nat) /\ Len(ab \o y) = Len(ab) + Len(y)
      BY <1>2, <1>7, Joined
    <3> QED BY <1>7, <3>1
  <2> QED BY <1>1, <1>8, <2>1
<1>10. ASSUME NEW t, NEW o \in Nat, Holds(t, o, NameEntry(n))
       PROVE  /\ At(t, o) = n.type /\ UINT16(t, o + 1) = Len(n.name)
              /\ Holds(t, o + 3, n.name)
  <2>1. Holds(t, o, ab \o y)
    BY <1>8, <1>10
  <2>2. Holds(t, o, ab) /\ Holds(t, o + Len(ab), y)
    BY <1>2, <1>7, <2>1, HoldsJoined
  <2>3. Holds(t, o, a \o b)
    BY <1>6, <2>2
  <2>4. Holds(t, o, a) /\ Holds(t, o + Len(a), b)
    BY <1>5, <2>3, HoldsJoined
  <2>5. At(t, o) = n.type
    BY <1>2, <1>3, <2>4, HoldsOne
  <2>6. Holds(t, o + 1, Number2(Len(y))) /\ o + 1 \in Nat
    BY <1>4, <1>5, <2>4
  <2>7. UINT16(t, o + 1) = Len(y)
    BY <1>2, <2>6, HoldsNumber
  <2> QED BY <1>1, <1>7, <2>2, <2>5, <2>7
<1> QED BY <1>9, <1>10

\* Where the parts of a flattened sequence are, in a sequence that has it from
\* offset o on.
LEMMA PartsHeld ==
    ASSUME NEW s \in Seq(Seq(Nat)), NEW t, NEW o \in Nat, Holds(t, o, FlattenSeq(s))
    PROVE  \E Q \in [0 .. Len(s) -> Nat] :
              /\ Q[0] = o /\ Q[Len(s)] = o + Len(FlattenSeq(s))
              /\ \A i \in 0 .. Len(s) : Q[i] <= Q[Len(s)]
              /\ \A i \in 1 .. Len(s) :
                    Q[i] = Q[i - 1] + Len(s[i]) /\ Holds(t, Q[i - 1], s[i])
<1> DEFINE N == Len(s)
<1>1. PICK f : f = FlattenSeq(s)
  OBVIOUS
<1>2. f \in Seq(Nat) /\ \E P : Splits(s, f, P)
  BY <1>1, Flattened
<1>3. PICK P : Splits(s, f, P)
  BY <1>2
<1>4. /\ N \in Nat /\ Len(f) \in Nat
      /\ P \in [0 .. N -> Nat] /\ P[0] = 0 /\ P[N] = Len(f)
      /\ \A i \in 1 .. N : /\ P[i] = P[i - 1] + Len(s[i])
                           /\ Holds(f, P[i - 1], s[i])
      /\ \A i \in 1 .. N : s[i] \in Seq(Nat) /\ Len(s[i]) \in Nat
  <2>1. N \in Nat /\ \A i \in 1 .. N : s[i] \in Seq(Nat)
    BY Elements
  <2>2. \A i \in 1 .. N : Len(s[i]) \in Nat
    BY <2>1, Elements
  <2>3. Len(f) \in Nat
    BY <1>2
  <2> QED BY <1>3, <2>1, <2>2, <2>3 DEF Splits, Holds
<1>5. \A i, j \in 0 .. N : i <= j => P[i] <= P[j]
  BY <1>2, <1>3, PartsInOrder
<1> HIDE DEF N
<1> DEFINE Q == [i \in 0 .. N |-> o + P[i]]
<1>6. ASSUME NEW i \in 1 .. N
      PROVE  Q[i] = Q[i - 1] + Len(s[i]) /\ Holds(t, Q[i - 1], s[i])
  <2>1. i - 1 \in 0 .. N /\ i \in 0 .. N /\ N \in 0 .. N /\ i <= N
    BY <1>4
  <2>2. P[i] <= P[N] /\ P[i - 1] \in Nat /\ P[i] \in Nat
    BY <1>4, <1>5, <2>1
  <2>3. P[i] = P[i - 1] + Len(s[i]) /\ Holds(f, P[i - 1], s[i]) /\ s[i] \in Seq(Nat)
    BY <1>4
  <2>4. P[i - 1] + Len(s[i]) <= Len(f)
    BY <1>4, <2>2, <2>3
  <2>5. Holds(t, o, f)
    BY <1>1
  <2>6. Holds(t, o + P[i - 1], s[i])
    BY <1>2, <2>2, <2>3, <2>4, <2>5, HoldsInside
  <2>7. Q[i] = o + P[i] /\ Q[i - 1] = o + P[i - 1]
    BY <2>1
  <2>8. Len(s[i]) \in Nat
    BY <1>4
  <2> QED BY <2>2, <2>3, <2>6, <2>7, <2>8
<1>7. Q \in [0 .. N -> Nat] /\ Q[0] = o /\ Q[N] = o + Len(f)
  <2>1. 0 \in 0 .. N /\ N \in 0 .. N /\ \A i \in 0 .. N : P[i] \in Nat
    BY <1>4
  <2>2. \A i \in 0 .. N : o + P[i] \in Nat
    BY <2>1
  <2>3. Q \in [0 .. N -> Nat]
    BY <2>2
  <2>4. Q[0] = o + P[0] /\ Q[N] = o + P[N] /\ o + 0 = o
    BY <2>1
  <2> HIDE DEF Q
  <2> QED BY <1>4, <2>3, <2>4
<1>8. \A i \in 0 .. N : Q[i] <= Q[N]
  <2>1. \A i \in 0 .. N : Q[i] = o + P[i] /\ P[i] \in Nat /\ P[i] <= P[N]
    <3>1. N \in 0 .. N /\ \A i \in 0 .. N : i <= N
      BY <1>4
    <3> QED BY <1>4, <1>5, <3>1
  <2>2. N \in 0 .. N
    BY <1>4
  <2> HIDE DEF Q
  <2> QED BY <2>1, <2>2
<1> HIDE DEF Q
<1> QED BY <1>1, <1>6, <1>7, <1>8 DEF N

NameList(e) == FlattenSeq([i \in DOMAIN e.names |-> NameEntry(e.names[i])])

\* Where the names of an extension are, and what is read there.
LEMMA NameLists ==
    ASSUME NEW e \in HelloExtensions
    PROVE  /\ NameList(e) \in Seq(Nat)
           /\ \A t : \A o \in Nat : Holds(t, o, NameList(e)) =>
                 \E Q \in [0 .. Len(e.names) -> Nat] :
                    /\ Q[0] = o /\ Q[Len(e.names)] = o + Len(NameList(e))
                    /\ \A i \in 0 .. Len(e.names) : Q[i] <= Q[Len(e.names)]
                    /\ \A i \in 1 .. Len(e.names) :
                          /\ Q[i] = Q[i - 1] + 3 + Len(e.names[i].name)
                          /\ At(t, Q[i - 1]) = e.names[i].type
                          /\ UINT16(t, Q[i - 1] + 1) = Len(e.names[i].name)
                          /\ Holds(t, Q[i - 1] + 3, e.names[i].name)
<1>1. PICK s : s = [i \in DOMAIN e.names |-> NameEntry(e.names[i])]
  OBVIOUS
<1> DEFINE w == e.names
<1>3. w \in Seq(ServerNames)
  BY DEF HelloExtensions
<1>4. /\ Len(w) \in Nat /\ DOMAIN w = 1 .. Len(w)
      /\ \A i \in 1 .. Len(w) : w[i] \in ServerNames
  BY <1>3, Elements
<1> HIDE DEF w
<1>5. \A i \in 1 .. Len(w) : /\ NameEntry(w[i]) \in Seq(Nat)
                             /\ Len(NameEntry(w[i])) = 3 + Len(w[i].name)
  BY <1>4, NameEntries
<1>6. /\ s = [i \in 1 .. Len(w) |-> NameEntry(w[i])]
      /\ s \in Seq(Seq(Nat)) /\ Len(s) = Len(w)
      /\ \A i \in 1 .. Len(w) : s[i] = NameEntry(w[i])
  <2>1. s = [i \in 1 .. Len(w) |-> NameEntry(w[i])]
    BY <1>1, <1>4 DEF w
  <2>2. s \in [1 .. Len(w) -> Seq(Nat)]
    BY <1>5, <2>1
  <2> QED BY <1>4, <2>1, <2>2
<1>7. NameList(e) = FlattenSeq(s) /\ NameList(e) \in Seq(Nat)
  <2>1. NameList(e) = FlattenSeq(s)
    BY <1>1 DEF NameList
  <2>2. FlattenSeq(s) \in Seq(Nat)
    BY <1>6, Flattened
  <2> QED BY <2>1, <2>2
<1>8. ASSUME NEW t, NEW o \in Nat, Holds(t, o, NameList(e))
      PROVE  \E Q \in [0 .. Len(w) -> Nat] :
                /\ Q[0] = o /\ Q[Len(w)] = o + Len(NameList(e))
                /\ \A i \in 0 .. Len(w) : Q[i] <= Q[Len(w)]
                /\ \A i \in 1 .. Len(w) :
                      /\ Q[i] = Q[i - 1] + 3 + Len(w[i].name)
                      /\ At(t, Q[i - 1]) = w[i].type
                      /\ UINT16(t, Q[i - 1] + 1) = Len(w[i].name)
                      /\ Holds(t, Q[i - 1] + 3, w[i].name)
  <2>1. PICK Q \in [0 .. Len(s) -> Nat] :
              /\ Q[0] = o /\ Q[Len(s)] = o + Len(FlattenSeq(s))
              /\ \A i \in 0 .. Len(s) : Q[i] <= Q[Len(s)]
              /\ \A i \in 1 .. Len(s) :
                    Q[i] = Q[i - 1] + Len(s[i]) /\ Holds(t, Q[i - 1], s[i])
    <3>1. s \in Seq(Seq(Nat)) /\ Holds(t, o, FlattenSeq(s))
      BY <1>6, <1>7, <1>8
    <3> QED BY <3>1, PartsHeld, Zenon
  <2>2. ASSUME NEW i \in 1 .. Len(w)
        PROVE  /\ Q[i] = Q[i - 1] + 3 + Len(w[i].name)
               /\ At(t, Q[i - 1]) = w[i].type
               /\ UINT16(t, Q[i - 1] + 1) = Len(w[i].name)
               /\ Holds(t, Q[i - 1] + 3, w[i].name)
    <3>1. i - 1 \in 0 .. Len(s) /\ Q[i - 1] \in Nat
      <4>1. i - 1 \in 0 .. Len(s)
        BY <1>4, <1>6
      <4> QED BY <4>1
    <3>2. Q[i] = Q[i - 1] + Len(s[i]) /\ Holds(t, Q[i - 1], s[i])
      BY <1>6, <2>1
    <3>3. w[i] \in ServerNames /\ s[i] = NameEntry(w[i])
      BY <1>4, <1>6
    <3>4. w[i].name \in Seq(Nat) /\ Len(w[i].name) \in Nat
      <4>1. w[i].name \in Seq(Nat)
        BY <3>3 DEF ServerNames
      <4> QED BY <4>1
    <3>5. Len(s[i]) = 3 + Len(w[i].name)
      BY <1>5, <3>3
    <3>6. Q[i] = Q[i - 1] + 3 + Len(w[i].name)
      <4>1. \A p, n \in Nat : p + (3 + n) = p + 3 + n
        OBVIOUS
      <4>2. Q[i - 1] + (3 + Len(w[i].name)) = Q[i - 1] + 3 + Len(w[i].name)
        BY <3>1, <3>4, <4>1
      <4> QED BY <3>2, <3>5, <4>2
    <3>7. Holds(t, Q[i - 1], NameEntry(w[i]))
      BY <3>2, <3>3
    <3>8. /\ At(t, Q[i - 1]) = w[i].type
          /\ UINT16(t, Q[i - 1] + 1) = Len(w[i].name)
          /\ Holds(t, Q[i - 1] + 3, w[i].name)
      BY <3>1, <3>3, <3>7, NameEntries
    <3> QED BY <3>6, <3>8
  <2>3. /\ Q \in [0 .. Len(w) -> Nat] /\ Q[Len(w)] = o + Len(NameList(e))
        /\ \A i \in 0 .. Len(w) : Q[i] <= Q[Len(w)]
    BY <1>6, <1>7, <2>1
  <2> QED BY <2>1, <2>2, <2>3
<1> QED BY <1>7, <1>8 DEF w

\* What is read where an extension is.
LEMMA ExtensionTypes ==
    ASSUME NEW e \in HelloExtensions
    PROVE  /\ Extension(e) \in Seq(Nat)
           /\ \E d \in Nat :
                 /\ Len(Extension(e)) = 4 + d
                 /\ e.type = 0 => d = 2 + Len(NameList(e))
                 /\ \A t : \A o \in Nat : Holds(t, o, Extension(e)) =>
                       /\ UINT16(t, o) = e.type /\ UINT16(t, o + 2) = d
                       /\ e.type = 0 => /\ UINT16(t, o + 4) = Len(NameList(e))
                                        /\ Holds(t, o + 6, NameList(e))
<1>1. PICK l : l = NameList(e)
  OBVIOUS
<1>2. l \in Seq(Nat) /\ Len(l) \in Nat /\ e.type \in Nat /\ e.length \in Nat
  <2>1. l \in Seq(Nat)
    BY <1>1, NameLists
  <2> QED BY <2>1 DEF HelloExtensions
<1>3. PICK y : y = ExtensionData(e)
  OBVIOUS
<1>4. PICK z : z = Number2(Len(l))
  OBVIOUS
<1>5. z \in Seq(Nat) /\ Len(z) = 2
  BY <1>2, <1>4, Numbers
<1>6. y = IF e.type # 0 THEN Filler(e.length) ELSE z \o l
  BY <1>1, <1>3, <1>4 DEF ExtensionData, NameList
<1>7. /\ y \in Seq(Nat) /\ Len(y) \in Nat
      /\ e.type = 0 => y = z \o l /\ Len(y) = 2 + Len(l)
  <2>1. z \o l \in Seq(Nat) /\ Len(z \o l) = Len(z) + Len(l)
    BY <1>2, <1>5, Joined
  <2>2. Len(z \o l) = 2 + Len(l)
    BY <1>5, <2>1
  <2>3. y \in Seq(Nat)
    BY <1>2, <1>6, <2>1, Fillers
  <2> QED BY <1>6, <2>2, <2>3
<1>8. PICK a : a = Number2(e.type)
  OBVIOUS
<1>9. PICK b : b = Number2(Len(y))
  OBVIOUS
<1>10. a \in Seq(Nat) /\ Len(a) = 2 /\ b \in Seq(Nat) /\ Len(b) = 2
  BY <1>2, <1>7, <1>8, <1>9, Numbers
<1>11. PICK ab : ab = a \o b
  OBVIOUS
<1>12. ab \in Seq(Nat) /\ Len(ab) = 4
  <2>1. ab \in Seq(Nat) /\ Len(ab) = Len(a) + Len(b)
    BY <1>10, <1>11, Joined
  <2> QED BY <1>10, <2>1
<1>13. Extension(e) = ab \o y
  BY <1>3, <1>8, <1>9, <1>11 DEF Extension
<1>14. ab \o y \in Seq(Nat) /\ Len(ab \o y) = 4 + Len(y)
  <2>1. ab \o y \in Seq(Nat) /\ Len(ab \o y) = Len(ab) + Len(y)
    BY <1>7, <1>12, Joined
  <2> QED BY <1>12, <2>1
<1>15. ASSUME NEW t, NEW o \in Nat, Holds(t, o, ab \o y)
       PROVE  /\ UINT16(t, o) = e.type /\ UINT16(t, o + 2) = Len(y)
              /\ e.type = 0 => UINT16(t, o + 4) = Len(l) /\ Holds(t, o + 6, l)
  <2>1. Holds(t, o, ab) /\ Holds(t, o + Len(ab), y)
    BY <1>7, <1>12, <1>15, HoldsJoined
  <2>2. Holds(t, o, a \o b)
    BY <1>11, <2>1
  <2>3. Holds(t, o, a) /\ Holds(t, o + Len(a), b)
    BY <1>10, <2>2, HoldsJoined
  <2>4. UINT16(t, o) = e.type
    BY <1>2, <1>8, <2>3, HoldsNumber
  <2>5. Holds(t, o + 2, Number2(Len(y))) /\ o + 2 \in Nat
    BY <1>9, <1>10, <2>3
  <2>6. UINT16(t, o + 2) = Len(y)
    BY <1>7, <2>5, HoldsNumber
  <2>7. ASSUME e.type = 0 PROVE UINT16(t, o + 4) = Len(l) /\ Holds(t, o + 6, l)
    <3>1. Holds(t, o + 4, z \o l) /\ o + 4 \in Nat
      <4>1. o + 4 \in Nat /\ o + Len(ab) = o + 4 /\ y = z \o l
        BY <1>7, <1>12, <2>7
      <4>2. Holds(t, o + 4, y)
        BY <2>1, <4>1
      <4> QED BY <4>1, <4>2
    <3>2. Holds(t, o + 4, z) /\ Holds(t, (o + 4) + Len(z), l)
      BY <1>2, <1>5, <3>1, HoldsJoined
    <3>3. UINT16(t, o + 4) = Len(l)
      BY <1>2, <1>4, <3>1, <3>2, HoldsNumber
    <3>4. (o + 4) + Len(z) = o + 6
      BY <1>5
    <3> QED BY <3>2, <3>3, <3>4
  <2> QED BY <2>4, <2>6, <2>7
<1> QED BY <1>1, <1>7, <1>13, <1>14, <1>15

ExtensionList(h) ==
    FlattenSeq([i \in DOMAIN h.extensions |-> Extension(h.extensions[i])])

\* What a message has behind the compression methods, and where.
Ending(h) ==
    IF h.extensions = <<>> THEN <<>>
    ELSE Number2(Len(ExtensionList(h))) \o ExtensionList(h)

Behind(h) == 6 + RandomLength + h.session + h.ciphers + h.compressions

\* The extensions of a hello, one behind the other.
LEMMA ExtensionLists ==
    ASSUME NEW h, IsHello(h)
    PROVE  /\ h.extensions \in Seq(HelloExtensions)
           /\ \E s \in Seq(Seq(Nat)) :
                 /\ Len(s) = Len(h.extensions) /\ ExtensionList(h) = FlattenSeq(s)
                 /\ \A i \in 1 .. Len(s) : s[i] = Extension(h.extensions[i])
           /\ ExtensionList(h) \in Seq(Nat)
<1>1. PICK s : s = [i \in DOMAIN h.extensions |-> Extension(h.extensions[i])]
  OBVIOUS
<1>2. PICK w : w = h.extensions
  OBVIOUS
<1>3. w \in Seq(HelloExtensions)
  BY <1>2 DEF IsHello
<1>4. /\ Len(w) \in Nat /\ DOMAIN w = 1 .. Len(w)
      /\ \A i \in 1 .. Len(w) : w[i] \in HelloExtensions
  BY <1>3, Elements
<1>5. \A i \in 1 .. Len(w) : Extension(w[i]) \in Seq(Nat)
  BY <1>4, ExtensionTypes
<1>6. /\ s \in Seq(Seq(Nat)) /\ Len(s) = Len(w)
      /\ \A i \in 1 .. Len(s) : s[i] = Extension(w[i])
  <2>1. s = [i \in 1 .. Len(w) |-> Extension(w[i])]
    BY <1>1, <1>2, <1>4
  <2>2. s \in [1 .. Len(w) -> Seq(Nat)]
    BY <1>5, <2>1
  <2>3. s \in Seq(Seq(Nat)) /\ Len(s) = Len(w)
    BY <1>4, <2>2
  <2> QED BY <2>1, <2>3
<1>7. ExtensionList(h) = FlattenSeq(s)
  BY <1>1 DEF ExtensionList
<1>8. FlattenSeq(s) \in Seq(Nat)
  BY <1>6, Flattened
<1> QED BY <1>2, <1>3, <1>6, <1>7, <1>8

\* With the length in front of them, or nothing where there are none.
LEMMA Endings ==
    ASSUME NEW h, IsHello(h)
    PROVE  /\ Ending(h) \in Seq(Nat)
           /\ Len(Ending(h)) = IF h.extensions = <<>> THEN 0
                             ELSE 2 + Len(ExtensionList(h))
           /\ h.extensions # <<>> => \A t : \A o \in Nat :
                 Holds(t, o, Ending(h)) => Holds(t, o + 2, ExtensionList(h))
<1>1. PICK l : l = ExtensionList(h)
  OBVIOUS
<1>2. PICK z : z = Number2(Len(l))
  OBVIOUS
<1>3. l \in Seq(Nat) /\ Len(l) \in Nat
  <2>1. l \in Seq(Nat)
    BY <1>1, ExtensionLists
  <2> QED BY <2>1
<1>4. z \in Seq(Nat) /\ Len(z) = 2
  BY <1>2, <1>3, Numbers
<1>5. z \o l \in Seq(Nat) /\ Len(z \o l) = 2 + Len(l)
  <2>1. z \o l \in Seq(Nat) /\ Len(z \o l) = Len(z) + Len(l)
    BY <1>3, <1>4, Joined
  <2> QED BY <1>4, <2>1
<1>6. Ending(h) = IF h.extensions = <<>> THEN <<>> ELSE z \o l
  BY <1>1, <1>2 DEF Ending
<1>7. ASSUME NEW t, NEW o \in Nat, Holds(t, o, z \o l) PROVE Holds(t, o + 2, l)
  BY <1>3, <1>4, <1>7, HoldsJoined
<1>8. CASE h.extensions = <<>>
  <2>1. Ending(h) = <<>>
    BY <1>6, <1>8
  <2> QED BY <1>8, <2>1
<1>9. CASE h.extensions # <<>>
  <2>1. Ending(h) = z \o l
    BY <1>6, <1>9
  <2> QED BY <1>1, <1>5, <1>7, <1>9, <2>1
<1> QED BY <1>8, <1>9

\* The fields of variable length, each read where those in front of it end.
LEMMA MessageLaid ==
    ASSUME NEW h, IsHello(h)
    PROVE  /\ Message(h) \in Seq(Nat)
           /\ Len(Message(h)) = Behind(h) + Len(Ending(h))
           /\ \A t : \A o \in Nat : Holds(t, o, Message(h)) =>
                 /\ At(t, o + 2 + RandomLength) = h.session
                 /\ UINT16(t, o + 3 + RandomLength + h.session) = h.ciphers
                 /\ At(t, o + 5 + RandomLength + h.session + h.ciphers)
                      = h.compressions
                 /\ Holds(t, o + Behind(h), Ending(h))
<1> DEFINE s == h.session
           c == h.ciphers
           m == h.compressions
<1>1. s \in Nat /\ c \in Nat /\ m \in Nat /\ RandomLength \in Nat
  BY HelloAssumption DEF IsHello
<1>2. PICK u0 : u0 = <<3, 3>>
  OBVIOUS
<1>3. PICK u1 : u1 = Filler(RandomLength)
  OBVIOUS
<1>4. PICK u2 : u2 = <<s>>
  OBVIOUS
<1>5. PICK u3 : u3 = Filler(s)
  OBVIOUS
<1>6. PICK u4 : u4 = Number2(c)
  OBVIOUS
<1>7. PICK u5 : u5 = Filler(c)
  OBVIOUS
<1>8. PICK u6 : u6 = <<m>>
  OBVIOUS
<1>9. PICK u7 : u7 = Filler(m)
  OBVIOUS
<1>10. PICK u8 : u8 = Ending(h)
  OBVIOUS
<1>11. Message(h) = u0 \o u1 \o u2 \o u3 \o u4 \o u5 \o u6 \o u7 \o u8
  BY <1>2, <1>3, <1>4, <1>5, <1>6, <1>7, <1>8, <1>9, <1>10
     DEF Message, Ending, ExtensionList
<1>12. /\ u0 \in Seq(Nat) /\ Len(u0) = 2
       /\ u1 \in Seq(Nat) /\ Len(u1) = RandomLength
       /\ u2 \in Seq(Nat) /\ Len(u2) = 1
       /\ u3 \in Seq(Nat) /\ Len(u3) = s
       /\ u4 \in Seq(Nat) /\ Len(u4) = 2
       /\ u5 \in Seq(Nat) /\ Len(u5) = c
       /\ u6 \in Seq(Nat) /\ Len(u6) = 1
       /\ u7 \in Seq(Nat) /\ Len(u7) = m
       /\ u8 \in Seq(Nat) /\ Len(u8) \in Nat
  <2>1. u0 \in Seq(Nat) /\ Len(u0) = 2
    BY <1>2
  <2>2. u1 \in Seq(Nat) /\ Len(u1) = RandomLength
    BY <1>1, <1>3, Fillers
  <2>3. u2 \in Seq(Nat) /\ Len(u2) = 1
    BY <1>1, <1>4, One
  <2>4. u3 \in Seq(Nat) /\ Len(u3) = s
    BY <1>1, <1>5, Fillers
  <2>5. u4 \in Seq(Nat) /\ Len(u4) = 2
    BY <1>1, <1>6, Numbers
  <2>6. u5 \in Seq(Nat) /\ Len(u5) = c
    BY <1>1, <1>7, Fillers
  <2>7. u6 \in Seq(Nat) /\ Len(u6) = 1
    BY <1>1, <1>8, One
  <2>8. u7 \in Seq(Nat) /\ Len(u7) = m
    BY <1>1, <1>9, Fillers
  <2>9. u8 \in Seq(Nat)
    BY <1>10, Endings
  <2>10. Len(u8) \in Nat
    BY <2>9
  <2> QED BY <2>1, <2>2, <2>3, <2>4, <2>5, <2>6, <2>7, <2>8, <2>9, <2>10
<1> HIDE DEF s, c, m
<1>21. PICK m1 : m1 = u0 \o u1
  OBVIOUS
<1>22. PICK m2 : m2 = m1 \o u2
  OBVIOUS
<1>23. PICK m3 : m3 = m2 \o u3
  OBVIOUS
<1>24. PICK m4 : m4 = m3 \o u4
  OBVIOUS
<1>25. PICK m5 : m5 = m4 \o u5
  OBVIOUS
<1>26. PICK m6 : m6 = m5 \o u6
  OBVIOUS
<1>27. PICK m7 : m7 = m6 \o u7
  OBVIOUS
<1>28. Message(h) = m7 \o u8
  BY <1>11, <1>21, <1>22, <1>23, <1>24, <1>25, <1>26, <1>27
<1>31. m1 \in Seq(Nat) /\ Len(m1) = Len(u0) + Len(u1)
  BY <1>12, <1>21, Joined
<1>32. m2 \in Seq(Nat) /\ Len(m2) = Len(m1) + Len(u2)
  BY <1>12, <1>22, <1>31, Joined
<1>33. m3 \in Seq(Nat) /\ Len(m3) = Len(m2) + Len(u3)
  BY <1>12, <1>23, <1>32, Joined
<1>34. m4 \in Seq(Nat) /\ Len(m4) = Len(m3) + Len(u4)
  BY <1>12, <1>24, <1>33, Joined
<1>35. m5 \in Seq(Nat) /\ Len(m5) = Len(m4) + Len(u5)
  BY <1>12, <1>25, <1>34, Joined
<1>36. m6 \in Seq(Nat) /\ Len(m6) = Len(m5) + Len(u6)
  BY <1>12, <1>26, <1>35, Joined
<1>37. m7 \in Seq(Nat) /\ Len(m7) = Len(m6) + Len(u7)
  BY <1>12, <1>27, <1>36, Joined
<1>38. m7 \o u8 \in Seq(Nat) /\ Len(m7 \o u8) = Len(m7) + Len(u8)
  BY <1>12, <1>37, Joined
<1>40. /\ Len(m1) = 2 + RandomLength
       /\ Len(m2) = 3 + RandomLength
       /\ Len(m3) = 3 + RandomLength + s
       /\ Len(m4) = 5 + RandomLength + s
       /\ Len(m5) = 5 + RandomLength + s + c
       /\ Len(m6) = 6 + RandomLength + s + c
       /\ Len(m7) = 6 + RandomLength + s + c + m
  BY <1>1, <1>12, <1>31, <1>32, <1>33, <1>34, <1>35, <1>36, <1>37
<1>41. Behind(h) = Len(m7)
  BY <1>40 DEF Behind, s, c, m
<1>42. ASSUME NEW t, NEW o \in Nat, Holds(t, o, m7 \o u8)
       PROVE  /\ At(t, o + 2 + RandomLength) = s
              /\ UINT16(t, o + 3 + RandomLength + s) = c
              /\ At(t, o + 5 + RandomLength + s + c) = m
              /\ Holds(t, o + Len(m7), u8)
  <2>1. Holds(t, o, m7) /\ Holds(t, o + Len(m7), u8)
    BY <1>12, <1>37, <1>42, HoldsJoined
  <2>2. Holds(t, o, m6)
    BY <1>12, <1>27, <1>36, <2>1, HoldsJoined
  <2>3. Holds(t, o, m5) /\ Holds(t, o + Len(m5), u6)
    BY <1>12, <1>26, <1>35, <2>2, HoldsJoined
  <2>4. Holds(t, o, m4)
    BY <1>12, <1>25, <1>34, <2>3, HoldsJoined
  <2>5. Holds(t, o, m3) /\ Holds(t, o + Len(m3), u4)
    BY <1>12, <1>24, <1>33, <2>4, HoldsJoined
  <2>6. Holds(t, o, m2)
    BY <1>12, <1>23, <1>32, <2>5, HoldsJoined
  <2>7. Holds(t, o, m1) /\ Holds(t, o + Len(m1), u2)
    BY <1>12, <1>22, <1>31, <2>6, HoldsJoined
  <2>8. /\ o + Len(m1) = o + 2 + RandomLength
        /\ o + Len(m3) = o + 3 + RandomLength + s
        /\ o + Len(m5) = o + 5 + RandomLength + s + c
        /\ o + Len(m1) \in Nat /\ o + Len(m3) \in Nat /\ o + Len(m5) \in Nat
    BY <1>1, <1>40
  <2>9. At(t, o + Len(m1)) = s
    BY <1>1, <1>4, <2>7, <2>8, HoldsOne
  <2>10. UINT16(t, o + Len(m3)) = c
    BY <1>1, <1>6, <2>5, <2>8, HoldsNumber
  <2>11. At(t, o + Len(m5)) = m
    BY <1>1, <1>8, <2>3, <2>8, HoldsOne
  <2> QED BY <2>1, <2>8, <2>9, <2>10, <2>11
<1> QED BY <1>10, <1>28, <1>38, <1>41, <1>42 DEF s, c, m

\* The record around the message: its length, and the end of the hello.
LEMMA HelloLaid ==
    ASSUME NEW h, IsHello(h)
    PROVE  /\ Encoded(h) \in Seq(Nat)
           /\ Len(Encoded(h)) = 9 + Len(Message(h))
           /\ At(Encoded(h), 0) = 22 /\ At(Encoded(h), 5) = 1
           /\ UINT16(Encoded(h), 3) = 4 + Len(Message(h))
           /\ BufEnd(Encoded(h)) = Len(Encoded(h))
           /\ Holds(Encoded(h), 9, Message(h))
<1>1. PICK y : y = Message(h)
  OBVIOUS
<1>2. y \in Seq(Nat) /\ Len(y) \in Nat
  <2>1. y \in Seq(Nat)
    BY <1>1, MessageLaid
  <2> QED BY <2>1
<1>3. PICK u : u = <<1>>
  OBVIOUS
<1>4. PICK v : v = Number3(Len(y))
  OBVIOUS
<1>5. /\ u \in Seq(Nat) /\ Len(u) = 1 /\ u[1] = 1
      /\ v \in Seq(Nat) /\ Len(v) = 3
      /\ v[1] * Byte * Byte + (v[2] * Byte + v[3]) = Len(y)
  <2>1. u \in Seq(Nat) /\ Len(u) = 1 /\ u[1] = 1
    BY <1>3
  <2> QED BY <1>2, <1>4, <2>1, Numbers3
<1>6. PICK uv : uv = u \o v
  OBVIOUS
<1>7. uv \in Seq(Nat) /\ Len(uv) = 4
  <2>1. uv \in Seq(Nat) /\ Len(uv) = Len(u) + Len(v)
    BY <1>5, <1>6, Joined
  <2> QED BY <1>5, <2>1
<1>8. PICK z : z = uv \o y
  OBVIOUS
<1>9. z \in Seq(Nat) /\ Len(z) = 4 + Len(y) /\ Len(z) \in Nat
  <2>1. z \in Seq(Nat) /\ Len(z) = Len(uv) + Len(y)
    BY <1>2, <1>7, <1>8, Joined
  <2> QED BY <1>2, <1>7, <2>1
<1>10. PICK a : a = <<22, 3, 3>>
  OBVIOUS
<1>11. PICK b : b = Number2(Len(z))
  OBVIOUS
<1>12. /\ a \in Seq(Nat) /\ Len(a) = 3 /\ a[1] = 22
       /\ b \in Seq(Nat) /\ Len(b) = 2
  <2>1. a \in Seq(Nat) /\ Len(a) = 3 /\ a[1] = 22
    BY <1>10
  <2> QED BY <1>9, <1>11, <2>1, Numbers
<1>13. PICK ab : ab = a \o b
  OBVIOUS
<1>14. ab \in Seq(Nat) /\ Len(ab) = 5
  <2>1. ab \in Seq(Nat) /\ Len(ab) = Len(a) + Len(b)
    BY <1>12, <1>13, Joined
  <2> QED BY <1>12, <2>1
<1>15. PICK t : t = ab \o z
  OBVIOUS
<1>16. t \in Seq(Nat) /\ Len(t) = 9 + Len(y)
  <2>1. t \in Seq(Nat) /\ Len(t) = Len(ab) + Len(z)
    BY <1>9, <1>14, <1>15, Joined
  <2> QED BY <1>2, <1>9, <1>14, <2>1
<1>17. Encoded(h) = t
  BY <1>1, <1>3, <1>4, <1>6, <1>8, <1>10, <1>11, <1>13, <1>15 DEF Encoded
<1>18. Holds(t, 0, ab) /\ Holds(t, 5, z)
  BY <1>9, <1>14, <1>15, JoinHolds
<1>19. Holds(t, 0, a) /\ Holds(t, 3, b)
  <2>1. Holds(t, 0, a) /\ Holds(t, 0 + Len(a), b)
    BY <1>12, <1>13, <1>18, HoldsJoined
  <2> QED BY <1>12, <2>1
<1>20. Holds(t, 5, uv) /\ Holds(t, 9, y)
  <2>1. Holds(t, 5, uv) /\ Holds(t, 5 + Len(uv), y)
    BY <1>2, <1>7, <1>8, <1>18, HoldsJoined
  <2>2. 5 + Len(uv) = 9
    BY <1>7
  <2> QED BY <2>1, <2>2
<1>21. Holds(t, 5, u) /\ Holds(t, 6, v)
  <2>1. Holds(t, 5, u) /\ Holds(t, 5 + Len(u), v)
    BY <1>5, <1>6, <1>20, HoldsJoined
  <2>2. 5 + Len(u) = 6
    BY <1>5
  <2> QED BY <2>1, <2>2
<1>22. At(t, 0) = 22
  <2>1. t[0 + 1] = a[1]
    BY <1>12, <1>19 DEF Holds
  <2> QED BY <1>12, <2>1 DEF At
<1>23. At(t, 5) = 1
  <2>1. t[5 + 1] = u[1]
    BY <1>5, <1>21 DEF Holds
  <2> QED BY <1>5, <2>1 DEF At
<1>24. UINT16(t, 3) = 4 + Len(y)
  BY <1>9, <1>11, <1>19, HoldsNumber
<1>25. BufEnd(t) = Len(t)
  <2>1. t[7] = v[1] /\ t[8] = v[2] /\ t[9] = v[3]
    <3>1. t[6 + 1] = v[1] /\ t[6 + 2] = v[2] /\ t[6 + 3] = v[3]
      BY <1>5, <1>21 DEF Holds
    <3> QED BY <3>1
  <2>2. At(t, 6) = v[1] /\ UINT16(t, 7) = v[2] * Byte + v[3]
    BY <2>1 DEF At, UINT16
  <2>3. PICK p : p = v[1] * Byte * Byte
    OBVIOUS
  <2>4. PICK q : q = v[2] * Byte + v[3]
    OBVIOUS
  <2>5. v[1] \in Nat /\ v[2] \in Nat /\ v[3] \in Nat /\ Byte \in Nat
    <3>1. \A i \in 1 .. 3 : v[i] \in Nat
      BY <1>5, Elements
    <3> QED BY <3>1, HelloAssumption
  <2>6. p \in Nat /\ q \in Nat
    BY <2>3, <2>4, <2>5
  <2>7. BufEnd(t) = 5 + 4 + p + q /\ p + q = Len(y)
    BY <1>5, <2>2, <2>3, <2>4 DEF BufEnd
  <2>8. 5 + 4 + p + q = 9 + (p + q)
    BY <2>6
  <2> QED BY <1>16, <2>7, <2>8
<1> QED BY <1>1, <1>16, <1>17, <1>20, <1>22, <1>23, <1>24, <1>25

-----------------------------------------------------------------------------
(* The walk of GetSNI through the names.                                    *)

\* A hello can be decoded when its last byte has come, and not before.
LEMMA WholeHello ==
    ASSUME NEW h, IsHello(h), NEW n \in 1 .. Len(Encoded(h))
    PROVE  /\ CanDecode(SubSeq(Encoded(h), 1, n)) <=> n = Len(Encoded(h))
           /\ n = Len(Encoded(h)) => SubSeq(Encoded(h), 1, n) = Encoded(h)
<1>1. PICK t : t = Encoded(h)
  OBVIOUS
<1>2. PICK L : L = Len(Message(h))
  OBVIOUS
<1>3. /\ t \in Seq(Nat) /\ L \in Nat /\ Len(t) = 9 + L
      /\ At(t, 0) = 22 /\ At(t, 5) = 1 /\ UINT16(t, 3) = 4 + L
  <2>1. Message(h) \in Seq(Nat)
    BY MessageLaid
  <2>2. L \in Nat
    BY <1>2, <2>1
  <2> QED BY <1>1, <1>2, <2>2, HelloLaid
<1>4. n \in 1 .. Len(t) /\ n \in Nat
  BY <1>1, <1>3
<1>5. PICK r : r = SubSeq(t, 1, n)
  OBVIOUS
<1>6. Len(r) = n /\ \A k \in 1 .. n : r[k] = t[k]
  BY <1>3, <1>4, <1>5
<1>7. n = Len(t) => r = t
  BY <1>3, <1>5
<1>8. ASSUME n >= 5 PROVE UINT16(r, 3) = 4 + L
  <2>1. r[4] = t[4] /\ r[5] = t[5]
    BY <1>4, <1>6, <1>8
  <2> QED BY <1>3, <2>1 DEF UINT16, At
<1>9. CanDecode(r) => n = Len(t)
  <2> SUFFICES ASSUME CanDecode(r) PROVE n = Len(t)
    OBVIOUS
  <2>1. n >= 5 /\ UINT16(r, 3) + 5 <= n
    BY <1>6 DEF CanDecode
  <2>2. 4 + L + 5 <= n
    BY <1>8, <2>1
  <2> QED BY <1>3, <1>4, <2>2
<1>10. CanDecode(t)
  BY <1>3 DEF CanDecode
<1> QED BY <1>1, <1>5, <1>7, <1>9, <1>10

\* The table of rounds has the first in it and is closed under Round.
LEMMA RoundsAre ==
    ASSUME NEW buf \in Seq(Nat)
    PROVE  /\ Rounds(buf)[0] = [p |-> Extensions(buf) + 2, end |-> 0]
           /\ \A k \in 1 .. Len(buf) : Rounds(buf)[k] = Round(buf, Rounds(buf)[k - 1])
<1> DEFINE N == Len(buf)
           a0 == [p |-> Extensions(buf) + 2, end |-> 0]
           Is(f, m) == f = [k \in 0 .. m |-> IF k = 0 THEN a0 ELSE Round(buf, f[k - 1])]
           F == CHOOSE f : Is(f, N)
<1>1. N \in Nat
  OBVIOUS
<1>2. Rounds(buf) = F
  BY Zenon DEF Rounds
<1> HIDE DEF N, a0
<1>3. \A m \in 0 .. N : \E f : Is(f, m)
  <2> DEFINE B == {m \in 0 .. N : ~ \E f : Is(f, m)}
  <2>1. SUFFICES ASSUME B # {} PROVE FALSE
    OBVIOUS
  <2>2. B \subseteq Nat
    <3>1. \A k \in 0 .. N : k \in Nat
      BY <1>1
    <3> QED BY <3>1, Zenon
  <2>3. PICK m \in B : \A k \in B : m <= k
    <3> HIDE DEF B
    <3> QED BY <2>1, <2>2, LeastNumber
  <2>4. m \in 0 .. N /\ ~ \E f : Is(f, m)
    OBVIOUS
  <2>5. CASE m = 0
    <3> DEFINE g == [i \in 0 .. 0 |-> a0]
    <3>1. Is(g, 0)
      OBVIOUS
    <3> HIDE DEF Is
    <3> QED BY <2>4, <2>5, <3>1
  <2>6. CASE m # 0
    <3>1. m - 1 \in 0 .. N /\ ~ (m <= m - 1)
      BY <1>1, <2>4, <2>6
    <3>2. PICK f : Is(f, m - 1)
      BY <2>3, <3>1
    <3> DEFINE g == [i \in 0 .. m |-> IF i = m THEN Round(buf, f[m - 1]) ELSE f[i]]
    <3>5. ASSUME NEW i \in 0 .. m
          PROVE  g[i] = IF i = 0 THEN a0 ELSE Round(buf, g[i - 1])
      <4>1. CASE i = m
        <5>1. m \in 0 .. m /\ m - 1 \in 0 .. m /\ m - 1 # m
          BY <1>1, <2>4, <3>1
        <5>2. g[m] = Round(buf, f[m - 1]) /\ g[m - 1] = f[m - 1]
          BY <5>1
        <5> HIDE DEF g
        <5> QED BY <2>6, <4>1, <5>2
      <4>2. CASE i # m
        <5>1. i \in 0 .. m - 1 /\ (i # 0 => i - 1 \in 0 .. m /\ i - 1 # m)
          BY <1>1, <2>4, <4>2
        <5>2. g[i] = f[i] /\ (i # 0 => g[i - 1] = f[i - 1])
          BY <4>2, <5>1
        <5>3. f[i] = IF i = 0 THEN a0 ELSE Round(buf, f[i - 1])
          BY <3>2, <5>1
        <5> HIDE DEF g
        <5> QED BY <5>2, <5>3
      <4> QED BY <4>1, <4>2
    <3>6. Is(g, m)
      <4>1. g = [i \in 0 .. m |-> g[i]]
        OBVIOUS
      <4> HIDE DEF g
      <4> QED BY <3>5, <4>1
    <3> HIDE DEF g, Is
    <3> QED BY <2>4, <3>6
  <2> QED BY <2>5, <2>6
<1>4. Is(F, N)
  <2>1. \E f : Is(f, N)
    <3>1. N \in 0 .. N
      BY <1>1
    <3> HIDE DEF Is
    <3> QED BY <1>3, <3>1
  <2> HIDE DEF Is
  <2> QED BY <2>1
<1> HIDE DEF F
<1>5. \A k \in 0 .. N : F[k] = IF k = 0 THEN a0 ELSE Round(buf, F[k - 1])
  BY <1>4
<1>6. F[0] = a0 /\ \A k \in 1 .. N : F[k] = Round(buf, F[k - 1])
  <2>1. 0 \in 0 .. N /\ \A k \in 1 .. N : k \in 0 .. N /\ k # 0
    BY <1>1
  <2> QED BY <1>5, <2>1
<1> QED BY <1>2, <1>6 DEF a0, N

\* Once a round changes nothing no later one does.
LEMMA RoundsStay ==
    ASSUME NEW buf \in Seq(Nat), NEW k \in 0 .. Len(buf),
           Round(buf, Rounds(buf)[k]) = Rounds(buf)[k]
    PROVE  Rounds(buf)[Len(buf)] = Rounds(buf)[k]
<1> DEFINE N == Len(buf)
           B == {m \in k .. N : Rounds(buf)[m] # Rounds(buf)[k]}
<1>1. N \in Nat
  OBVIOUS
<1>2. SUFFICES ASSUME B # {} PROVE FALSE
  <2>1. N \in k .. N
    BY <1>1
  <2> QED BY <2>1
<1>3. B \subseteq Nat
  BY <1>1
<1>4. PICK m \in B : \A j \in B : m <= j
  <2> HIDE DEF B
  <2> QED BY <1>2, <1>3, LeastNumber
<1>5. m \in k .. N /\ m # k /\ Rounds(buf)[m] # Rounds(buf)[k]
  OBVIOUS
<1>6. m - 1 \in k .. N /\ m \in 1 .. N /\ ~ (m <= m - 1)
  BY <1>1, <1>5
<1>7. Rounds(buf)[m - 1] = Rounds(buf)[k]
  BY <1>4, <1>6
<1>8. Rounds(buf)[m] = Round(buf, Rounds(buf)[m - 1])
  BY <1>6, RoundsAre
<1> QED BY <1>5, <1>7, <1>8

\* Some round has come to an extension at a, or to a name at a of a list that
\* ends at e.
ReachesExtension(buf, a) ==
    \E k \in 0 .. a : Rounds(buf)[k].p = a /\ Rounds(buf)[k].end \in 0 .. a

ReachesName(buf, a, e) == \E k \in 0 .. a : Rounds(buf)[k] = [p |-> a, end |-> e]

\* The walk begins at the first extension.
LEMMA ReachesFirst ==
    ASSUME NEW buf \in Seq(Nat), NEW a \in Nat, a = Extensions(buf) + 2
    PROVE  ReachesExtension(buf, a)
<1>1. Rounds(buf)[0] = [p |-> a, end |-> 0]
  BY RoundsAre
<1>2. 0 \in 0 .. a
  OBVIOUS
<1> QED BY <1>1, <1>2 DEF ReachesExtension

\* A name that is not a host's is passed.
LEMMA PassesName ==
    ASSUME NEW buf \in Seq(Nat), NEW a \in Nat, NEW e \in Nat, NEW n \in Nat,
           ReachesName(buf, a, e), a < e, e <= Len(buf),
           At(buf, a) # 0, UINT16(buf, a + 1) = n
    PROVE  ReachesName(buf, a + 3 + n, e)
<1>1. PICK k \in 0 .. a : Rounds(buf)[k] = [p |-> a, end |-> e]
  BY DEF ReachesName
<1>2. Len(buf) \in Nat
  OBVIOUS
<1>3. k + 1 \in 1 .. Len(buf) /\ (k + 1) - 1 = k /\ k + 1 \in 0 .. a + 3 + n
  BY <1>2
<1>4. Rounds(buf)[k + 1] = Round(buf, Rounds(buf)[k])
  BY <1>3, RoundsAre
<1>5. Round(buf, [p |-> a, end |-> e]) = [p |-> a + 3 + n, end |-> e]
  BY DEF Round
<1> QED BY <1>1, <1>3, <1>4, <1>5 DEF ReachesName

\* An extension with names is entered, another passed.
LEMMA EntersList ==
    ASSUME NEW buf \in Seq(Nat), NEW a \in Nat, NEW n \in Nat,
           ReachesExtension(buf, a), a < Len(buf), BufEnd(buf) = Len(buf),
           UINT16(buf, a) = 0, UINT16(buf, a + 4) = n
    PROVE  ReachesName(buf, a + 6, a + 6 + n)
<1>1. PICK k \in 0 .. a : Rounds(buf)[k].p = a /\ Rounds(buf)[k].end \in 0 .. a
  BY DEF ReachesExtension
<1>2. Len(buf) \in Nat
  OBVIOUS
<1>3. k + 1 \in 1 .. Len(buf) /\ (k + 1) - 1 = k /\ k + 1 \in 0 .. a + 6
  BY <1>2
<1>4. Rounds(buf)[k + 1] = Round(buf, Rounds(buf)[k])
  BY <1>3, RoundsAre
<1>5. ~ (Rounds(buf)[k].p < Rounds(buf)[k].end) /\ ~ (a >= BufEnd(buf))
  BY <1>1, <1>2
<1>6. Round(buf, Rounds(buf)[k]) = [p |-> a + 6, end |-> a + 6 + n]
  BY <1>1, <1>5 DEF Round
<1> QED BY <1>3, <1>4, <1>6 DEF ReachesName

LEMMA PassesExtension ==
    ASSUME NEW buf \in Seq(Nat), NEW a \in Nat, NEW n \in Nat,
           ReachesExtension(buf, a), a < Len(buf), BufEnd(buf) = Len(buf),
           UINT16(buf, a) # 0, UINT16(buf, a + 2) = n
    PROVE  ReachesExtension(buf, a + 4 + n)
<1>1. PICK k \in 0 .. a : Rounds(buf)[k].p = a /\ Rounds(buf)[k].end \in 0 .. a
  BY DEF ReachesExtension
<1>2. Len(buf) \in Nat
  OBVIOUS
<1>3. /\ k + 1 \in 1 .. Len(buf) /\ (k + 1) - 1 = k /\ k + 1 \in 0 .. a + 4 + n
      /\ 0 \in 0 .. a + 4 + n
  BY <1>2
<1>4. Rounds(buf)[k + 1] = Round(buf, Rounds(buf)[k])
  BY <1>3, RoundsAre
<1>5. ~ (Rounds(buf)[k].p < Rounds(buf)[k].end) /\ ~ (a >= BufEnd(buf))
  BY <1>1, <1>2
<1>6. Round(buf, Rounds(buf)[k]) = [p |-> a + 4 + n, end |-> 0]
  BY <1>1, <1>5 DEF Round
<1>7. /\ Rounds(buf)[k + 1].p = a + 4 + n
      /\ Rounds(buf)[k + 1].end \in 0 .. a + 4 + n
  BY <1>3, <1>4, <1>6
<1> QED BY <1>3, <1>7 DEF ReachesExtension

\* At the end of the hello the walk stays, without a name, and at a host's
\* name with that.
LEMMA EndsWithNone ==
    ASSUME NEW buf \in Seq(Nat), NEW a \in Nat, NEW k \in 0 .. Len(buf),
           Rounds(buf)[k].p = a, Rounds(buf)[k].end \in 0 .. a, a >= BufEnd(buf)
    PROVE  NameFrom(buf) = NoName
<1>1. ~ (Rounds(buf)[k].p < Rounds(buf)[k].end)
  OBVIOUS
<1>2. Round(buf, Rounds(buf)[k]) = Rounds(buf)[k]
  BY <1>1 DEF Round
<1>3. Rounds(buf)[Len(buf)] = Rounds(buf)[k]
  BY <1>2, RoundsStay
<1> QED BY <1>1, <1>3 DEF NameFrom

LEMMA EndsWithName ==
    ASSUME NEW buf \in Seq(Nat), NEW a \in Nat, NEW e \in Nat, NEW name \in Seq(Nat),
           ReachesName(buf, a, e), a < e, e <= Len(buf), a + 3 + Len(name) <= Len(buf),
           At(buf, a) = 0, UINT16(buf, a + 1) = Len(name), Holds(buf, a + 3, name)
    PROVE  NameFrom(buf) = name
<1>1. PICK k \in 0 .. a : Rounds(buf)[k] = [p |-> a, end |-> e]
  BY DEF ReachesName
<1>2. Len(buf) \in Nat /\ Len(name) \in Nat /\ k \in 0 .. Len(buf)
  <2>1. Len(buf) \in Nat /\ Len(name) \in Nat
    OBVIOUS
  <2> QED BY <2>1
<1>3. Round(buf, Rounds(buf)[k]) = Rounds(buf)[k]
  BY <1>1 DEF Round
<1>4. Rounds(buf)[Len(buf)] = [p |-> a, end |-> e]
  BY <1>1, <1>2, <1>3, RoundsStay
<1>5. NameFrom(buf) = SubSeq(buf, a + 4, a + 3 + Len(name))
  <2>1. Rounds(buf)[Len(buf)].p = a /\ Rounds(buf)[Len(buf)].end = e
    BY <1>4
  <2> QED BY <2>1 DEF NameFrom
<1>6. PICK r : r = SubSeq(buf, a + 4, a + 3 + Len(name))
  OBVIOUS
<1>7. /\ r \in Seq(Nat) /\ Len(r) = Len(name)
      /\ \A i \in 1 .. Len(name) : r[i] = buf[(a + 3) + i]
  <2>1. PICK m : m = Len(name)
    OBVIOUS
  <2>2. /\ m \in Nat /\ a + 4 \in 1 .. Len(buf) + 1 /\ a + 3 + m \in 0 .. Len(buf)
        /\ (a + 3 + m) - (a + 4) + 1 = m
    BY <1>2, <2>1
  <2>3. /\ r \in Seq(Nat) /\ Len(r) = m
        /\ \A i \in 1 .. m : r[i] = buf[(a + 4) + i - 1]
    <3>1. PICK b : b = a + 4
      OBVIOUS
    <3>2. PICK d : d = a + 3 + m
      OBVIOUS
    <3>3. /\ b \in 1 .. Len(buf) + 1 /\ d \in 0 .. Len(buf) /\ d - b + 1 = m
          /\ b \in Nat /\ d \in Nat /\ r = SubSeq(buf, b, d)
      BY <1>6, <2>1, <2>2, <3>1, <3>2
    <3>4. /\ r \in Seq(Nat) /\ Len(r) = IF b <= d THEN d - b + 1 ELSE 0
          /\ \A i \in 1 .. d - b + 1 : r[i] = buf[b + i - 1]
      <4>1. /\ SubSeq(buf, b, d) \in Seq(Nat)
            /\ Len(SubSeq(buf, b, d)) = IF b <= d THEN d - b + 1 ELSE 0
            /\ \A i \in 1 .. d - b + 1 : SubSeq(buf, b, d)[i] = buf[b + i - 1]
        <5>1. b \in 1 .. Len(buf) + 1 /\ d \in 0 .. Len(buf)
          BY <3>3
        <5>2. \A x \in 1 .. Len(buf) + 1, y \in 0 .. Len(buf) :
                 /\ SubSeq(buf, x, y) \in Seq(Nat)
                 /\ Len(SubSeq(buf, x, y)) = IF x <= y THEN y - x + 1 ELSE 0
                 /\ \A i \in 1 .. y - x + 1 : SubSeq(buf, x, y)[i] = buf[x + i - 1]
          BY Part
        <5> QED BY <5>1, <5>2
      <4> QED BY <3>3, <4>1
    <3>5. \A x, y, z \in Nat : (y - x + 1 = z) => (IF x <= y THEN y - x + 1 ELSE 0) = z
      OBVIOUS
    <3>6. Len(r) = m
      BY <2>2, <3>3, <3>4, <3>5
    <3> QED BY <3>1, <3>3, <3>4, <3>6
  <2>4. \A i \in 1 .. m : (a + 4) + i - 1 = (a + 3) + i
    BY <2>2
  <2> QED BY <2>1, <2>3, <2>4
<1>8. \A i \in 1 .. Len(name) : r[i] = name[i]
  BY <1>7 DEF Holds
<1>9. r = name
  BY <1>7, <1>8, SeqEqual
<1> QED BY <1>5, <1>6, <1>9

\* Where the extensions of a hello are.
LEMMA ExtensionsLaid ==
    ASSUME NEW h, IsHello(h)
    PROVE  /\ Extensions(Encoded(h)) \in Nat
           /\ h.extensions = <<>> =>
                 Len(Encoded(h)) = Extensions(Encoded(h))
           /\ h.extensions # <<>> =>
                 \E A \in [0 .. Len(h.extensions) -> Nat] :
                    /\ A[0] = Extensions(Encoded(h)) + 2
                    /\ A[Len(h.extensions)] = Len(Encoded(h))
                    /\ \A i \in 0 .. Len(h.extensions) : A[i] <= Len(Encoded(h))
                    /\ \A i \in 1 .. Len(h.extensions) :
                          /\ A[i] = A[i - 1] + Len(Extension(h.extensions[i]))
                          /\ Holds(Encoded(h), A[i - 1], Extension(h.extensions[i]))
<1> DEFINE s == h.session
           c == h.ciphers
           m == h.compressions
<1>1. s \in Nat /\ c \in Nat /\ m \in Nat /\ RandomLength \in Nat
  BY HelloAssumption DEF IsHello
<1>2. PICK t : t = Encoded(h)
  OBVIOUS
<1>3. Holds(t, 9, Message(h)) /\ Len(t) = 9 + Len(Message(h))
  BY <1>2, HelloLaid
<1>4. /\ At(t, 9 + 2 + RandomLength) = s
      /\ UINT16(t, 9 + 3 + RandomLength + s) = c
      /\ At(t, 9 + 5 + RandomLength + s + c) = m
      /\ Holds(t, 9 + Behind(h), Ending(h))
  BY <1>3, MessageLaid
<1>5. Behind(h) = 6 + RandomLength + s + c + m
  BY DEF Behind
<1> HIDE DEF s, c, m
<1>6. Extensions(t) = 9 + Behind(h) /\ Extensions(t) \in Nat
  <2>1. PICK p : p = 9 + 2 + RandomLength
    OBVIOUS
  <2>2. PICK q : q = p + 1 + s
    OBVIOUS
  <2>3. PICK r : r = q + 2 + c
    OBVIOUS
  <2>4. /\ 9 + 3 + RandomLength + s = q /\ 9 + 5 + RandomLength + s + c = r
        /\ r + 1 + m = 9 + (6 + RandomLength + s + c + m) /\ r + 1 + m \in Nat
    BY <1>1, <2>1, <2>2, <2>3
  <2>5. At(t, p) = s /\ UINT16(t, q) = c /\ At(t, r) = m
    BY <1>4, <2>1, <2>4
  <2>6. Extensions(t) = r + 1 + m
    BY <2>1, <2>2, <2>3, <2>5 DEF Extensions
  <2> QED BY <1>5, <2>4, <2>6
<1>7. Len(t) = Extensions(t) + Len(Ending(h))
  <2>1. Len(Message(h)) = Behind(h) + Len(Ending(h))
    BY MessageLaid
  <2>2. Len(Ending(h)) \in Nat /\ Behind(h) \in Nat
    <3>1. Ending(h) \in Seq(Nat)
      BY Endings
    <3> QED BY <1>1, <1>5, <3>1
  <2> QED BY <1>3, <1>6, <2>1, <2>2
<1>8. ASSUME h.extensions = <<>> PROVE Len(t) = Extensions(t)
  <2>1. Len(Ending(h)) = 0
    BY <1>8, Endings
  <2> QED BY <1>6, <1>7, <2>1
<1>9. ASSUME h.extensions # <<>>
      PROVE  \E A \in [0 .. Len(h.extensions) -> Nat] :
                /\ A[0] = Extensions(t) + 2 /\ A[Len(h.extensions)] = Len(t)
                /\ \A i \in 0 .. Len(h.extensions) : A[i] <= Len(t)
                /\ \A i \in 1 .. Len(h.extensions) :
                      /\ A[i] = A[i - 1] + Len(Extension(h.extensions[i]))
                      /\ Holds(t, A[i - 1], Extension(h.extensions[i]))
  <2>1. PICK l : l = ExtensionList(h)
    OBVIOUS
  <2>2. PICK o : o = Extensions(t) + 2
    OBVIOUS
  <2>3. Holds(t, o, l) /\ o \in Nat
    <3>1. Holds(t, (9 + Behind(h)) + 2, ExtensionList(h))
      <4>1. 9 + Behind(h) \in Nat
        BY <1>6
      <4> QED BY <1>4, <1>9, <4>1, Endings
    <3> QED BY <1>6, <2>1, <2>2, <3>1
  <2>4. o + Len(l) = Len(t)
    <3>1. Len(Ending(h)) = 2 + Len(l) /\ Len(l) \in Nat
      <4>1. l \in Seq(Nat)
        BY <2>1, ExtensionLists
      <4> QED BY <1>9, <2>1, <4>1, Endings
    <3> QED BY <1>6, <1>7, <2>2, <3>1
  <2>5. PICK e \in Seq(Seq(Nat)) :
              /\ Len(e) = Len(h.extensions) /\ l = FlattenSeq(e)
              /\ \A i \in 1 .. Len(e) : e[i] = Extension(h.extensions[i])
    BY <2>1, ExtensionLists
  <2>6. PICK A \in [0 .. Len(e) -> Nat] :
              /\ A[0] = o /\ A[Len(e)] = o + Len(FlattenSeq(e))
              /\ \A i \in 0 .. Len(e) : A[i] <= A[Len(e)]
              /\ \A i \in 1 .. Len(e) :
                    A[i] = A[i - 1] + Len(e[i]) /\ Holds(t, A[i - 1], e[i])
    <3>1. Holds(t, o, FlattenSeq(e))
      BY <2>3, <2>5
    <3> QED BY <2>3, <3>1, PartsHeld, Zenon
  <2>7. A[Len(e)] = Len(t)
    BY <2>4, <2>5, <2>6
  <2>8. \A i \in 1 .. Len(e) : /\ A[i] = A[i - 1] + Len(Extension(h.extensions[i]))
                               /\ Holds(t, A[i - 1], Extension(h.extensions[i]))
    BY <2>5, <2>6
  <2> QED BY <2>2, <2>5, <2>6, <2>7, <2>8
<1> QED BY <1>2, <1>6, <1>8, <1>9

\* In a list of names it comes past every name that is not a host's.
LEMMA WalksNames ==
    ASSUME NEW t \in Seq(Nat), NEW w \in Seq(ServerNames), NEW e \in Nat, e <= Len(t),
           NEW Q \in [0 .. Len(w) -> Nat], Q[Len(w)] = e,
           \A i \in 0 .. Len(w) : Q[i] <= e,
           \A i \in 1 .. Len(w) :
              /\ Q[i] = Q[i - 1] + 3 + Len(w[i].name)
              /\ At(t, Q[i - 1]) = w[i].type
              /\ UINT16(t, Q[i - 1] + 1) = Len(w[i].name),
           ReachesName(t, Q[0], e),
           NEW j \in 0 .. Len(w), \A i \in 1 .. j : w[i].type # 0
    PROVE  ReachesName(t, Q[j], e)
<1> DEFINE N == Len(w)
           B == {m \in 0 .. j : ~ ReachesName(t, Q[m], e)}
<1>1. N \in Nat /\ \A i \in 1 .. N : Len(w[i].name) \in Nat
  <2>1. N \in Nat /\ \A i \in 1 .. N : w[i] \in ServerNames
    BY Elements
  <2>2. \A i \in 1 .. N : w[i].name \in Seq(Nat)
    BY <2>1 DEF ServerNames
  <2> QED BY <2>1, <2>2
<1>2. SUFFICES ASSUME B # {} PROVE FALSE
  <2>1. j \in 0 .. j
    BY <1>1
  <2> QED BY <2>1
<1>3. B \subseteq Nat
  <2>1. \A i \in 0 .. j : i \in Nat
    OBVIOUS
  <2> QED BY <2>1, Zenon
<1>4. PICK m \in B : \A i \in B : m <= i
  <2> HIDE DEF B
  <2> QED BY <1>2, <1>3, LeastNumber
<1>5. m \in 0 .. j /\ m # 0 /\ ~ ReachesName(t, Q[m], e)
  OBVIOUS
<1>6. m - 1 \in 0 .. j /\ m \in 1 .. N /\ m \in 1 .. j /\ ~ (m <= m - 1)
      /\ m - 1 \in 0 .. N /\ m \in 0 .. N
  BY <1>1, <1>5
<1>7. ReachesName(t, Q[m - 1], e)
  BY <1>4, <1>6
<1>8. /\ Q[m] = Q[m - 1] + 3 + Len(w[m].name) /\ At(t, Q[m - 1]) # 0
      /\ UINT16(t, Q[m - 1] + 1) = Len(w[m].name)
      /\ Q[m - 1] \in Nat /\ Len(w[m].name) \in Nat /\ Q[m] <= e
  <2>1. w[m].type # 0 /\ At(t, Q[m - 1]) = w[m].type
    BY <1>6
  <2> QED BY <1>1, <1>6, <2>1
<1>9. Q[m - 1] < e
  BY <1>8
<1>10. ReachesName(t, Q[m - 1] + 3 + Len(w[m].name), e)
  BY <1>7, <1>8, <1>9, PassesName
<1> QED BY <1>5, <1>8, <1>10

\* The same from the extension the list is in: to its end, or to a name.
LEMMA WalksList ==
    ASSUME NEW t \in Seq(Nat), NEW x \in HelloExtensions, NEW a \in Nat, x.type = 0,
           BufEnd(t) = Len(t), a + Len(Extension(x)) <= Len(t),
           Holds(t, a, Extension(x)), ReachesExtension(t, a),
           NEW j \in 0 .. Len(x.names), \A i \in 1 .. j : x.names[i].type # 0
    PROVE  /\ j = Len(x.names) => ReachesExtension(t, a + Len(Extension(x)))
           /\ j < Len(x.names) => \E q \in Nat :
                 /\ ReachesName(t, q, a + Len(Extension(x)))
                 /\ q + 3 + Len(x.names[j + 1].name) <= a + Len(Extension(x))
                 /\ At(t, q) = x.names[j + 1].type
                 /\ UINT16(t, q + 1) = Len(x.names[j + 1].name)
                 /\ Holds(t, q + 3, x.names[j + 1].name)
<1> DEFINE w == x.names
<1>1. PICK n : n = Len(NameList(x))
  OBVIOUS
<1>2. PICK e : e = a + Len(Extension(x))
  OBVIOUS
<1>3. /\ n \in Nat /\ w \in Seq(ServerNames) /\ Len(w) \in Nat
      /\ \A i \in 1 .. Len(w) : w[i].name \in Seq(Nat) /\ Len(w[i].name) \in Nat
  <2>1. NameList(x) \in Seq(Nat)
    BY NameLists
  <2>2. w \in Seq(ServerNames)
    BY DEF HelloExtensions
  <2>3. Len(w) \in Nat /\ \A i \in 1 .. Len(w) : w[i] \in ServerNames
    BY <2>2, Elements
  <2>4. \A i \in 1 .. Len(w) : w[i].name \in Seq(Nat)
    BY <2>3 DEF ServerNames
  <2>5. n \in Nat
    BY <1>1, <2>1
  <2> QED BY <2>2, <2>3, <2>4, <2>5
<1>4. /\ Len(Extension(x)) = 6 + n
      /\ UINT16(t, a) = 0 /\ UINT16(t, a + 4) = n /\ Holds(t, a + 6, NameList(x))
  <2>1. PICK d \in Nat :
              /\ Len(Extension(x)) = 4 + d
              /\ x.type = 0 => d = 2 + Len(NameList(x))
              /\ \A u : \A o \in Nat : Holds(u, o, Extension(x)) =>
                    /\ UINT16(u, o) = x.type /\ UINT16(u, o + 2) = d
                    /\ x.type = 0 => /\ UINT16(u, o + 4) = Len(NameList(x))
                                     /\ Holds(u, o + 6, NameList(x))
    BY ExtensionTypes
  <2>2. d = 2 + n
    BY <1>1, <2>1
  <2>3. Len(Extension(x)) = 6 + n
    BY <1>3, <2>1, <2>2
  <2> QED BY <1>1, <2>1, <2>3
<1>5. e = a + 6 + n /\ e \in Nat /\ a < e /\ e <= Len(t) /\ Len(t) \in Nat /\ a < Len(t)
  <2>1. Len(t) \in Nat
    OBVIOUS
  <2> QED BY <1>2, <1>3, <1>4, <2>1
<1>6. ReachesName(t, a + 6, e)
  BY <1>3, <1>4, <1>5, EntersList
<1>7. PICK Q \in [0 .. Len(w) -> Nat] :
            /\ Q[0] = a + 6 /\ Q[Len(w)] = a + 6 + Len(NameList(x))
            /\ \A i \in 0 .. Len(w) : Q[i] <= Q[Len(w)]
            /\ \A i \in 1 .. Len(w) :
                  /\ Q[i] = Q[i - 1] + 3 + Len(w[i].name)
                  /\ At(t, Q[i - 1]) = w[i].type
                  /\ UINT16(t, Q[i - 1] + 1) = Len(w[i].name)
                  /\ Holds(t, Q[i - 1] + 3, w[i].name)
  <2>1. a + 6 \in Nat
    OBVIOUS
  <2> QED BY <1>4, <2>1, NameLists, Zenon
<1> HIDE DEF w
<1>8. Q[Len(w)] = e /\ \A i \in 0 .. Len(w) : Q[i] <= e
  BY <1>1, <1>5, <1>7
<1>9. ReachesName(t, Q[j], e)
  <2>1. j \in 0 .. Len(w) /\ \A i \in 1 .. j : w[i].type # 0
    BY DEF w
  <2> QED BY <1>3, <1>5, <1>6, <1>7, <1>8, <2>1, WalksNames
<1>10. ASSUME j = Len(w) PROVE ReachesExtension(t, e)
  <2>1. ReachesName(t, e, e)
    BY <1>8, <1>9, <1>10
  <2>2. PICK k \in 0 .. e : Rounds(t)[k] = [p |-> e, end |-> e]
    BY <2>1 DEF ReachesName
  <2>3. Rounds(t)[k].p = e /\ Rounds(t)[k].end = e /\ e \in 0 .. e
    BY <1>5, <2>2
  <2> QED BY <2>2, <2>3 DEF ReachesExtension
<1>11. ASSUME j < Len(w)
       PROVE  \E q \in Nat :
                 /\ ReachesName(t, q, e)
                 /\ q + 3 + Len(w[j + 1].name) <= e
                 /\ At(t, q) = w[j + 1].type
                 /\ UINT16(t, q + 1) = Len(w[j + 1].name)
                 /\ Holds(t, q + 3, w[j + 1].name)
  <2>1. j \in Nat /\ j + 1 \in 1 .. Len(w) /\ (j + 1) - 1 = j /\ j \in 0 .. Len(w)
        /\ j + 1 \in 0 .. Len(w)
    <3>1. \A m \in Nat : \A k \in 0 .. m : k < m =>
             /\ k \in Nat /\ k + 1 \in 1 .. m /\ (k + 1) - 1 = k /\ k + 1 \in 0 .. m
      OBVIOUS
    <3>2. j \in 0 .. Len(w) /\ Len(w) \in Nat
      BY <1>3 DEF w
    <3> QED BY <1>11, <3>1, <3>2
  <2>2. /\ Q[j + 1] = Q[j] + 3 + Len(w[j + 1].name)
        /\ At(t, Q[j]) = w[j + 1].type
        /\ UINT16(t, Q[j] + 1) = Len(w[j + 1].name)
        /\ Holds(t, Q[j] + 3, w[j + 1].name)
        /\ Q[j] \in Nat /\ Q[j + 1] <= e
    BY <1>7, <1>8, <2>1
  <2> QED BY <1>9, <2>2
<1> QED BY <1>2, <1>10, <1>11 DEF w

\* An extension without a host name is passed, whatever is in it.
LEMMA WalksExtension ==
    ASSUME NEW t \in Seq(Nat), NEW x \in HelloExtensions, NEW a \in Nat,
           BufEnd(t) = Len(t), a + Len(Extension(x)) <= Len(t),
           Holds(t, a, Extension(x)), ReachesExtension(t, a),
           \A i \in DOMAIN x.names : x.names[i].type # 0
    PROVE  ReachesExtension(t, a + Len(Extension(x)))
<1>1. CASE x.type = 0
  <2>1. x.names \in Seq(ServerNames)
    BY DEF HelloExtensions
  <2>2. /\ Len(x.names) \in 0 .. Len(x.names)
        /\ \A i \in 1 .. Len(x.names) : x.names[i].type # 0
    BY <2>1
  <2> QED BY <1>1, <2>2, WalksList
<1>2. CASE x.type # 0
  <2>1. PICK d \in Nat :
              /\ Len(Extension(x)) = 4 + d
              /\ x.type = 0 => d = 2 + Len(NameList(x))
              /\ \A u : \A o \in Nat : Holds(u, o, Extension(x)) =>
                    /\ UINT16(u, o) = x.type /\ UINT16(u, o + 2) = d
                    /\ x.type = 0 => /\ UINT16(u, o + 4) = Len(NameList(x))
                                     /\ Holds(u, o + 6, NameList(x))
    BY ExtensionTypes
  <2>2. UINT16(t, a) # 0 /\ UINT16(t, a + 2) = d
    BY <1>2, <2>1
  <2>3. a < Len(t) /\ a + Len(Extension(x)) = a + 4 + d
    BY <2>1
  <2>4. ReachesExtension(t, a + 4 + d)
    BY <2>2, <2>3, PassesExtension
  <2> QED BY <2>3, <2>4
<1> QED BY <1>1, <1>2

\* Through extensions without a host name GetSNI comes to the next.
LEMMA WalksExtensions ==
    ASSUME NEW t \in Seq(Nat), NEW w \in Seq(HelloExtensions), BufEnd(t) = Len(t),
           NEW A \in [0 .. Len(w) -> Nat], A[0] = Extensions(t) + 2,
           \A i \in 0 .. Len(w) : A[i] <= Len(t),
           \A i \in 1 .. Len(w) : /\ A[i] = A[i - 1] + Len(Extension(w[i]))
                                  /\ Holds(t, A[i - 1], Extension(w[i])),
           NEW i \in 0 .. Len(w),
           \A k \in 1 .. i : \A j \in DOMAIN w[k].names : w[k].names[j].type # 0
    PROVE  ReachesExtension(t, A[i])
<1> DEFINE N == Len(w)
           B == {m \in 0 .. i : ~ ReachesExtension(t, A[m])}
<1>1. N \in Nat /\ \A k \in 1 .. N : w[k] \in HelloExtensions
  BY Elements
<1>2. SUFFICES ASSUME B # {} PROVE FALSE
  <2>1. i \in 0 .. i
    BY <1>1
  <2> QED BY <2>1
<1>3. B \subseteq Nat
  <2>1. \A k \in 0 .. i : k \in Nat
    OBVIOUS
  <2> QED BY <2>1, Zenon
<1>4. PICK m \in B : \A k \in B : m <= k
  <2> HIDE DEF B
  <2> QED BY <1>2, <1>3, LeastNumber
<1>5. m \in 0 .. i /\ ~ ReachesExtension(t, A[m])
  OBVIOUS
<1>6. m # 0
  <2>1. 0 \in 0 .. N
    BY <1>1
  <2>2. A[0] \in Nat
    BY <2>1
  <2>3. ReachesExtension(t, A[0])
    BY <2>2, ReachesFirst
  <2> QED BY <1>5, <2>3
<1>7. /\ m - 1 \in 0 .. i /\ m \in 1 .. N /\ m \in 1 .. i /\ ~ (m <= m - 1)
      /\ m - 1 \in 0 .. N /\ m \in 0 .. N
  BY <1>1, <1>5, <1>6
<1>8. ReachesExtension(t, A[m - 1])
  BY <1>4, <1>7
<1>9. /\ A[m] = A[m - 1] + Len(Extension(w[m])) /\ A[m] <= Len(t)
      /\ Holds(t, A[m - 1], Extension(w[m])) /\ A[m - 1] \in Nat
      /\ w[m] \in HelloExtensions
  BY <1>1, <1>7
<1>10. \A j \in DOMAIN w[m].names : w[m].names[j].type # 0
  BY <1>7
<1>11. A[m - 1] + Len(Extension(w[m])) <= Len(t)
  BY <1>9
<1>12. ReachesExtension(t, A[m - 1] + Len(Extension(w[m])))
  BY <1>8, <1>9, <1>10, <1>11, WalksExtension
<1> QED BY <1>5, <1>9, <1>12

\* The name a hello asks for: there is no host name in it, or this is the
\* first, behind extensions and names of other types.
LEMMA AsksFirst ==
    ASSUME NEW h, IsHello(h)
    PROVE  \/ /\ Asks(h) = NoName
              /\ \A i \in DOMAIN h.extensions :
                    \A j \in DOMAIN h.extensions[i].names :
                       h.extensions[i].names[j].type # 0
           \/ \E i \in DOMAIN h.extensions :
              \E j \in DOMAIN h.extensions[i].names :
                 /\ h.extensions[i].names[j].type = 0
                 /\ Asks(h) = h.extensions[i].names[j].name
                 /\ \A k \in 1 .. j - 1 : h.extensions[i].names[k].type # 0
                 /\ \A m \in 1 .. i - 1 : \A k \in DOMAIN h.extensions[m].names :
                       h.extensions[m].names[k].type # 0
<1> DEFINE w == h.extensions
<1>1. w \in Seq(HelloExtensions)
  BY DEF IsHello
<1>2. /\ Len(w) \in Nat /\ DOMAIN w = 1 .. Len(w)
      /\ \A i \in 1 .. Len(w) : w[i] \in HelloExtensions
  BY <1>1, Elements
<1> DEFINE s == [i \in DOMAIN w |-> w[i].names]
           f == FlattenSeq(s)
           I == {k \in 1 .. Len(f) : f[k].type = 0}
<1>6. Asks(h) = IF (IF I # {} THEN Min(I) ELSE 0) = 0 THEN NoName
                ELSE f[IF I # {} THEN Min(I) ELSE 0].name
  BY Zenon DEF Asks, SelectInSeq
<1>3. s = [i \in DOMAIN w |-> w[i].names]
  OBVIOUS
<1>4. f = FlattenSeq(s)
  OBVIOUS
<1>5. I = {k \in 1 .. Len(f) : f[k].type = 0}
  OBVIOUS
<1> HIDE DEF w, s, f, I
<1>7. \A i \in 1 .. Len(w) : w[i].names \in Seq(ServerNames)
  BY <1>2 DEF HelloExtensions
<1>8. s \in Seq(Seq(ServerNames)) /\ Len(s) = Len(w)
      /\ \A i \in 1 .. Len(w) : s[i] = w[i].names
  <2>1. s = [i \in 1 .. Len(w) |-> w[i].names]
    BY <1>2, <1>3
  <2>2. s \in [1 .. Len(w) -> Seq(ServerNames)]
    BY <1>7, <2>1
  <2> QED BY <1>2, <2>1, <2>2
<1>9. f \in Seq(ServerNames) /\ \E P : Splits(s, f, P)
  BY <1>4, <1>8, Flattened
<1>10. PICK P : Splits(s, f, P)
  BY <1>9
<1>11. /\ Len(f) \in Nat /\ P \in [0 .. Len(w) -> Nat] /\ P[Len(w)] = Len(f)
       /\ \A i \in 1 .. Len(w) :
             /\ P[i] = P[i - 1] + Len(w[i].names)
             /\ \A k \in 1 .. Len(w[i].names) : f[P[i - 1] + k] = w[i].names[k]
  <2>1. Len(f) \in Nat
    BY <1>9
  <2>2. /\ P \in [0 .. Len(s) -> Nat] /\ P[Len(s)] = Len(f)
        /\ \A i \in 1 .. Len(s) :
              /\ P[i] = P[i - 1] + Len(s[i])
              /\ \A k \in 1 .. Len(s[i]) : f[P[i - 1] + k] = s[i][k]
    BY <1>10 DEF Splits
  <2>3. ASSUME NEW i \in 1 .. Len(w)
        PROVE  /\ P[i] = P[i - 1] + Len(w[i].names)
               /\ \A k \in 1 .. Len(w[i].names) : f[P[i - 1] + k] = w[i].names[k]
    <3>1. s[i] = w[i].names /\ i \in 1 .. Len(s)
      BY <1>8
    <3>2. /\ P[i] = P[i - 1] + Len(s[i])
          /\ \A k \in 1 .. Len(s[i]) : f[P[i - 1] + k] = s[i][k]
      BY <2>2, <3>1
    <3> QED BY <3>1, <3>2
  <2>4. P \in [0 .. Len(w) -> Nat] /\ P[Len(w)] = Len(f)
    BY <1>8, <2>2
  <2> QED BY <2>1, <2>3, <2>4
<1>12. /\ \A i, j \in 0 .. Len(w) : i <= j => P[i] <= P[j]
       /\ \A q \in 1 .. Len(f) : \E i \in 1 .. Len(w) : P[i - 1] < q /\ q <= P[i]
  <2>1. /\ \A i, j \in 0 .. Len(s) : i <= j => P[i] <= P[j]
        /\ \A q \in 1 .. Len(f) : \E i \in 1 .. Len(s) : P[i - 1] < q /\ q <= P[i]
    BY <1>8, <1>9, <1>10, PartsInOrder
  <2> QED BY <1>8, <2>1
<1>13. \A i \in 1 .. Len(w) : /\ Len(w[i].names) \in Nat
                              /\ DOMAIN w[i].names = 1 .. Len(w[i].names)
                              /\ P[i - 1] \in Nat /\ P[i] \in Nat
  <2>1. \A i \in 1 .. Len(w) : /\ Len(w[i].names) \in Nat
                               /\ DOMAIN w[i].names = 1 .. Len(w[i].names)
    BY <1>7, Elements
  <2>2. \A i \in 1 .. Len(w) : i - 1 \in 0 .. Len(w) /\ i \in 0 .. Len(w)
    BY <1>2
  <2> QED BY <1>11, <2>1, <2>2
\* The names in front of one, and where it is among all.
<1>14. ASSUME NEW i \in 1 .. Len(w), NEW k \in 1 .. Len(w[i].names)
       PROVE  /\ P[i - 1] + k \in 1 .. Len(f) /\ P[i - 1] + k <= P[i]
              /\ f[P[i - 1] + k] = w[i].names[k]
  <2>1. i \in 0 .. Len(w) /\ Len(w) \in 0 .. Len(w) /\ i <= Len(w)
    BY <1>2
  <2>2. P[i] <= Len(f)
    BY <1>11, <1>12, <2>1
  <2>3. P[i] = P[i - 1] + Len(w[i].names) /\ f[P[i - 1] + k] = w[i].names[k]
    BY <1>11
  <2>4. P[i - 1] \in Nat /\ Len(w[i].names) \in Nat /\ P[i] \in Nat
    BY <1>13
  <2> QED BY <1>11, <2>2, <2>3, <2>4
<1>15. CASE I = {}
  <2>1. Asks(h) = NoName
    BY <1>6, <1>15
  <2>2. ASSUME NEW i \in 1 .. Len(w), NEW j \in 1 .. Len(w[i].names),
               w[i].names[j].type = 0
        PROVE  FALSE
    <3>1. P[i - 1] + j \in 1 .. Len(f) /\ f[P[i - 1] + j] = w[i].names[j]
      BY <1>14
    <3>2. P[i - 1] + j \in I
      BY <1>5, <2>2, <3>1
    <3> QED BY <1>15, <3>2
  <2>3. \A i \in DOMAIN w : \A j \in DOMAIN w[i].names : w[i].names[j].type # 0
    BY <1>2, <1>13, <2>2
  <2> QED BY <2>1, <2>3 DEF w
<1>16. CASE I # {}
  <2>1. PICK q : q = Min(I)
    OBVIOUS
  <2>2. q \in I /\ \A k \in I : q <= k
    <3>1. I \subseteq Nat
      BY <1>5, <1>11
    <3> QED BY <1>16, <2>1, <3>1, MinIsLeast
  <2>3. q \in 1 .. Len(f) /\ f[q].type = 0 /\ q # 0
    BY <1>5, <2>2
  <2>4. Asks(h) = f[q].name
    BY <1>6, <1>16, <2>1, <2>3
  <2>5. PICK i \in 1 .. Len(w) : P[i - 1] < q /\ q <= P[i]
    BY <1>12, <2>3
  <2>6. PICK j : j = q - P[i - 1]
    OBVIOUS
  <2>7. /\ P[i - 1] \in Nat /\ P[i] = P[i - 1] + Len(w[i].names)
        /\ Len(w[i].names) \in Nat /\ q \in Nat
    BY <1>11, <1>13, <2>3
  <2>8. j \in 1 .. Len(w[i].names) /\ P[i - 1] + j = q
    BY <2>5, <2>6, <2>7
  <2>9. f[q] = w[i].names[j]
    BY <1>14, <2>8
  <2>10. ASSUME NEW m \in 1 .. Len(w), NEW k \in 1 .. Len(w[m].names),
                P[m - 1] + k < q
         PROVE  w[m].names[k].type # 0
    <3>1. P[m - 1] + k \in 1 .. Len(f) /\ f[P[m - 1] + k] = w[m].names[k]
      BY <1>14
    <3>2. ~ (q <= P[m - 1] + k)
      BY <2>3, <2>10, <3>1
    <3>3. P[m - 1] + k \notin I
      BY <2>2, <3>2
    <3> QED BY <1>5, <3>1, <3>3
  <2>11. ASSUME NEW k \in 1 .. j - 1 PROVE w[i].names[k].type # 0
    <3>1. k \in 1 .. Len(w[i].names) /\ P[i - 1] + k < q
      BY <2>7, <2>8
    <3> QED BY <2>10, <3>1
  <2>12. ASSUME NEW m \in 1 .. i - 1, NEW k \in DOMAIN w[m].names
         PROVE  w[m].names[k].type # 0
    <3>1. m \in 1 .. Len(w) /\ m \in 0 .. Len(w) /\ i - 1 \in 0 .. Len(w) /\ m <= i - 1
      BY <1>2
    <3>2. k \in 1 .. Len(w[m].names)
      BY <1>13, <3>1
    <3>3. P[m] <= P[i - 1] /\ P[m - 1] + k <= P[m]
      BY <1>12, <1>14, <3>1, <3>2
    <3>4. P[m - 1] + k < q
      <4>1. P[m - 1] \in Nat /\ P[m] \in Nat /\ k \in Nat
        BY <1>13, <3>1, <3>2
      <4> QED BY <2>5, <2>7, <3>3, <4>1
    <3> QED BY <2>10, <3>1, <3>2, <3>4
  <2>13. i \in DOMAIN w /\ j \in DOMAIN w[i].names
    BY <1>2, <1>13, <2>8
  <2> QED BY <2>3, <2>4, <2>9, <2>11, <2>12, <2>13 DEF w
<1> QED BY <1>15, <1>16

\* GetSNI finds in every hello the name the hello asks for: the first host name,
\* however many extensions and names of other types are in front of it, or none.
THEOREM HostNameOfHello ==
    ASSUME NEW h, IsHello(h) PROVE GetSNI(Encoded(h)) = Asks(h)
<1> DEFINE w == h.extensions
<1>1. PICK t : t = Encoded(h)
  OBVIOUS
<1>2. t \in Seq(Nat) /\ BufEnd(t) = Len(t) /\ Len(t) \in Nat
  <2>1. t \in Seq(Nat) /\ BufEnd(t) = Len(t)
    BY <1>1, HelloLaid
  <2> QED BY <2>1
<1>3. CanDecode(t)
  <2>1. Message(h) \in Seq(Nat) /\ Len(t) = 9 + Len(Message(h))
    BY <1>1, HelloLaid, MessageLaid
  <2>2. Len(t) \in 1 .. Len(t)
    BY <1>2, <2>1
  <2>3. SubSeq(t, 1, Len(t)) = t /\ CanDecode(SubSeq(t, 1, Len(t)))
    BY <1>1, <2>2, WholeHello
  <2> QED BY <2>3
<1>4. w \in Seq(HelloExtensions)
  BY DEF IsHello
<1>5. /\ Len(w) \in Nat /\ DOMAIN w = 1 .. Len(w)
      /\ \A i \in 1 .. Len(w) : w[i] \in HelloExtensions
  BY <1>4, Elements
<1>6. /\ Extensions(t) \in Nat
      /\ w = <<>> => Len(t) = Extensions(t)
      /\ w # <<>> =>
            \E A \in [0 .. Len(w) -> Nat] :
               /\ A[0] = Extensions(t) + 2
               /\ A[Len(w)] = Len(t)
               /\ \A i \in 0 .. Len(w) : A[i] <= Len(t)
               /\ \A i \in 1 .. Len(w) :
                     /\ A[i] = A[i - 1] + Len(Extension(w[i]))
                     /\ Holds(t, A[i - 1], Extension(w[i]))
  BY <1>1, ExtensionsLaid, Zenon
<1>7. \/ /\ Asks(h) = NoName
         /\ \A i \in DOMAIN w : \A j \in DOMAIN w[i].names : w[i].names[j].type # 0
      \/ \E i \in DOMAIN w : \E j \in DOMAIN w[i].names :
            /\ w[i].names[j].type = 0
            /\ Asks(h) = w[i].names[j].name
            /\ \A k \in 1 .. j - 1 : w[i].names[k].type # 0
            /\ \A m \in 1 .. i - 1 : \A k \in DOMAIN w[m].names :
                  w[m].names[k].type # 0
  BY AsksFirst
<1>8. \A i \in 1 .. Len(w) : w[i].type # 0 => w[i].names = <<>>
  BY <1>5 DEF IsHello
<1> HIDE DEF w
<1>9. SUFFICES NameFrom(t) = Asks(h)
  BY <1>1, <1>3 DEF GetSNI
<1>10. CASE w = <<>>
  <2>1. Asks(h) = NoName
    BY <1>5, <1>7, <1>10
  <2>2. Rounds(t)[0] = [p |-> Extensions(t) + 2, end |-> 0]
    BY <1>2, RoundsAre
  <2>3. /\ Rounds(t)[0].p = Extensions(t) + 2 /\ 0 \in 0 .. Len(t)
        /\ Rounds(t)[0].end \in 0 .. Extensions(t) + 2
        /\ Extensions(t) + 2 >= BufEnd(t) /\ Extensions(t) + 2 \in Nat
    BY <1>2, <1>6, <1>10, <2>2
  <2>4. NameFrom(t) = NoName
    BY <1>2, <2>3, EndsWithNone
  <2> QED BY <2>1, <2>4
<1>11. CASE w # <<>>
  <2>1. PICK A \in [0 .. Len(w) -> Nat] :
               /\ A[0] = Extensions(t) + 2
               /\ A[Len(w)] = Len(t)
               /\ \A i \in 0 .. Len(w) : A[i] <= Len(t)
               /\ \A i \in 1 .. Len(w) :
                     /\ A[i] = A[i - 1] + Len(Extension(w[i]))
                     /\ Holds(t, A[i - 1], Extension(w[i]))
    BY <1>6, <1>11
  <2>2. ASSUME NEW i \in 0 .. Len(w),
               \A k \in 1 .. i : \A j \in DOMAIN w[k].names : w[k].names[j].type # 0
        PROVE  ReachesExtension(t, A[i])
    BY <1>2, <1>4, <2>1, <2>2, WalksExtensions
  <2>3. CASE /\ Asks(h) = NoName
             /\ \A i \in DOMAIN w : \A j \in DOMAIN w[i].names : w[i].names[j].type # 0
    <3>1. Len(w) \in 0 .. Len(w)
      BY <1>5
    <3>2. ReachesExtension(t, Len(t))
      BY <1>5, <2>1, <2>2, <2>3, <3>1
    <3>3. PICK k \in 0 .. Len(t) :
                Rounds(t)[k].p = Len(t) /\ Rounds(t)[k].end \in 0 .. Len(t)
      BY <3>2 DEF ReachesExtension
    <3>4. Len(t) >= BufEnd(t)
      BY <1>2
    <3>5. NameFrom(t) = NoName
      BY <1>2, <3>3, <3>4, EndsWithNone
    <3> QED BY <2>3, <3>5
  <2>4. ASSUME NEW i \in DOMAIN w, NEW j \in DOMAIN w[i].names,
               w[i].names[j].type = 0,
               Asks(h) = w[i].names[j].name,
               \A k \in 1 .. j - 1 : w[i].names[k].type # 0,
               \A m \in 1 .. i - 1 : \A k \in DOMAIN w[m].names :
                  w[m].names[k].type # 0
        PROVE  NameFrom(t) = Asks(h)
    <3>1. PICK x \in HelloExtensions : x = w[i]
      BY <1>5
    <3>2. x.names \in Seq(ServerNames)
      BY DEF HelloExtensions
    <3>3. /\ Len(x.names) \in Nat /\ j \in 1 .. Len(x.names)
          /\ \A k \in 1 .. Len(x.names) : x.names[k] \in ServerNames
      BY <3>1, <3>2, Elements
    <3>4. x.names[j].name \in Seq(Nat)
      BY <3>3 DEF ServerNames
    <3>5. x.type = 0
      BY <1>5, <1>8, <3>1, <3>3
    <3>6. i \in 1 .. Len(w) /\ i - 1 \in 0 .. Len(w) /\ i \in 0 .. Len(w)
      BY <1>5
    <3>7. ReachesExtension(t, A[i - 1])
      BY <2>2, <2>4, <3>6
    <3>8. PICK a \in Nat : a = A[i - 1]
      BY <2>1, <3>6
    <3>9. PICK e : e = a + Len(Extension(x))
      OBVIOUS
    <3>10. /\ ReachesExtension(t, a) /\ Holds(t, a, Extension(x))
           /\ e = A[i] /\ e <= Len(t) /\ e \in Nat
      BY <2>1, <3>1, <3>6, <3>7, <3>8, <3>9
    <3>11. PICK l : l = j - 1
      OBVIOUS
    <3>12. l \in 0 .. Len(x.names) /\ l < Len(x.names) /\ l + 1 = j
      BY <3>3, <3>11
    <3>13. \A k \in 1 .. l : x.names[k].type # 0
      BY <2>4, <3>1, <3>11
    <3>14. \E q \in Nat :
                 /\ ReachesName(t, q, e)
                 /\ q + 3 + Len(x.names[l + 1].name) <= e
                 /\ At(t, q) = x.names[l + 1].type
                 /\ UINT16(t, q + 1) = Len(x.names[l + 1].name)
                 /\ Holds(t, q + 3, x.names[l + 1].name)
      <4>1. a + Len(Extension(x)) <= Len(t)
        BY <3>9, <3>10
      <4>2. l < Len(x.names) => \E q \in Nat :
                 /\ ReachesName(t, q, a + Len(Extension(x)))
                 /\ q + 3 + Len(x.names[l + 1].name) <= a + Len(Extension(x))
                 /\ At(t, q) = x.names[l + 1].type
                 /\ UINT16(t, q + 1) = Len(x.names[l + 1].name)
                 /\ Holds(t, q + 3, x.names[l + 1].name)
        BY <1>2, <3>5, <3>10, <3>12, <3>13, <4>1, WalksList
      <4> QED BY <3>9, <3>12, <4>2
    <3>15. PICK q \in Nat :
                 /\ ReachesName(t, q, e)
                 /\ q + 3 + Len(x.names[j].name) <= e
                 /\ At(t, q) = x.names[j].type
                 /\ UINT16(t, q + 1) = Len(x.names[j].name)
                 /\ Holds(t, q + 3, x.names[j].name)
      BY <3>12, <3>14
    <3>16. PICK name \in Seq(Nat) : name = x.names[j].name
      BY <3>4
    <3>17. /\ q < e /\ q + 3 + Len(name) <= Len(t) /\ At(t, q) = 0
           /\ UINT16(t, q + 1) = Len(name) /\ Holds(t, q + 3, name)
      <4>1. Len(name) \in Nat
        BY <3>16
      <4>2. q + 3 + Len(name) <= e
        BY <3>15, <3>16
      <4>3. q < e /\ q + 3 + Len(name) <= Len(t)
        <5>1. \A m, n, k, z \in Nat : m + 3 + n <= k /\ k <= z => m < k /\ m + 3 + n <= z
          OBVIOUS
        <5> QED BY <1>2, <3>10, <4>1, <4>2, <5>1
      <4>4. At(t, q) = 0
        BY <2>4, <3>1, <3>15
      <4> QED BY <3>15, <3>16, <4>3, <4>4
    <3>18. NameFrom(t) = name
      BY <1>2, <3>10, <3>15, <3>17, EndsWithName
    <3> QED BY <2>4, <3>1, <3>16, <3>18
  <2> QED BY <1>7, <2>3, <2>4
<1> QED BY <1>10, <1>11

-----------------------------------------------------------------------------
(* The name the server searches for.                                        *)

\* The name a hello asks for is a name.
LEMMA AskedName == ASSUME NEW h, IsHello(h) PROVE Asks(h) \in Seq(Nat)
<1>1. CASE Asks(h) = NoName
  BY <1>1 DEF NoName
<1>2. ASSUME NEW i \in DOMAIN h.extensions, NEW j \in DOMAIN h.extensions[i].names,
             Asks(h) = h.extensions[i].names[j].name
      PROVE  Asks(h) \in Seq(Nat)
  <2>1. h.extensions \in Seq(HelloExtensions)
    BY DEF IsHello
  <2>2. h.extensions[i] \in HelloExtensions
    BY <2>1, Elements
  <2>3. h.extensions[i].names \in Seq(ServerNames)
    BY <2>2 DEF HelloExtensions
  <2>4. h.extensions[i].names[j] \in ServerNames
    BY <2>3, Elements
  <2> QED BY <1>2, <2>4 DEF ServerNames
<1> QED BY <1>1, <1>2, AsksFirst

\* The name the server searches for is a name.
LEMMA SubjectNamed ==
    ASSUME HelloKept, NameFound, role = "server", pc \notin {"idle", "hello"}
    PROVE  subject \in Seq(Nat)
<1>1. asked \in Hellos
  BY DEF HelloKept
<1>2. Asks(asked) \in Seq(Nat) /\ LocalHost \in Seq(Nat)
  BY <1>1, AskedName, RequestsAssumption
<1>3. subject = IF Asks(asked) = NoName THEN LocalHost ELSE Asks(asked)
  BY DEF NameFound
<1> QED BY <1>2, <1>3

\* Behind the hello no action touches the request, and none leads back.
LEMMA BehindHello ==
    ASSUME [Next]_vars, ~Accept, ~ReceiveHello, role = "server"
    PROVE  /\ UNCHANGED <<role, asked, arrived, subject>>
           /\ \/ pc' = pc
              \/ pc \notin {"idle", "hello"} /\ pc' \notin {"idle", "hello"}
<1>1. CASE ServerPasses \/ ServerAccepts \/ ServerSearched
  BY <1>1, StepOrder DEF ServerPasses, ServerAccepts, ServerSearched, Return
<1>2. CASE Client
  BY <1>2 DEF Client, SelectClientCertificate, CertFindFromIssuerList, ClientPasses,
              ClientAccepts, ClientSearched, Return
<1>3. CASE NoStore
  BY <1>3, StepOrder DEF NoStore, Return
<1>4. CASE CreateCertificate
  <2>1. CASE CreateFails
    BY <2>1, Steps DEF CreateFails, Return, Creating
  <2>2. CASE CheckKey
    BY <2>2 DEF CheckKey, Return
  <2>3. CASE \/ AcquireContext \/ GenKey \/ StrToName \/ SelfSign \/ Label
             \/ AddToStore
    BY <2>3, StepOrder DEF AcquireContext, GenKey, StrToName, SelfSign, Label,
                           AddToStore, Step
  <2> QED BY <1>4, <2>1, <2>2, <2>3 DEF CreateCertificate
<1>5. CASE UNCHANGED vars
  BY <1>5 DEF vars
<1> QED BY <1>1, <1>2, <1>3, <1>4, <1>5 DEF Next, Server

\* The store is changed where a created certificate is added, the role nowhere.
LEMMA StoreChanges ==
    ASSUME [Next]_vars PROVE UNCHANGED store \/ AddToStore
<1>1. CASE Server
  BY <1>1 DEF Server, Accept, Begin, ReceiveHello, ServerPasses, ServerAccepts,
              ServerSearched
<1>2. CASE Client
  BY <1>2 DEF Client, SelectClientCertificate, Begin, CertFindFromIssuerList,
              ClientPasses, ClientAccepts, ClientSearched
<1>3. CASE NoStore \/ CreateFails \/ CheckKey
  BY <1>3 DEF NoStore, CreateFails, CheckKey
<1>4. CASE AcquireContext \/ GenKey \/ StrToName \/ SelfSign \/ Label
  BY <1>4 DEF AcquireContext, GenKey, StrToName, SelfSign, Label
<1>5. CASE UNCHANGED vars
  BY <1>5 DEF vars
<1> QED BY <1>1, <1>2, <1>3, <1>4, <1>5 DEF Next, CreateCertificate

LEMMA RoleKept == ASSUME [Next]_vars PROVE role' = role
<1>1. CASE Server
  BY <1>1 DEF Server, Accept, Begin, ReceiveHello, ServerPasses, ServerAccepts,
              ServerSearched
<1>2. CASE Client
  BY <1>2 DEF Client, SelectClientCertificate, Begin, CertFindFromIssuerList,
              ClientPasses, ClientAccepts, ClientSearched
<1>3. CASE NoStore \/ CreateFails \/ CheckKey
  BY <1>3 DEF NoStore, CreateFails, CheckKey
<1>4. CASE AcquireContext \/ GenKey \/ StrToName \/ SelfSign \/ Label \/ AddToStore
  BY <1>4 DEF AcquireContext, GenKey, StrToName, SelfSign, Label, AddToStore, Step
<1>5. CASE UNCHANGED vars
  BY <1>5 DEF vars
<1> QED BY <1>1, <1>2, <1>3, <1>4, <1>5 DEF Next, CreateCertificate

\* At first nothing is asked, and the store is as it is assumed.
LEMMA InitNames == ASSUME Init PROVE NamesInv
<1>1. HelloKept /\ NameFound
  BY DEF Init, HelloKept, NameFound
<1>2. StoreNamed
  BY StoresAssumption DEF Init, StoreNamed
<1> QED BY <1>1, <1>2 DEF NamesInv

\* A new hello: none of it has arrived.
LEMMA AcceptNames == ASSUME Accept PROVE HelloKept' /\ NameFound'
<1>1. asked' \in Hellos /\ arrived' = 0 /\ pc' = "hello"
  BY DEF Accept
<1>2. PICK h : h = asked'
  OBVIOUS
<1>3. Len(Encoded(h)) \in Nat /\ 0 < Len(Encoded(h))
  <2>1. IsHello(h)
    BY <1>1, <1>2, RequestsAssumption
  <2>2. Len(Encoded(h)) = 9 + Len(Message(h)) /\ Message(h) \in Seq(Nat)
    BY <2>1, HelloLaid, MessageLaid
  <2>3. Len(Message(h)) \in Nat
    BY <2>2
  <2> QED BY <2>2, <2>3
<1>4. Encoded(asked)' = Encoded(h)
  BY <1>2
<1> QED BY <1>1, <1>3, <1>4 DEF HelloKept, NameFound

\* When its last byte has, the search begins for the name in it.
LEMMA ReceiveNames ==
    ASSUME HelloKept, NameFound, ReceiveHello PROVE HelloKept' /\ NameFound'
<1> SUFFICES ASSUME role = "server" PROVE HelloKept' /\ NameFound'
  BY DEF ReceiveHello, HelloKept, NameFound
<1>1. pc = "hello" /\ UNCHANGED <<role, asked>>
  BY DEF ReceiveHello
<1>2. asked \in Hellos /\ arrived \in Nat /\ IsHello(asked)
  BY <1>1, RequestsAssumption DEF HelloKept
<1>3. PICK t : t = Encoded(asked)
  OBVIOUS
<1>4. t \in Seq(Nat) /\ Len(t) \in Nat
  <2>1. t \in Seq(Nat)
    BY <1>2, <1>3, HelloLaid
  <2> QED BY <2>1
<1>5. PICK n \in arrived + 1 .. Len(t) :
            /\ arrived' = n
            /\ IF CanDecode(Received(n))
               THEN /\ subject' = IF GetSNI(Received(n)) = NoName THEN LocalHost
                                  ELSE GetSNI(Received(n))
                    /\ pc' = "search"
               ELSE UNCHANGED <<subject, pc>>
  BY <1>3 DEF ReceiveHello
<1>6. n \in 1 .. Len(t) /\ n \in 0 .. Len(t)
  BY <1>2, <1>4, <1>5
<1>7. /\ CanDecode(Received(n)) <=> n = Len(t)
      /\ n = Len(t) => Received(n) = t
  BY <1>2, <1>3, <1>6, WholeHello DEF Received
<1>8. GetSNI(t) = Asks(asked)
  BY <1>2, <1>3, HostNameOfHello
<1>9. Encoded(asked)' = t /\ Asks(asked)' = Asks(asked)
  BY <1>1, <1>3
<1>10. HelloKept'
  BY <1>1, <1>2, <1>5, <1>6, <1>9 DEF HelloKept
<1>11. CASE n = Len(t)
  <2>1. /\ subject' = IF Asks(asked) = NoName THEN LocalHost ELSE Asks(asked)
        /\ pc' = "search"
    BY <1>5, <1>7, <1>8, <1>11
  <2>2. ~ (arrived' < Len(t))
    BY <1>4, <1>5, <1>11
  <2>3. NameFound'
    BY <1>9, <2>1, <2>2 DEF NameFound
  <2> QED BY <1>10, <2>3
<1>12. CASE n # Len(t)
  <2>1. pc' = "hello" /\ arrived' < Len(t)
    BY <1>1, <1>4, <1>5, <1>6, <1>7, <1>12
  <2>2. NameFound'
    BY <1>9, <2>1 DEF NameFound
  <2> QED BY <1>10, <2>2
<1> QED BY <1>11, <1>12

\* Every action keeps them.
LEMMA NextNames == ASSUME IInv, NamesInv, [Next]_vars PROVE NamesInv'
<1>1. HelloKept' /\ NameFound'
  <2>1. CASE Accept
    BY <2>1, AcceptNames
  <2>2. CASE ReceiveHello
    BY <2>2, ReceiveNames DEF NamesInv
  <2>3. CASE ~Accept /\ ~ReceiveHello /\ role = "server"
    <3>1. /\ UNCHANGED <<role, asked, arrived, subject>>
          /\ \/ pc' = pc
             \/ pc \notin {"idle", "hello"} /\ pc' \notin {"idle", "hello"}
      BY <2>3, BehindHello
    <3>2. Encoded(asked)' = Encoded(asked) /\ Asks(asked)' = Asks(asked)
      BY <3>1
    <3> QED BY <3>1, <3>2 DEF NamesInv, HelloKept, NameFound
  <2>4. CASE role # "server"
    BY <2>4, RoleKept DEF HelloKept, NameFound
  <2> QED BY <2>1, <2>2, <2>3, <2>4
<1>2. StoreNamed'
  <2>1. SUFFICES ASSUME role = "server" PROVE StoreNamed'
    BY RoleKept DEF StoreNamed
  <2>2. CASE UNCHANGED store
    BY <2>1, <2>2 DEF NamesInv, StoreNamed
  <2>3. CASE AddToStore
    <3>1. pc = "add" /\ store' = Append(store, Created)
      BY <2>3 DEF AddToStore, Step
    <3>2. subject \in Seq(Nat)
      BY <2>1, <3>1, SubjectNamed DEF NamesInv
    <3>3. Created.cn = subject /\ Created.dns = <<>>
      BY DEF Created
    <3>4. Created.cn \in Seq(Nat) /\ Created.dns \in Seq(Seq(Nat))
      BY <3>2, <3>3
    <3> HIDE DEF Created
    <3>5. store \in Seq(Range(store))
      BY DEF IInv, MadeHere
    <3>6. /\ DOMAIN store' = 1 .. Len(store) + 1 /\ store'[Len(store) + 1] = Created
          /\ \A i \in 1 .. Len(store) : store'[i] = store[i]
          /\ Len(store) \in Nat /\ DOMAIN store = 1 .. Len(store)
      BY <3>1, <3>5, Added
    <3>7. ASSUME NEW i \in 1 .. Len(store) + 1
          PROVE  store'[i].cn \in Seq(Nat) /\ store'[i].dns \in Seq(Seq(Nat))
      <4>1. CASE i \in 1 .. Len(store)
        BY <2>1, <3>6, <4>1 DEF NamesInv, StoreNamed
      <4>2. CASE i = Len(store) + 1
        BY <3>4, <3>6, <4>2
      <4> QED BY <3>6, <4>1, <4>2
    <3> QED BY <3>6, <3>7 DEF StoreNamed
  <2> QED BY <2>2, <2>3, StoreChanges
<1> QED BY <1>1, <1>2 DEF NamesInv

\* A certificate of the store is suitable when what it says covers the name.
LEMMA SuitableFits ==
    ASSUME StoreNamed, role = "server", subject \in Seq(Nat), NEW i \in DOMAIN store
    PROVE  Suitable(store[i]) <=> Fit(store[i])
<1>1. PICK c : c = store[i]
  OBVIOUS
<1>2. c.cn \in Seq(Nat) /\ c.dns \in Seq(Seq(Nat))
  BY <1>1 DEF StoreNamed
<1>3. HostNameMatches(subject, c.cn) <=> Covers(c.cn, subject)
  BY <1>2, HostNames
<1>4. ASSUME NEW k \in DOMAIN c.dns
      PROVE  HostNameMatches(subject, c.dns[k]) <=> Covers(c.dns[k], subject)
  <2>1. c.dns[k] \in Seq(Nat)
    BY <1>2, Elements
  <2> QED BY <2>1, HostNames
<1>5. (\E k \in DOMAIN c.dns : HostNameMatches(subject, c.dns[k]))
        <=> \E d \in Range(c.dns) : Covers(d, subject)
  BY <1>4 DEF Range
<1> QED BY <1>1, <1>3, <1>5 DEF Suitable, MatchCertHostName, Fit

\* The best of the suitable certificates is the best that covers the name.
LEMMA BestFits == ASSUME IInv, NamesInv PROVE BestChosen
<1> SUFFICES ASSUME role = "server", status = "ok" PROVE BestChosen
  BY DEF BestChosen
<1>1. pc = "done"
  BY DEF IInv, Progress
<1>2. subject \in Seq(Nat)
  BY <1>1, SubjectNamed DEF NamesInv
<1>3. \A i \in DOMAIN store : Suitable(store[i]) <=> Fit(store[i])
  BY <1>2, SuitableFits DEF NamesInv
<1>4. PICK i \in DOMAIN store :
            /\ cert = store[i] /\ Suitable(store[i])
            /\ \A j \in DOMAIN store :
                  Suitable(store[j]) =>
                      \/ j >= i /\ (SelfSigned(cert) => SelfSigned(store[j]))
                      \/ SelfSigned(store[j]) /\ ~SelfSigned(cert)
  BY DEF IInv, BestMatch
<1> QED BY <1>3, <1>4 DEF BestChosen

-----------------------------------------------------------------------------
(* The theorems.                                                            *)

\* What the search and the creation keep: the inductive invariant.
THEOREM Invariant == Spec => []IInv
<1>1. Init => IInv
  BY InitIInv
<1>2. IInv /\ [Next]_vars => IInv'
  BY NextIInv
<1> QED BY <1>1, <1>2, PTL DEF Spec

\* The variables stay in their types: a search never points past the end of
\* the store, and no request has more than three certificate contexts open.
THEOREM TypeCorrect == Spec => []TypeOK
<1>1. IInv => TypeOK
  BY DEF IInv
<1> QED BY <1>1, Invariant, PTL

\* CertFindServerByName frees every context it opens or duplicates, but for the
\* one it returns and one CreateCertificate failed on, for every store.
THEOREM EveryContextFreed == Spec => []ContextsBalanced
<1>1. IInv => ContextsBalanced
  BY DEF IInv
<1> QED BY <1>1, Invariant, PTL

\* The certificate SelectClientCertificate returns has a private key, and comes
\* from an issuer the server named if the store has one that does.
THEOREM UsableCertificate == Spec => []RequiredGiven
<1>1. IInv => RequiredGiven
  BY DEF IInv
<1> QED BY <1>1, Invariant, PTL

\* The server never creates a second certificate for a name, whatever capitals
\* the name is asked for with and although creations fail half way.
THEOREM OneCertificatePerName == Spec => []NoSecondCertificate
<1>1. IInv => NoSecondCertificate
  BY DEF IInv
<1> QED BY <1>1, Invariant, PTL

\* Of the store's certificates that HostNameMatches accepts for the name, the
\* server takes the first signed by somebody else or, when there is none, the
\* first, and creates one only when there is none.
THEOREM FirstSuitable == Spec => []BestMatch
<1>1. IInv => BestMatch
  BY DEF IInv
<1> QED BY <1>1, Invariant, PTL

\* The names the server's request has: the inductive invariant.
THEOREM NamesKept == Spec => []NamesInv
<1>1. Init => NamesInv
  BY InitNames
<1>2. IInv /\ NamesInv /\ [Next]_vars => NamesInv'
  BY NextNames
<1> QED BY <1>1, <1>2, Invariant, PTL DEF Spec

\* SSPINegotiateLoop begins the search when the last byte of a hello has come,
\* in whatever pieces the bytes came, for the first host name in it or for the
\* local host.
THEOREM FirstHostName == Spec => []NameFound
<1>1. NamesInv => NameFound
  BY DEF NamesInv
<1> QED BY <1>1, NamesKept, PTL

\* The certificate CertFindServerByName returns covers the name asked for, label
\* by label, and of those that do it is the first signed by somebody else or,
\* when there is none, the first.
THEOREM BestCertificate == Spec => []BestChosen
<1>1. IInv /\ NamesInv => BestChosen
  BY BestFits
<1> QED BY <1>1, Invariant, NamesKept, PTL
=============================================================================
