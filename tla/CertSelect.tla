------------------------------ MODULE CertSelect -----------------------------
(***************************************************************************)
(* How the two programs come by a certificate (Utilities/SSLHelper.cpp,    *)
(* Utilities/CreateCertificate.cpp).  The server receives a client hello   *)
(* piece by piece and searches the machine's store for the name it asks    *)
(* for (CertFindServerByName); the client, asked for a certificate,        *)
(* searches the user's store, by the issuers the server named and then at  *)
(* large (SelectClientCertificate).  Where nothing is found a self-signed  *)
(* certificate is created and stored.  One request follows another, the    *)
(* store stays.                                                            *)
(*                                                                         *)
(* A certificate of the store that was issued for the use wanted:          *)
(*   san     whether it has subject alternative names                      *)
(*   dns     those of them that are DNS names                              *)
(*   cn      the common name                                               *)
(*   issuer  who signed it, "self" when it did itself                      *)
(*   named   CertGetNameString finds a name to display                     *)
(*   key     0 when there is no private key, 1 for one of its own, from 2  *)
(*           on one generated in the shared container                      *)
(*   made    CreateCertificate made it                                     *)
(***************************************************************************)
EXTENDS ClientHello, HostName

CONSTANTS
    Roles,         \* "server", "client" or both
    Hellos,        \* what clients send
    Stores,        \* what the store may hold at first
    IssuerLists,   \* the issuers a server may name
    LocalHost,     \* GetHostName()
    UserName,      \* GetUserName() at GetHostName()
    MaxRequests    \* bound

ASSUME RequestsAssumption ==
    /\ MaxRequests \in Nat
    /\ \A h \in Hellos : IsHello(h)
    /\ LocalHost \in Seq(Nat)

\* Of the certificates the store holds at first, those CreateCertificate made
\* earlier are as it makes them, one for each name.
ASSUME StoresAssumption ==
    \A s \in Stores :
        /\ s \in Seq(Range(s))
        /\ \A i \in DOMAIN s :
              /\ s[i].cn \in Seq(Nat) /\ s[i].dns \in Seq(Seq(Nat))
              /\ s[i].made => ~s[i].san /\ s[i].named /\ s[i].issuer = "self"
        /\ \A i, j \in DOMAIN s :
              s[i].made /\ s[j].made /\ Lower(s[i].cn) = Lower(s[j].cn) => i = j

VARIABLES
    role,
    pc,            \* "idle", "hello", "issuers", "search", a step of
                   \* CreateCertificate, or "done"
    asked,         \* server: the hello; client: the issuers of the server
    arrived,       \* server: bytes of the hello received
    subject,       \* the name searched for, or to create a certificate for
    store,
    current,       \* place in the store where the search is, 0 when it has none
    saved,         \* self-signed certificate kept in case, 0 when there is none
    cert,          \* what pCertContext is: a certificate or NoCert
    contexts,      \* certificate contexts opened and not freed in this request
    held,          \* what CreateCertificate has open
    container,     \* the key the container holds, 1 when it holds none
    status,        \* what the request returned
    requests

searchVars == <<current, saved, cert, contexts>>
createVars == <<held, container>>
vars == <<role, pc, asked, arrived, subject, store, searchVars, createVars,
          status, requests>>

NoCert == [san |-> FALSE, dns |-> <<>>, cn |-> <<>>, issuer |-> "none",
           named |-> FALSE, key |-> 0, made |-> FALSE]

CreateSteps == <<"container", "genkey", "encode", "sign", "label", "add", "check">>

TypeOK ==
    /\ role \in Roles
    /\ pc \in {"idle", "hello", "issuers", "search", "done"} \cup Range(CreateSteps)
    /\ arrived \in Nat /\ current \in 0 .. Len(store) /\ saved \in 0 .. Len(store)
    /\ contexts \in 0 .. 3
    /\ held \subseteq {"provider", "encoded", "context"}
    /\ container \in 1 .. MaxRequests + 1
    /\ status \in {"none", "ok", "failed"} /\ requests \in 0 .. MaxRequests

Init ==
    /\ role \in Roles /\ store \in Stores
    /\ pc = "idle" /\ asked = <<>> /\ arrived = 0 /\ subject = NoName
    /\ current = 0 /\ saved = 0 /\ cert = NoCert /\ contexts = 0
    /\ held = {} /\ container = 1 /\ status = "none" /\ requests = 0

\* A request begins with nothing: what the one before returned is its caller's.
Begin ==
    /\ pc \in {"idle", "done"} /\ requests < MaxRequests
    /\ requests' = requests + 1
    /\ current' = 0 /\ saved' = 0 /\ cert' = NoCert /\ contexts' = 0
    /\ held' = {} /\ status' = "none"
    /\ UNCHANGED <<role, store, container>>

Return(outcome) == pc' = "done" /\ status' = outcome

-----------------------------------------------------------------------------
\* The server.
Accept ==
    /\ role = "server" /\ Begin
    /\ asked' \in Hellos /\ arrived' = 0 /\ subject' = NoName /\ pc' = "hello"

Received(n) == SubSeq(Encoded(asked), 1, n)

\* SSPINegotiateLoop looks for a hello whenever bytes have come.
ReceiveHello ==
    /\ pc = "hello"
    /\ \E n \in arrived + 1 .. Len(Encoded(asked)) :
          /\ arrived' = n
          /\ IF CanDecode(Received(n))
             THEN /\ subject' = IF GetSNI(Received(n)) = NoName THEN LocalHost
                                ELSE GetSNI(Received(n))
                  /\ pc' = "search"
             ELSE UNCHANGED <<subject, pc>>
    /\ UNCHANGED <<role, asked, store, searchVars, createVars, status, requests>>

\* The store cannot be opened: the server returns, the client goes on.  So does
\* the server return when it has no name to search for, neither the client's nor
\* its own; the searches below then are one way more than the code has.
NoStore ==
    /\ pc = "search" /\ current = 0
    /\ IF role = "server" THEN Return("failed")
       ELSE pc' = CreateSteps[1] /\ UNCHANGED status
    /\ UNCHANGED <<role, asked, arrived, subject, store, searchVars, createVars,
                   requests>>

MatchCertHostName(c, host) ==
    IF c.san THEN \E i \in DOMAIN c.dns : HostNameMatches(host, c.dns[i])
    ELSE HostNameMatches(host, c.cn)

Suitable(c) == c.named /\ MatchCertHostName(c, subject)

SelfSigned(c) == c.issuer = "self"

\* CertFindCertificateInStore gives a context of the next certificate and frees
\* the one before.
Freed == IF current = 0 THEN 0 ELSE 1

Keeps(c) == Suitable(c) /\ SelfSigned(c) /\ saved = 0

ServerPasses ==
    /\ role = "server" /\ pc = "search" /\ current < Len(store)
    /\ ~Suitable(store[current + 1]) \/ SelfSigned(store[current + 1])
    /\ current' = current + 1
    /\ IF Keeps(store[current + 1])
       THEN saved' = current + 1 /\ contexts' = contexts - Freed + 2
       ELSE UNCHANGED saved /\ contexts' = contexts - Freed + 1
    /\ UNCHANGED <<role, pc, asked, arrived, subject, store, cert, createVars,
                   status, requests>>

\* Mutant: the certificate saved is not freed.
ServerAcceptsOnly ==
    /\ role = "server" /\ pc = "search" /\ current < Len(store)
    /\ Suitable(store[current + 1]) /\ ~SelfSigned(store[current + 1])
    /\ cert' = store[current + 1] /\ contexts' = contexts - Freed + 1
    /\ current' = current + 1 /\ Return("ok")
    /\ UNCHANGED <<role, asked, arrived, subject, store, saved, createVars,
                   requests>>

\* A certificate somebody else has signed ends the search.
ServerAccepts ==
    /\ role = "server" /\ pc = "search" /\ current < Len(store)
    /\ Suitable(store[current + 1]) /\ ~SelfSigned(store[current + 1])
    /\ cert' = store[current + 1] /\ current' = current + 1 /\ saved' = 0
    /\ contexts' = contexts - Freed + 1 - (IF saved = 0 THEN 0 ELSE 1)
    /\ Return("ok")
    /\ UNCHANGED <<role, asked, arrived, subject, store, createVars, requests>>

\* The end of the store: the self-signed certificate, or a new one.
ServerSearched ==
    /\ role = "server" /\ pc = "search" /\ current = Len(store)
    /\ contexts' = contexts - Freed
    /\ IF saved # 0
       THEN cert' = store[saved] /\ saved' = 0 /\ Return("ok")
       ELSE pc' = CreateSteps[1] /\ UNCHANGED <<cert, saved, status>>
    /\ UNCHANGED <<role, asked, arrived, subject, store, current, createVars,
                   requests>>

-----------------------------------------------------------------------------
\* The client: the server has asked for a certificate, and may have named the
\* issuers it trusts.  (The optional call before that returns none.)
SelectClientCertificate ==
    /\ role = "client" /\ Begin
    /\ asked' \in IssuerLists /\ arrived' = 0 /\ subject' = UserName
    /\ pc' = IF asked' = {} THEN "search" ELSE "issuers"

HasKey(c) == c.key # 0

\* CertFindChainInStore: the first certificate from one of the issuers.
FromIssuer(i) ==
    /\ i \in DOMAIN store /\ HasKey(store[i]) /\ store[i].issuer \in asked
    /\ \A j \in 1 .. i - 1 : ~(HasKey(store[j]) /\ store[j].issuer \in asked)

CertFindFromIssuerList ==
    /\ pc = "issuers"
    /\ \/ \E i \in DOMAIN store :
             FromIssuer(i) /\ cert' = store[i] /\ contexts' = 1 /\ Return("ok")
       \/ /\ ~ \E i \in DOMAIN store : FromIssuer(i)
          /\ pc' = "search" /\ UNCHANGED <<cert, contexts, status>>
    /\ UNCHANGED <<role, asked, arrived, subject, store, current, saved,
                   createVars, requests>>

ClientPasses ==
    /\ role = "client" /\ pc = "search" /\ current < Len(store)
    /\ ~(store[current + 1].named /\ HasKey(store[current + 1]))
    /\ current' = current + 1 /\ contexts' = contexts - Freed + 1
    /\ UNCHANGED <<role, pc, asked, arrived, subject, store, saved, cert,
                   createVars, status, requests>>

\* Mutant: whether there is a private key is not looked at.
ClientAcceptsAny ==
    /\ role = "client" /\ pc = "search" /\ current < Len(store)
    /\ store[current + 1].named
    /\ cert' = store[current + 1] /\ current' = current + 1
    /\ contexts' = contexts - Freed + 2 /\ Return("ok")
    /\ UNCHANGED <<role, asked, arrived, subject, store, saved, createVars,
                   requests>>

\* Any certificate with a private key is ideal, for the caller names no
\* subject.  It is duplicated, and the search's own context is left open.
ClientAccepts ==
    /\ role = "client" /\ pc = "search" /\ current < Len(store)
    /\ store[current + 1].named /\ HasKey(store[current + 1])
    /\ cert' = store[current + 1] /\ current' = current + 1
    /\ contexts' = contexts - Freed + 2 /\ Return("ok")
    /\ UNCHANGED <<role, asked, arrived, subject, store, saved, createVars,
                   requests>>

ClientSearched ==
    /\ role = "client" /\ pc = "search" /\ current = Len(store)
    /\ contexts' = contexts - Freed /\ pc' = CreateSteps[1]
    /\ UNCHANGED <<role, asked, arrived, subject, store, current, saved, cert,
                   createVars, status, requests>>

-----------------------------------------------------------------------------
\* CreateCertificate.  Each step may fail: it returns at once, past the clean up
\* at its end.
CreateFails ==
    /\ pc \in Range(CreateSteps) /\ Return("failed")
    /\ UNCHANGED <<role, asked, arrived, subject, store, searchVars, createVars,
                   requests>>

After(step) == CreateSteps[SelectInSeq(CreateSteps, LAMBDA s : s = step) + 1]

Step(step) ==
    /\ pc = step /\ pc' = After(step)
    /\ UNCHANGED <<role, asked, arrived, subject, current, saved, cert, status,
                   requests>>

AcquireContext ==
    /\ Step("container") /\ held' = {"provider"}
    /\ UNCHANGED <<store, contexts, container>>

\* The key in the container is replaced, and the container released.
GenKey ==
    /\ Step("genkey") /\ container' = requests + 1 /\ held' = {}
    /\ UNCHANGED <<store, contexts>>

StrToName ==
    /\ Step("encode") /\ held' = {"encoded"}
    /\ UNCHANGED <<store, contexts, container>>

SelfSign ==
    /\ Step("sign") /\ held' = held \cup {"context"} /\ contexts' = contexts + 1
    /\ UNCHANGED <<store, container>>

\* The usage, the friendly name and the description; then the store is opened.
Label == Step("label") /\ UNCHANGED <<store, contexts, held, container>>

Created == [san |-> FALSE, dns |-> <<>>, cn |-> subject, issuer |-> "self",
            named |-> TRUE, key |-> container, made |-> TRUE]

AddToStore ==
    /\ Step("add") /\ store' = Append(store, Created)
    /\ UNCHANGED <<contexts, held, container>>

CheckKey ==
    /\ pc = "check" /\ Return("ok")
    /\ cert' = Created /\ held' = {}
    /\ UNCHANGED <<role, asked, arrived, subject, store, current, saved, contexts,
                   container, requests>>

CreateCertificate ==
    \/ AcquireContext \/ GenKey \/ StrToName \/ SelfSign \/ Label \/ AddToStore
    \/ CheckKey \/ CreateFails

-----------------------------------------------------------------------------
Server ==
    \/ Accept \/ ReceiveHello \/ ServerPasses \/ ServerAccepts \/ ServerSearched

Client ==
    \/ SelectClientCertificate \/ CertFindFromIssuerList
    \/ ClientPasses \/ ClientAccepts \/ ClientSearched

Next == Server \/ Client \/ NoStore \/ CreateCertificate

Spec == Init /\ [][Next]_vars

-----------------------------------------------------------------------------
\* However the bytes of a hello come in, the search begins when the last has
\* come and not before, for the first host name the hello has, wherever among
\* its extensions and names that is, or for the local host.
NameFound ==
    role = "server" /\ pc # "idle" =>
        IF arrived < Len(Encoded(asked)) THEN pc = "hello"
        ELSE /\ pc # "hello"
             /\ subject = IF Asks(asked) = NoName THEN LocalHost ELSE Asks(asked)

Fit(c) ==
    /\ c.named
    /\ IF c.san THEN \E d \in Range(c.dns) : Covers(d, subject)
       ELSE Covers(c.cn, subject)

\* The server's certificate covers the name asked for, and of those that do it
\* is the first signed by somebody else or, when there is none, the first; one
\* is created only when there is none at all.
BestChosen ==
    role = "server" /\ status = "ok" =>
        \E i \in DOMAIN store :
            /\ cert = store[i] /\ Fit(store[i])
            /\ \A j \in DOMAIN store :
                  Fit(store[j]) =>
                      \/ j >= i /\ (SelfSigned(cert) => SelfSigned(store[j]))
                      \/ SelfSigned(store[j]) /\ ~SelfSigned(cert)

\* A certificate created for a name is found when the name is asked for again,
\* though capitals differ and though its creation was reported as failed: no
\* second one is created.
NoSecondCertificate ==
    role = "server" =>
        \A i, j \in DOMAIN store :
            /\ store[i].made /\ store[j].made
            /\ Lower(store[i].cn) = Lower(store[j].cn)
            => i = j

\* On each way through the server's search every context it opens or duplicates
\* is freed, but for the one it returns and one CreateCertificate failed on.
ContextsBalanced ==
    role = "server" /\ pc = "done" =>
        contexts = (IF cert = NoCert THEN 0 ELSE 1)
                   + (IF "context" \in held THEN 1 ELSE 0)

\* "If there is a second call ... it MUST return a certificate"
\* (StreamClient.cpp:63): the client returns one it can use, by the issuers the
\* server named if it has such a one, and fails only when it could not make one.
RequiredGiven ==
    role = "client" /\ pc = "done" =>
        IF status = "ok"
        THEN /\ HasKey(cert)
             /\ (\E i \in DOMAIN store : FromIssuer(i)) => cert.issuer \in asked
        ELSE cert = NoCert

\* "The key we made earlier" (CreateCertificate.cpp:156): a certificate refers
\* to the container for the key it was made with.  Violated, for the container
\* is shared and the next creation, failed or not, replaces its key.
KeysKept == \A i \in DOMAIN store : store[i].made => store[i].key = container
=============================================================================
