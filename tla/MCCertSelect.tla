---------------------------- MODULE MCCertSelect ----------------------------
\* Names of one to three labels with capitals and wildcards, hellos with the
\* name in every place it can have, and stores of up to two certificates.
EXTENDS CertSelect

b      == <<4>>                    \* "b"
a_b    == <<3, 1, 4>>              \* "a.b"
A_b    == <<11, 1, 4>>             \* "A.b"
aa_b   == <<3, 3, 1, 4>>           \* "aa.b"
a_a_b  == <<3, 1, 3, 1, 4>>        \* "a.a.b"
Wild   == <<2>>                    \* "*"
Any_b  == <<2, 1, 4>>              \* "*.b"
aAny_b == <<3, 2, 1, 4>>           \* "a*.b"
Any_a  == <<2, 1, 3>>              \* "*.a"

MCLocalHost == b
MCUserName  == <<5>>

Host(name)   == [type |-> 0, name |-> name]
Alias        == [type |-> 1, name |-> aa_b]
Sni(names)   == [type |-> 0, names |-> names, length |-> 0]
Other(t, n)  == [type |-> t, names |-> <<>>, length |-> n]
Hello(s, e)  == [session |-> s, ciphers |-> 2, compressions |-> 1, extensions |-> e]

MCHellos == {
    Hello(0, <<>>),
    Hello(0, <<Sni(<<Host(a_b)>>)>>),
    Hello(2, <<Other(17, 1), Sni(<<Host(A_b)>>)>>),
    Hello(0, <<Sni(<<Alias, Host(aa_b)>>), Other(1, 0)>>),
    Hello(1, <<Other(1, 17), Sni(<<Host(a_a_b), Alias>>)>>),
    Hello(0, <<Sni(<<Alias>>), Other(16, 2)>>) }

Cert(san, names, issuer, named, key) ==
    [san |-> san, dns |-> IF san THEN names ELSE <<>>,
     cn |-> IF san THEN a_b ELSE names[1],
     issuer |-> issuer, named |-> named, key |-> key, made |-> FALSE]

Pool == {
    Cert(TRUE, <<Any_b>>, "one", TRUE, 1),
    Cert(FALSE, <<a_b>>, "self", TRUE, 1),
    Cert(TRUE, <<Wild, Any_a>>, "one", TRUE, 0),
    Cert(TRUE, <<b, aAny_b>>, "self", TRUE, 0),
    Cert(FALSE, <<A_b>>, "two", FALSE, 1),
    Cert(FALSE, <<aa_b>>, "two", TRUE, 1) }

MCStores == UNION { [1 .. n -> Pool] : n \in 0 .. 2 }
MCIssuerLists == { {}, {"one"}, {"one", "two"} }
=============================================================================
