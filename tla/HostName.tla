------------------------------ MODULE HostName ------------------------------
(***************************************************************************)
(* HostNameMatches (Utilities/SSLHelper.cpp): whether the name a           *)
(* certificate carries, which may be wildcarded, is that of a host.  A     *)
(* name is a sequence of characters, a character a number: capital letters *)
(* are their small letters plus 8.  No number is the question mark, which  *)
(* no host name has and which PathMatchSpecEx would take for any           *)
(* character.                                                              *)
(***************************************************************************)
EXTENDS Integers, Sequences, SequencesExt

Dot  == 1
Star == 2

Lower(name) == [i \in DOMAIN name |-> name[i] % 8]

\* CString: the position of a character from 0 (-1 when it is not there), the
\* last n characters, what comes before the first dot.
Find(name, c)       == SelectInSeq(name, LAMBDA x : x = c) - 1
Right(name, n)      == IF n >= Len(name) THEN name
                       ELSE SubSeq(name, Len(name) - n + 1, Len(name))
SpanExcluding(name) == IF Find(name, Dot) < 0 THEN name
                       ELSE SubSeq(name, 1, Find(name, Dot))

DnsNameCompare(a, b) == Lower(a) = Lower(b)

\* PathMatchSpecEx: a star stands for any characters, none included, another
\* character for itself; end says where in the name each of them ends.
PathMatchSpec(name, spec) ==
    \E end \in [0 .. Len(spec) -> 0 .. Len(name)] :
        /\ end[0] = 0 /\ end[Len(spec)] = Len(name)
        /\ \A i \in DOMAIN spec :
              IF spec[i] = Star THEN end[i] >= end[i - 1]
              ELSE /\ end[i] = end[i - 1] + 1
                   /\ Lower(spec)[i] = Lower(name)[end[i]]

\* The length of a name from its first dot on.
suffixLen(name) == Len(name) - Find(name, Dot)

\* Mutants: the lengths are compared, the suffixes are not; capitals
\* count.
HostNameMatchesAnySuffix(host, dns) ==
    \/ DnsNameCompare(host, dns)
    \/ /\ Find(dns, Star) >= 0
       /\ Len(dns) <= suffixLen(host) + 2
       /\ suffixLen(dns) = suffixLen(host)
       /\ PathMatchSpec(SpanExcluding(host), SpanExcluding(dns))

HostNameMatchesExactly(host, dns) == host = dns

HostNameMatches(host, dns) ==
    \/ DnsNameCompare(host, dns)
    \/ /\ Find(dns, Star) >= 0
       /\ Len(dns) <= suffixLen(host) + 2
       /\ suffixLen(dns) = suffixLen(host)
       /\ Right(host, suffixLen(host)) = Right(dns, suffixLen(host))
       /\ PathMatchSpec(SpanExcluding(host), SpanExcluding(dns))

-----------------------------------------------------------------------------
\* What is meant, by labels: a name is the host's, but for capitals, or it has
\* a star in its first label, which is at most two characters and fits the
\* host's first label, and the same further labels, to the capitals.
IsLabel(s) == Dot \notin Range(s)

\* The label has what is in front of the star, or stars, at its beginning and
\* what is behind at its end.
Fits(label, wild) ==
    \E i, j \in DOMAIN wild :
        /\ i <= j /\ \A k \in i .. j : wild[k] = Star
        /\ Len(label) >= Len(wild) - (j - i + 1)
        /\ IsPrefix(Lower(SubSeq(wild, 1, i - 1)), Lower(label))
        /\ IsSuffix(Lower(SubSeq(wild, j + 1, Len(wild))), Lower(label))

Covers(dns, host) ==
    \/ Lower(dns) = Lower(host)
    \/ \E i \in DOMAIN dns, j \in DOMAIN host :
          /\ dns[i] = Dot /\ host[j] = Dot
          /\ IsLabel(SubSeq(dns, 1, i - 1)) /\ IsLabel(SubSeq(host, 1, j - 1))
          /\ i <= 3 /\ Fits(SubSeq(host, 1, j - 1), SubSeq(dns, 1, i - 1))
          /\ SubSeq(dns, i, Len(dns)) = SubSeq(host, j, Len(host))
=============================================================================
