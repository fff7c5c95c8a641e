------------------------------ MODULE MCAppTypes ------------------------------
(***************************************************************************)
(* The pattern table on the hosts of the known services.  A state is a     *)
(* host and one way to spell it: senders may write host names in any case. *)
(***************************************************************************)
EXTENDS AppTypeTable

VARIABLES host, spelling

Services == DOMAIN OptionNames \ {"HTTP", "HTTPS", "DNS", "TLS", "QUIC", "SSH"}

HomePages(app) == {"www." \o name \o ".com" : name \in OptionNames[app]}
Patterns == UNION {PatternRows[r][2] : r \in 1 .. Len(PatternRows)}
MCHosts == UNION {HomePages(app) : app \in Services} \cup Patterns \cup {"example.org"}

upperChar(c) ==
    IF \E i \in 1 .. 26 : SubSeq(Lower, i, i) = c
    THEN LET i == CHOOSE i \in 1 .. 26 : SubSeq(Lower, i, i) = c IN SubSeq(Upper, i, i)
    ELSE c

\* The first n characters in upper case.
Shout(s, n) ==
    LET prefix[k \in 0 .. n] ==
            IF k = 0 THEN "" ELSE prefix[k - 1] \o upperChar(SubSeq(s, k, k))
    IN  prefix[n] \o SubSeq(s, n + 1, Len(s))

Init == host \in MCHosts /\ spelling = host
Respell == \E n \in 1 .. Len(host) : spelling' = Shout(host, n) /\ UNCHANGED host
Next == Respell
Spec == Init /\ [][Next]_<<host, spelling>>

\* Host names are case-insensitive, and so is the table that sniToAppType tries:
\* a sender cannot change the application of a connection by its spelling.
CaseDoesNotMatter == sniToAppType(spelling) = sniToAppType(host)

\* The first row with a pattern anywhere in the host decides, so a short pattern
\* hides the rows below it: of the home pages of the applications, that of every one
\* is recognised as that application, but for www.netflix.com, which contains
\* "x.com", and www.microsoft.com, which contains "t.co".
HiddenByTwitter == {"NETFLIX", "MICROSOFT"}
HomePagesRecognised ==
    \A app \in Services :
        host \in HomePages(app) =>
            sniToAppType(spelling) = IF app \in HiddenByTwitter THEN "TWITTER" ELSE app
=============================================================================
