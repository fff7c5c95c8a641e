----------------------------- MODULE AppTypeTable -----------------------------
(***************************************************************************)
(* sentry_types: the names of applications on the command line and in the  *)
(* report, and the ordered table of patterns that names the application of *)
(* a host.  Strings are TLC's strings, which the sequence operators take.  *)
(***************************************************************************)
EXTENDS Integers, Sequences

\* s.find(pattern) != std::string::npos
Find(s, pattern) ==
    \E i \in 1 .. Len(s) - Len(pattern) + 1 : SubSeq(s, i, i + Len(pattern) - 1) = pattern

Upper == "ABCDEFGHIJKLMNOPQRSTUVWXYZ"
Lower == "abcdefghijklmnopqrstuvwxyz"

lowerChar(c) ==
    IF \E i \in 1 .. 26 : SubSeq(Upper, i, i) = c
    THEN LET i == CHOOSE i \in 1 .. 26 : SubSeq(Upper, i, i) = c IN SubSeq(Lower, i, i)
    ELSE c

\* std::transform with std::tolower
toLower(s) ==
    LET prefix[n \in 0 .. Len(s)] ==
            IF n = 0 THEN "" ELSE prefix[n - 1] \o lowerChar(SubSeq(s, n, n))
    IN  prefix[Len(s)]

\* The table of sniToAppType, row after row: the first row with a pattern that
\* occurs in the host decides.
PatternRows == <<
    <<"GOOGLE",     {"google", "gstatic", "googleapis", "ggpht", "gvt1"}>>,
    <<"YOUTUBE",    {"youtube", "ytimg", "youtu.be", "yt3.ggpht"}>>,
    <<"FACEBOOK",   {"facebook", "fbcdn", "fb.com", "fbsbx", "meta.com"}>>,
    <<"INSTAGRAM",  {"instagram", "cdninstagram"}>>,
    <<"WHATSAPP",   {"whatsapp", "wa.me"}>>,
    <<"TWITTER",    {"twitter", "twimg", "x.com", "t.co"}>>,
    <<"NETFLIX",    {"netflix", "nflxvideo", "nflximg"}>>,
    <<"AMAZON",     {"amazon", "amazonaws", "cloudfront", "aws"}>>,
    <<"MICROSOFT",  {"microsoft", "msn.com", "office", "azure", "live.com", "outlook", "bing"}>>,
    <<"APPLE",      {"apple", "icloud", "mzstatic", "itunes"}>>,
    <<"TELEGRAM",   {"telegram", "t.me"}>>,
    <<"TIKTOK",     {"tiktok", "tiktokcdn", "musical.ly", "bytedance"}>>,
    <<"SPOTIFY",    {"spotify", "scdn.co"}>>,
    <<"ZOOM",       {"zoom"}>>,
    <<"DISCORD",    {"discord", "discordapp"}>>,
    <<"GITHUB",     {"github", "githubusercontent"}>>,
    <<"CLOUDFLARE", {"cloudflare", "cf-"}>> >>

RowsFor(host) == {r \in 1 .. Len(PatternRows) : \E p \in PatternRows[r][2] : Find(host, p)}

\* A table whose rows are tried on the host as it was sent.
sniToAppType_CaseSensitive(sni) ==
    IF sni = "" THEN "UNKNOWN"
    ELSE IF RowsFor(sni) = {} THEN "HTTPS"
    ELSE PatternRows[CHOOSE r \in RowsFor(sni) : \A q \in RowsFor(sni) : r <= q][1]

\* A table whose rows overwrite each other's answer.
sniToAppType_LastRow(sni) ==
    LET rows == RowsFor(toLower(sni))
    IN  IF sni = "" THEN "UNKNOWN"
        ELSE IF rows = {} THEN "HTTPS"
        ELSE PatternRows[CHOOSE r \in rows : \A q \in rows : q <= r][1]

sniToAppType(sni) ==
    LET rows == RowsFor(toLower(sni))
    IN  IF sni = "" THEN "UNKNOWN"
        ELSE IF rows = {} THEN "HTTPS"
        ELSE PatternRows[CHOOSE r \in rows : \A q \in rows : r <= q][1]

\* appTypeToString, the names the report prints
DisplayNames == [
    UNKNOWN |-> "Unknown", HTTP |-> "HTTP", HTTPS |-> "HTTPS", DNS |-> "DNS", TLS |-> "TLS",
    QUIC |-> "QUIC", SSH |-> "SSH", GOOGLE |-> "Google", FACEBOOK |-> "Facebook",
    YOUTUBE |-> "YouTube", TWITTER |-> "Twitter/X", INSTAGRAM |-> "Instagram",
    NETFLIX |-> "Netflix", AMAZON |-> "Amazon", MICROSOFT |-> "Microsoft", APPLE |-> "Apple",
    WHATSAPP |-> "WhatsApp", TELEGRAM |-> "Telegram", TIKTOK |-> "TikTok",
    SPOTIFY |-> "Spotify", ZOOM |-> "Zoom", DISCORD |-> "Discord", GITHUB |-> "GitHub",
    CLOUDFLARE |-> "Cloudflare"]

appTypeToString(app) == DisplayNames[app]

\* nameToAppType, the names --block-app takes, in lower case
OptionNames == [
    HTTP |-> {"http"}, HTTPS |-> {"https"}, DNS |-> {"dns"}, TLS |-> {"tls"},
    QUIC |-> {"quic"}, SSH |-> {"ssh"}, GOOGLE |-> {"google"}, FACEBOOK |-> {"facebook"},
    YOUTUBE |-> {"youtube"}, TWITTER |-> {"twitter", "x"}, INSTAGRAM |-> {"instagram"},
    NETFLIX |-> {"netflix"}, AMAZON |-> {"amazon"}, MICROSOFT |-> {"microsoft"},
    APPLE |-> {"apple"}, WHATSAPP |-> {"whatsapp"}, TELEGRAM |-> {"telegram"},
    TIKTOK |-> {"tiktok"}, SPOTIFY |-> {"spotify"}, ZOOM |-> {"zoom"},
    DISCORD |-> {"discord"}, GITHUB |-> {"github"}, CLOUDFLARE |-> {"cloudflare"}]

nameToAppType(name) ==
    LET apps == {app \in DOMAIN OptionNames : toLower(name) \in OptionNames[app]}
    IN  IF apps = {} THEN "UNKNOWN" ELSE CHOOSE app \in apps : TRUE
=============================================================================
