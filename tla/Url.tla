-------------------------------- MODULE Url --------------------------------
(***************************************************************************)
(* tristan::network::Url (inc/url.hpp, src/url.cpp): the constructor that  *)
(* parses a text, the setters, composeUrl(), and the resolution of hosts.  *)
(*                                                                         *)
(* A text is a sequence of tokens: the characters that some line of the    *)
(* code looks for, and words for what stands between them.  A word is as   *)
(* good as one character wherever a position counts.                       *)
(***************************************************************************)
EXTENDS Integers, SequencesExt, FiniteSets

CONSTANTS
  Words,       \* the tokens that texts are made of
  Directory,   \* external: what gethostbyname() finds, from host texts to addresses
  Addresses,   \* the words that inet_pton() converts to something but 0
  Dotted,      \* other words of four numbers
  Number,      \* what stoi() makes of the words it accepts
  UrlInputs,   \* what the client calls the constructor and the setters with
  MaxCalls     \* how many setters it calls (a bound of the model)

Text == Seq(Words)

Ports == 0..65535

ASSUME UrlAssumption ==
  /\ Addresses \cup Dotted \subseteq Words
  /\ \A h \in DOMAIN Directory : Directory[h] \in Seq(Addresses) \ {<<>>}
  /\ \A word \in DOMAIN Number : Number[word] \in Int
  /\ UrlInputs \in [texts : SUBSET Text, schemes : SUBSET (Text \ {<<>>}),
                    hosts : SUBSET (Text \ {<<>>}),  \* at(0), front()
                    users : SUBSET Text, passwords : SUBSET Text, ips : SUBSET Words,
                    ports : SUBSET Text, paths : SUBSET Text, queries : SUBSET Text,
                    fragments : SUBSET Text]
  /\ MaxCalls \in Nat

VARIABLES
  url,     \* the members of the object
  named,   \* history: the hosts that were resolved for it
  given,   \* history: is there an address that the client gave itself?
  silent,  \* history: did a resolution fail for a reason nobody was told?
  calls    \* how many setters were called

urlVars == <<url, named, given, silent, calls>>

UrlErrors == {"none", "BAD_URL_FORMAT", "BAD_HOST_FORMAT", "BAD_IP_FORMAT",
              "IP_CONVERTER_ERROR", "NOT_FOUND_ERROR", "TRY_AGAIN_ERROR"}

UrlTypeOK ==
  /\ \A f \in {"scheme", "user", "password", "host", "port", "path", "query",
               "fragment"} : url[f] \in Text
  /\ url.ips \in Seq(Addresses)
  /\ url.local \in Ports
  /\ url.error \in UrlErrors
  /\ url.valid \in BOOLEAN

-----------------------------------------------------------------------------
(* Texts.                                                                  *)

\* The characters of g_percentage_encoding that the inputs use; the others are
\* treated as " " is.
Special == {" ", "@", "#", "%", "&", "=", ":", ";", "/", "?"}

\* A percent sign and two digits, the second named for what they stand for.
Digit(c) ==
  CASE c = " " -> "0x " [] c = "@" -> "0x@" [] c = "#" -> "0x#" [] c = "%" -> "0x%"
    [] c = "&" -> "0x&" [] c = "=" -> "0x=" [] c = ":" -> "0x:" [] c = ";" -> "0x;"
    [] c = "/" -> "0x/" [] OTHER -> "0x?"

Percent(c) == <<"%", "0x", Digit(c)>>

EncodeOnly(s, chars) ==
  FlattenSeq([i \in DOMAIN s |->
                IF s[i] \in chars THEN Percent(s[i]) ELSE <<s[i]>>])

\* (A slip: the percent sign itself is left as it is.)
EncodeUrlPercent(s) == EncodeOnly(s, Special \ {"%"})

encodeUrl(s) == EncodeOnly(s, Special)

Find(s, c) == SelectInSeq(s, LAMBDA x : x = c)
FindLast(s, c) == SelectLastInSeq(s, LAMBDA x : x = c)

\* What stands before position i, and what follows it; 0 is npos.
Before(s, i) == IF i = 0 THEN s ELSE SubSeq(s, 1, i - 1)
After(s, i) == IF i = 0 THEN <<>> ELSE SubSeq(s, i + 1, Len(s))

Prefixed(c, s) == IF s = <<>> THEN <<>> ELSE <<c>> \o s
Suffixed(s, c) == IF s = <<>> THEN <<>> ELSE Append(s, c)

-----------------------------------------------------------------------------
(* The parts of an Url.                                                    *)

Blank ==
  [scheme |-> <<>>, user |-> <<>>, password |-> <<>>, host |-> <<>>,
   port |-> <<>>, local |-> 0, path |-> <<>>, query |-> <<>>,
   fragment |-> <<>>, ips |-> <<>>, error |-> "none", valid |-> FALSE]

DefaultPort ==
  [ftp |-> 20, ssh |-> 22, smtp |-> 25, http |-> 80, imap |-> 143,
   https |-> 443, pop |-> 995]

DefaultPortText ==
  [ftp |-> "20", ssh |-> "22", smtp |-> "25", http |-> "80", imap |-> "143",
   https |-> "443", pop |-> "995"]

\* The tokens that are looked for or written whatever the client has given.
ASSUME WordsAssumption ==
  {"%", "0x"} \cup Special \cup {Digit(c) : c \in Special}
    \cup {DefaultPortText[s] : s \in DOMAIN DefaultPortText} \subseteq Words

PortThrows(text) == text = <<>> \/ text[1] \notin DOMAIN Number

\* What is outside keeps to: no number holds a delimiter of an authority, and stoi()
\* reads the texts of the ports.
ASSUME NamesAssumption ==
  /\ {"@", ":", "/"} \cap (Addresses \cup DOMAIN Number) = {}
  /\ \A s \in DOMAIN DefaultPort :
       DefaultPortText[s] \in DOMAIN Number /\ Number[DefaultPortText[s]] = DefaultPort[s]
  /\ \A text \in UrlInputs.ports, n \in Ports :
       text = <<ToString(n)>> => ToString(n) \in DOMAIN Number

\* (A slip: the port is not cast to its 16 bits.)
WithPortWide(u, text) ==
  [u EXCEPT !.port = text,
            !.local = IF PortThrows(text) THEN @ ELSE Number[text[1]]]

\* The text is assigned before stoi() may throw; the number is cast to 16 bits.
WithPort(u, text) ==
  [u EXCEPT !.port = text,
            !.local = IF PortThrows(text) THEN @ ELSE Number[text[1]] % 65536]

WithScheme(u, scheme) ==
  LET v == [u EXCEPT !.scheme = scheme] IN
    IF \E s \in DOMAIN DefaultPort : scheme = <<s>>
      THEN [v EXCEPT !.port = <<DefaultPortText[scheme[1]]>>,
                     !.local = DefaultPort[scheme[1]]]
      ELSE v

\* What gethostbyname() says: the addresses of the host, or an error (one of four;
\* two stand for them), or that it failed for a reason the switch has no case for,
\* which leaves neither addresses nor an error.
Answer(ips, error) == [ips |-> ips, error |-> error]
Silence == Answer(<<>>, "none")

Answers(host) ==
  {Silence, Answer(<<>>, "TRY_AGAIN_ERROR"),
   IF host \in DOMAIN Directory THEN Answer(Directory[host], "none")
   ELSE Answer(<<>>, "NOT_FOUND_ERROR")}

\* The addresses that are found are added to those of former hosts, and an
\* error of a former call is not taken back.
WithHost(u, host, answer) ==
  [u EXCEPT !.host = host, !.ips = @ \o answer.ips,
            !.error = IF answer.error = "none" THEN @ ELSE answer.error]

WithUserInfo(u, info) ==
  [u EXCEPT !.user = Before(info, Find(info, ":")),
            !.password = After(info, Find(info, ":"))]

\* What follows the user information of an authority.
SiteOf(authority) == SubSeq(authority, FindLast(authority, "@") + 1, Len(authority))

\* [user [":" password] "@"] host [":" port]
WithAuthority(u, authority, answer) ==
  LET at == FindLast(authority, "@")
      site == SiteOf(authority)
      colon == Find(site, ":")
      host == Before(site, colon)
      v == IF at = 0 THEN u ELSE WithUserInfo(u, Before(authority, at))
      w == IF colon = 0 THEN v ELSE WithPort(v, After(site, colon))
  IN IF \E a \in Addresses : host = <<a>> THEN [w EXCEPT !.ips = host]
     ELSE IF \E d \in Dotted : host = <<d>>
            THEN [w EXCEPT !.error = "IP_CONVERTER_ERROR"]
     ELSE WithHost(w, host, answer)

\* path ["?" query ["#" fragment]]: without a query "#" belongs to the path.
WithTail(u, tail) ==
  LET mark == Find(tail, "?")
      query == After(tail, mark)
      hash == Find(query, "#")
  IN [u EXCEPT !.path = Before(tail, mark),
               !.query = Before(query, hash),
               !.fragment = After(query, hash),
               !.valid = TRUE]

-----------------------------------------------------------------------------
(* The constructor.  Two slashes are looked for anywhere behind the scheme *)
(* and two characters are taken from its front if they are found.          *)

SchemeOf(text) == Before(text, Find(text, ":"))
RestOf(text) == After(text, Find(text, ":"))

Slashes(rest) ==
  SelectInSeq([i \in 1..(Len(rest) - 1) |-> <<rest[i], rest[i + 1]>>],
              LAMBDA x : x = <<"/", "/">>)

BodyOf(rest) == IF Slashes(rest) = 0 THEN rest ELSE SubSeq(rest, 3, Len(rest))

AuthorityEnd(rest) ==
  SelectInSubSeq(BodyOf(rest), Slashes(rest), Len(BodyOf(rest)),
                 LAMBDA x : x = "/")

AuthorityOf(rest) ==
  IF Slashes(rest) = 0 THEN <<>> ELSE Before(BodyOf(rest), AuthorityEnd(rest))

TailOf(rest) ==
  IF Slashes(rest) = 0 THEN rest
  ELSE IF AuthorityEnd(rest) = 0 THEN <<>>
  ELSE SubSeq(BodyOf(rest), AuthorityEnd(rest), Len(BodyOf(rest)))

HostOf(text) ==
  LET site == SiteOf(AuthorityOf(RestOf(text))) IN Before(site, Find(site, ":"))

\* stoi() throws, and there is no object.
ParseThrows(text) ==
  LET site == SiteOf(AuthorityOf(RestOf(text))) IN
    Find(site, ":") # 0 /\ PortThrows(After(site, Find(site, ":")))

Parse(text, answer) ==
  LET rest == RestOf(text)
      u == WithScheme(Blank, SchemeOf(text))
      v == IF Slashes(rest) = 0 THEN u
           ELSE WithAuthority(u, AuthorityOf(rest), answer)
  IN IF Find(text, ":") = 0 THEN [Blank EXCEPT !.error = "BAD_URL_FORMAT"]
     ELSE IF v.error # "none" THEN v
     ELSE WithTail(v, TailOf(rest))

\* composeUrl()
composeUrl(u) ==
  LET info == u.user \o (IF u.user = <<>> THEN <<>> ELSE Prefixed(":", u.password))
      host == IF u.host # <<>> THEN u.host ELSE <<Head(u.ips)>>
  IN Suffixed(u.scheme, ":")
     \o (IF u.host = <<>> /\ u.ips = <<>> THEN <<>>
         ELSE <<"/", "/">> \o Suffixed(info, "@") \o host \o Prefixed(":", u.port))
     \o u.path \o Prefixed("?", u.query) \o Prefixed("#", u.fragment)

UrlInit ==
  /\ calls = 0
  /\ \/ /\ url = [Blank EXCEPT !.valid = TRUE]
        /\ named = {} /\ given = FALSE /\ silent = FALSE
     \/ \E text \in UrlInputs.texts : \E answer \in Answers(HostOf(text)) :
          /\ ~ParseThrows(text)
          /\ url = Parse(text, answer)
          /\ named = {url.host} \ {<<>>}
          /\ given = (url.host = <<>> /\ url.ips # <<>>)
          /\ silent = (url.host # <<>> /\ answer = Silence)

-----------------------------------------------------------------------------
(* The setters.                                                            *)

Called == calls < MaxCalls /\ calls' = calls + 1

Put(u) == url' = u /\ UNCHANGED <<named, given, silent>>

\* A bad scheme makes the Url invalid, without an error.
SetScheme(scheme) ==
  /\ Called
  /\ Put(IF ToSet(scheme) \cap Special = {} THEN WithScheme(url, scheme)
         ELSE [url EXCEPT !.valid = FALSE])

\* The encoding of the user name in setAuthority(): places of the name as it was
\* given are used in the name that grows; when the character that stands there
\* now is not a special one, map::at() throws.
EncodeAt(user, i) ==
  IF ~user.thrown /\ i \in DOMAIN user.name /\ user.name[i] \in Special
    THEN [user EXCEPT !.name = SubSeq(@, 1, i - 1) \o Percent(@[i]) \o After(@, i)]
    ELSE [user EXCEPT !.thrown = TRUE]

EncodeUser(user, name) ==
  LET done[n \in 0..Len(name)] ==
        IF n = 0 THEN user
        ELSE IF name[n] \in Special THEN EncodeAt(done[n - 1], n) ELSE done[n - 1]
  IN done[Len(name)]

\* It is done twice, the second time in the place of the password's.
WithUser(u, name, word) ==
  LET once == EncodeUser([name |-> name, thrown |-> FALSE], name)
      twice == EncodeUser(once, name)
  IN [u EXCEPT !.user = twice.name, !.password = IF once.thrown THEN @ ELSE word]

\* (A slip: what the resolver says is not looked at.)
SetAuthorityUnheard(host, name, word) ==
  /\ Called
  /\ UNCHANGED given
  /\ named' = named \cup {host}
  /\ \E answer \in Answers(host) :
       /\ silent' = (silent \/ answer = Silence)
       /\ url' = [WithUser(WithHost(url, host, answer), name, word) EXCEPT
                    !.valid = @ /\ url.error = "none"]

SetAuthority(host, name, word) ==
  /\ Called
  /\ UNCHANGED given
  /\ IF ToSet(host) \cap Special # {}
       THEN /\ url' = [url EXCEPT !.error = "BAD_HOST_FORMAT", !.valid = FALSE]
            /\ UNCHANGED <<named, silent>>
       ELSE /\ named' = named \cup {host}
            /\ \E answer \in Answers(host) :
                 /\ silent' = (silent \/ answer = Silence)
                 /\ LET u == WithHost(url, host, answer) IN
                      url' = IF u.error # "none" THEN [u EXCEPT !.valid = FALSE]
                             ELSE WithUser(u, name, word)

AddHostIP(ip) ==
  /\ Called
  /\ UNCHANGED <<named, silent>>
  /\ given' = TRUE
  /\ url' = IF ip \in Addresses THEN [url EXCEPT !.ips = Append(@, ip)]
            ELSE [url EXCEPT !.valid = FALSE,
                    !.error = IF ip \in Dotted THEN "IP_CONVERTER_ERROR"
                              ELSE "BAD_IP_FORMAT"]

\* setPort() with a text or with a number, which std::to_string makes a text of.
SetPort(text) == Called /\ Put(WithPort(url, text))

SetPath(path) ==
  Called /\ Put([url EXCEPT !.path = EncodeOnly(path, Special \ {"/"})])

\* (A slip: "#" is missing from the characters that are encoded in a query.)
SetQueryWithHash(query) ==
  Called /\ Put([url EXCEPT !.query = EncodeOnly(query, {" ", "@", "%", ":", "/", "?"})])

SetQuery(query) ==
  Called /\ Put([url EXCEPT !.query = EncodeOnly(query, Special \ {"&", "=", ";"})])

SetFragment(fragment) ==
  Called /\ Put([url EXCEPT !.fragment = EncodeOnly(fragment, Special)])

UrlNext ==
  \/ \E scheme \in UrlInputs.schemes : SetScheme(scheme)
  \/ \E host \in UrlInputs.hosts, name \in UrlInputs.users,
        word \in UrlInputs.passwords : SetAuthority(host, name, word)
  \/ \E ip \in UrlInputs.ips : AddHostIP(ip)
  \/ \E text \in UrlInputs.ports : SetPort(text)
  \/ \E path \in UrlInputs.paths : SetPath(path)
  \/ \E query \in UrlInputs.queries : SetQuery(query)
  \/ \E fragment \in UrlInputs.fragments : SetFragment(fragment)

-----------------------------------------------------------------------------
(* Properties.                                                             *)

AddressesOf(host) ==
  IF host \in DOMAIN Directory THEN ToSet(Directory[host]) ELSE {}

\* Lines 361-403: the addresses of a valid Url are those of the host that composeUrl()
\* and the Host header name, as long as one host was ever set and no address was
\* added; it has none only when a resolution failed for a reason that the switch at
\* line 364 does not know.  (A second host's addresses come behind those of the first,
\* to which the handlers go on to connect, line 396; inc/url.hpp:117 says of hostIP()
\* in both cases: "Returns host in form of ip address".)
AddressIsOfHost ==
  url.valid /\ ~given /\ Cardinality(named) = 1 =>
    /\ ToSet(url.ips) \subseteq AddressesOf(url.host)
    /\ url.ips = <<>> => silent

\* What composeUrl() makes of an Url can be read again: it has a scheme, a port
\* that fits in 16 bits and nothing but a number, or none where the scheme has
\* none, a host that is no number, a path that begins with "/" before a query, and
\* a fragment only behind one; a host, a user name and a password (which is never
\* encoded) hold no delimiter of an authority, and where there is neither a host nor
\* an address no part holds two slashes.
Readable(u) ==
  /\ u.scheme # <<>> /\ ":" \notin ToSet(u.scheme)
  /\ IF u.port # <<>> THEN u.port = <<ToString(u.local)>>
     ELSE u.local = 0 /\ \A s \in DOMAIN DefaultPort : u.scheme # <<s>>
  /\ u.host = <<>> => Len(u.ips) <= 1
  /\ \A word \in Addresses \cup Dotted : u.host # <<word>>
  /\ {"@", ":", "/"} \cap ToSet(u.host) = {}
  /\ u.host # <<>> \/ u.ips # <<>> =>
       IF u.path = <<>> THEN u.query = <<>> ELSE u.path[1] = "/"
  /\ u.host = <<>> /\ u.ips = <<>> =>
       u.user = <<>> /\ u.port = <<>>
         /\ \A part \in {u.path, u.query, u.fragment} : Slashes(part) = 0
  /\ u.fragment # <<>> => u.query # <<>>
  /\ u.user = <<>> => u.password = <<>>
  /\ {"/", ":"} \cap ToSet(u.user) = {} /\ "/" \notin ToSet(u.password)

\* Lines 46-132 and 316-354: the constructor reads from what composeUrl() has
\* written the parts that were set, whatever setters and texts they come from and
\* whatever the resolver answers this time but an error.  Where there are a host and
\* addresses it is the host that is written and read (line 333), although
\* inc/url.hpp:166 says: "IP address representation is considered as preferred."
ComposedIsReadBack ==
  url.valid /\ Readable(url) =>
    \A answer \in Answers(url.host) : answer.error = "none" =>
      LET again == Parse(composeUrl(url), answer) IN
        /\ again.valid
        /\ [again EXCEPT !.ips = url.ips] = url
        /\ url.host = <<>> => again.ips = url.ips
=============================================================================
