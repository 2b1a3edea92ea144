---------------------------- MODULE HttpMessage ----------------------------
(***************************************************************************)
(* tristan::network::HttpRequest and its GetRequest, PostRequest and       *)
(* PutRequest (src/http_request.cpp), with HttpHeaders, HttpParams and     *)
(* HttpResponse: how a client makes an HTTP request of an Url, what        *)
(* requestData() writes, and what becomes of the head of the answer.       *)
(*                                                                         *)
(* A request owns a copy of the Url, so that the Url's setters and the     *)
(* request's follow one another here.                                      *)
(***************************************************************************)
EXTENDS Url

CONSTANTS
  Kinds,       \* the classes of requests that the client makes
  HttpInputs,  \* what the client calls the setters with
  Heads,       \* external: the heads that servers send, in parts
  Versions,    \* the words that hold "HTTP/" (no head has it over several words)
  Lower        \* tolower() on the names in them

Fields == [name : Words, value : Text]

Space == " "
EndOfLine == "\r\n"

ASSUME HttpAssumption ==
  /\ Kinds \subseteq {"GET", "POST", "PUT"} \cap Words
  /\ HttpInputs \in [headers : SUBSET Fields, params : SUBSET Fields,
                     bodies : SUBSET Text, ssl : SUBSET BOOLEAN, data : SUBSET Text]
  \* The digits behind a percent sign are written by the encoding alone.
  /\ \A field \in HttpInputs.params :
       ToSet(field.value) \cap ({"0x"} \cup {Digit(c) : c \in Special}) = {}
  \* What requestData() writes itself.
  /\ {Space, "HTTP/1.1", EndOfLine, "/", "?", "&", "=", ":", "host", "content-length"}
       \subseteq Words
  /\ "HTTP/1.1" \in Versions /\ {Space, ":"} \cap Versions = {}
  \* A head is made of lines, and a value begins behind the space.
  /\ \A head \in Heads :
       /\ {head.version, head.status, "OK"} \subseteq Words \ {EndOfLine}
       /\ head.fields \in Seq(Fields)
       /\ \A field \in ToSet(head.fields) :
            /\ field.name \notin {":", EndOfLine} /\ EndOfLine \notin ToSet(field.value)
            /\ field.value = <<>> \/ field.value[1] # Space

VARIABLE request

None == [kind |-> "none"]
Unanswered == [error |-> "unanswered"]

Bodied == {"POST", "PUT"}

RequestTypeOK ==
  \/ request = None
  \/ /\ request.kind \in Kinds
     /\ request.headers \in Seq(Fields) /\ request.params \in Seq(Fields)
     /\ request.body \in Text /\ request.data \in Text
     /\ {request.ssl, request.composed} \subseteq BOOLEAN
     /\ request.error \in {"none", "INVALID_URL"}

MessageTypeOK == UrlTypeOK /\ RequestTypeOK

-----------------------------------------------------------------------------
(* HttpHeaders and HttpParams.                                             *)

Field(name, value) == [name |-> name, value |-> value]

\* headerValue(): the first of the name, with its letters as they are.
HasHeader(headers, name, value) ==
  LET i == SelectInSeq(headers, LAMBDA h : h.name = name) IN
    i # 0 /\ headers[i].value = value

\* The pieces of a text between the separators c.
Pieces(s, c) ==
  LET read[n \in 0..Len(s)] ==
        IF n = 0 THEN << <<>> >>
        ELSE LET done == read[n - 1] IN
          IF s[n] = c THEN Append(done, <<>>)
          ELSE [done EXCEPT ![Len(done)] = Append(@, s[n])]
  IN read[Len(s)]

\* One line of HttpHeaders(text): at() throws when nothing follows the colon.
LineThrows(line) == Find(line, ":") # 0 /\ Find(line, ":") = Len(line)

\* (A slip: the space behind the colon becomes part of the value.)
ReadLineSpaced(line) == Field(Lower[line[1]], After(line, Find(line, ":")))

ReadLine(line) ==
  LET value == After(line, Find(line, ":")) IN
    Field(Lower[line[1]], IF value[1] = Space THEN Tail(value) ELSE value)

IsHeader(line) == Versions \cap ToSet(line) = {} /\ Find(line, ":") # 0

HttpHeaders(text) ==
  LET lines == Pieces(text, EndOfLine) IN
    FlattenSeq([i \in DOMAIN lines |->
                  IF IsHeader(lines[i]) THEN <<ReadLine(lines[i])>> ELSE <<>>])

-----------------------------------------------------------------------------
(* requestData().                                                          *)

\* The elements of a sequence of texts, with a separator between them.
Joined(texts, c) ==
  FlattenSeq([i \in DOMAIN texts |-> IF i = 1 THEN texts[i] ELSE <<c>> \o texts[i]])

Target(path) == IF path = <<>> \/ path[1] # "/" THEN <<"/">> \o path ELSE path

\* The slip that forgets the separator between the parameters and the query.
GetFieldsRunOn(r) ==
  (IF r.params = <<>> THEN <<>>
   ELSE <<"?">> \o Joined([i \in DOMAIN r.params |->
          <<r.params[i].name>> \o Prefixed("=", r.params[i].value)], "&"))
  \o r.url.query

\* Parameters and query of a GET request; a query alone begins with "&" as well.
GetFields(r) ==
  (IF r.params = <<>> THEN <<>>
   ELSE <<"?">> \o Joined([i \in DOMAIN r.params |->
          <<r.params[i].name>> \o Prefixed("=", r.params[i].value)], "&"))
  \o Prefixed("&", r.url.query)

UrlEncoded == <<"application/x-www-form-urlencoded">>
Multipart == <<"multipart/form-data">>

\* What becomes of the value of a parameter in a body; of a multipart one, which is
\* "to be developed in following versions", nothing.
FormValue(headers, value) ==
  IF HasHeader(headers, "content-type", UrlEncoded) THEN encodeUrl(value)
  ELSE IF HasHeader(headers, "content-type", Multipart) THEN <<>> ELSE value

Form(r) ==
  Joined([i \in DOMAIN r.params |->
            <<r.params[i].name, "=">> \o FormValue(r.headers, r.params[i].value)], "&")

\* (A slip: the length is taken before the body is made.)
WithBodyLate(r) ==
  IF r.kind \notin Bodied THEN r
  ELSE [r EXCEPT !.body = IF @ = <<>> THEN Form(r) ELSE @,
          !.headers = Append(@, Field("content-length", <<ToString(Len(r.body))>>))]

\* The body is made of the parameters only if the client has set none.
WithBody(r) ==
  IF r.kind \notin Bodied THEN r
  ELSE LET body == IF r.body = <<>> THEN Form(r) ELSE r.body IN
    [r EXCEPT !.body = body,
              !.headers = Append(@, Field("content-length", <<ToString(Len(body))>>))]

HeaderLines(headers) ==
  FlattenSeq([i \in DOMAIN headers |->
                <<headers[i].name, ":">> \o headers[i].value \o <<EndOfLine>>])

\* What is written goes behind the data that setRequest() has left there.
requestData(r) ==
  IF r.composed THEN r
  ELSE LET w == WithBody(r) IN
    [w EXCEPT !.composed = TRUE,
       !.data = @ \o <<r.kind, Space>> \o Target(r.url.path)
                \o (IF r.kind = "GET" THEN GetFields(r) ELSE <<>>)
                \o <<Space, "HTTP/1.1", EndOfLine>> \o HeaderLines(w.headers)
                \o <<EndOfLine>> \o w.body]

-----------------------------------------------------------------------------
(* The client's calls.                                                     *)

\* The constructor: TLS is decided by the port alone.  setError() runs before
\* any callback can be registered, and nothing else keeps the request from
\* being handled.
Make(kind) ==
  LET bad == \/ ~url.valid
             \/ /\ url.scheme \notin {<<"http">>, <<"https">>}
                /\ url.port \notin {<<"80">>, <<"443">>}
  IN [kind |-> kind, url |-> url, params |-> <<>>, body |-> <<>>, data |-> <<>>,
      composed |-> FALSE, head |-> {}, response |-> Unanswered,
      error |-> IF bad THEN "INVALID_URL" ELSE "none",
      headers |-> IF bad THEN <<>> ELSE <<Field("host", url.host)>>,
      ssl |-> ~bad /\ url.local = 443]

NewRequest(kind) ==
  /\ request = None
  /\ calls < MaxCalls  \* the bound leaves a call for the request
  /\ request' = Make(kind)
  /\ UNCHANGED urlVars

\* A setter of the request; calls are counted together with those of the Url.
Change(r) ==
  /\ request # None
  /\ Called
  /\ request' = r
  /\ UNCHANGED <<url, named, given, silent>>

AddHeader(field) ==
  Change(IF field.name = "" THEN request
         ELSE [request EXCEPT !.headers = Append(@, field)])

AddParam(field) ==
  Change(IF field.name = "" THEN request
         ELSE [request EXCEPT !.params = Append(@, field)])

SetBody(body) == request.kind \in Bodied /\ Change([request EXCEPT !.body = body])

SetSSL(value) == Change([request EXCEPT !.ssl = value])

SetRequest(data) == Change([request EXCEPT !.data = data])

\* The handler asks for the data; it may do so again after a stop().
Compose ==
  /\ request # None
  /\ request' = requestData(request)
  /\ UNCHANGED urlVars

-----------------------------------------------------------------------------
(* The handler's call of initResponse() with the head of the answer.       *)

\* What a server writes: a status line and fields, with a space behind the colon
\* or without.
Spell(head) ==
  <<head.version, Space, head.status, Space, "OK", EndOfLine>>
    \o FlattenSeq([i \in DOMAIN head.fields |->
                    <<head.fields[i].name, ":">>
                      \o (IF head.spaced THEN <<Space>> ELSE <<>>)
                      \o head.fields[i].value \o <<EndOfLine>>])
    \o <<EndOfLine>>

HttpResponse(text) ==
  IF text[1] # "HTTP/1.1" THEN [error |-> "HTTP_BAD_RESPONSE_FORMAT"]
  ELSE [error |-> "none", status |-> text[3], headers |-> HttpHeaders(text)]

\* An exception leaves the thread of the handler, which ends the program.
HeadThrows(text) ==
  /\ text[1] = "HTTP/1.1"
  /\ \E line \in ToSet(Pieces(text, EndOfLine)) : IsHeader(line) /\ LineThrows(line)

InitResponse(head) ==
  /\ request # None
  /\ request.composed
  /\ request.response = Unanswered
  /\ request' = [request EXCEPT
       !.head = {head},
       !.response = IF HeadThrows(Spell(head)) THEN [error |-> "terminated"]
                    ELSE HttpResponse(Spell(head))]
  /\ UNCHANGED urlVars

MessageInit == UrlInit /\ request = None

MessageNext ==
  \/ request = None /\ UrlNext /\ UNCHANGED request
  \/ \E kind \in Kinds : NewRequest(kind)
  \/ \E field \in HttpInputs.headers : AddHeader(field)
  \/ \E field \in HttpInputs.params : AddParam(field)
  \/ \E body \in HttpInputs.bodies : SetBody(body)
  \/ \E value \in HttpInputs.ssl : SetSSL(value)
  \/ \E data \in HttpInputs.data : SetRequest(data)
  \/ Compose
  \/ \E head \in Heads : InitResponse(head)

messageVars == <<urlVars, request>>

MessageSpec == MessageInit /\ [][MessageNext]_messageVars

-----------------------------------------------------------------------------
(* Properties.                                                             *)

\* Percent encoding taken back.
Decoded(s) ==
  FlattenSeq([i \in DOMAIN s |->
    LET of == {c \in Special : s[i] = Digit(c)} IN
      IF s[i] \in {"%", "0x"} THEN <<>>
      ELSE IF of = {} THEN <<s[i]>> ELSE <<CHOOSE c \in of : TRUE>>])

FieldsIn(text) ==
  LET pieces == Pieces(text, "&") IN
    IF text = <<>> THEN <<>>
    ELSE [i \in DOMAIN pieces |->
            Field(pieces[i][1], Decoded(After(pieces[i], Find(pieces[i], "="))))]

TargetIn(data) == Before(SubSeq(data, 3, Len(data)), Find(SubSeq(data, 3, Len(data)), Space))

Plain(s) == ToSet(s) \cap Special = {}

\* What the client must see to for a GET request, whose values are not encoded and
\* whose query gets no "?" of its own.
GetIsPlain(r) ==
  /\ r.params # <<>> \/ r.url.query = <<>>
  /\ {Space, "?"} \cap (ToSet(r.url.path) \cup ToSet(r.url.query)
                          \cup {field.name : field \in ToSet(r.params)}) = {}
  /\ \A i \in DOMAIN r.params : Plain(r.params[i].value)

FieldsOf(r) == IF r.kind = "GET" THEN r.params \o FieldsIn(r.url.query) ELSE r.params

\* src/http_request.cpp:60-87 and 120-140: when the data is composed, a server reads from it the
\* parameters in the order in which they were added: behind the target of a GET
\* request together with the query of the Url, in the body of a form encoded POST
\* or PUT request whatever characters their values hold.  (No name is encoded.)
FieldsAreReadBack ==
  [][/\ request # None /\ ~request.composed /\ request'.composed
     /\ request.data = <<>> /\ request.body = <<>>
     /\ {"&", "="} \cap {field.name : field \in ToSet(request.params)} = {}
     /\ IF request.kind = "GET" THEN GetIsPlain(request)
        ELSE HasHeader(request.headers, "content-type", UrlEncoded)
     => FieldsOf(request) =
          FieldsIn(IF request.kind = "GET"
                     THEN LET target == TargetIn(request'.data) IN
                            SubSeq(target, Len(Before(target, Find(target, "?"))) + 2,
                                   Len(target))
                     ELSE request'.body)]_messageVars

\* Where the head of a message ends: its blank line.
HeadEnd(data) ==
  SelectInSeq([i \in 1..(Len(data) - 1) |-> <<data[i], data[i + 1]>>],
              LAMBDA x : x = <<EndOfLine, EndOfLine>>)

\* src/http_request.cpp:120-170: the Content-Length that is sent is the length of the body that
\* is sent, however the body came about and whatever is set after that.
LengthMatchesBody ==
  request # None /\ request.composed /\ HeadEnd(request.data) # 0 =>
    LET data == request.data
        end == HeadEnd(data)
        lines == {line \in ToSet(Pieces(SubSeq(data, 1, end), EndOfLine)) :
                    line # <<>> /\ line[1] = "content-length"}
    IN \A line \in lines :
         line = <<"content-length", ":", ToString(Len(data) - end - 1)>>

\* src/http_header.cpp:6-44: the response holds the fields of the head in their
\* order, with names in small letters, if each has a value or a space before it and
\* none holds "HTTP/" of any version, with which it is taken for a status line.
ResponseIsReadBack ==
  request # None =>
    \A head \in request.head :
      /\ head.version = "HTTP/1.1"
      /\ \A field \in ToSet(head.fields) :
           /\ head.spaced \/ field.value # <<>>
           /\ Versions \cap ({field.name} \cup ToSet(field.value)) = {}
      => request.response =
           [error |-> "none", status |-> head.status,
            headers |-> [i \in DOMAIN head.fields |->
                           Field(Lower[head.fields[i].name], head.fields[i].value)]]
=============================================================================
